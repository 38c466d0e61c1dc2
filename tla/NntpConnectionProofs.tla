------------------------ MODULE NntpConnectionProofs ------------------------
(***************************************************************************)
(* Proofs about NntpConnection, for every set of commands, codes,          *)
(* configurations and capability lists: a connection that looks Ready has  *)
(* no reply outstanding, and a command reads its own reply.                *)
(***************************************************************************)
EXTENDS NntpConnection, SequenceTheorems, TLAPS

\* What the state field says while a call is in progress, and after it.
PlaceInv ==
    /\ cmd = "tcp" <=> phase = "open"
    /\ cmd \in {"tcp", "greeting"} => state = "Connecting"
    /\ cmd \in {"user", "pass"} => state = "Authenticating"
    /\ cmd \in Probes => state = "Ready"
    /\ cmd \in Running => state = "Busy"
    /\ phase = "body" => BodyCode(cmd) \in Codes
    /\ FatalNotReady
    /\ ContentUsable

\* A server that is gone owes nothing.
GoneInv == ~alive => Len(cmds) = 0

\* All that is under way belongs to command c.
Mine(c) ==
    /\ \A i \in 1..Len(cmds) : cmds[i].for = c
    /\ \A i \in 1..Len(stream) : stream[i].for = c

Quiet == Len(cmds) = 0 /\ Len(stream) = 0

\* The reply to a command that was written and of which nothing is read: it
\* is due, sent, half sent, or will never come.
LineDue ==
    \/ Quiet
    \/ Len(cmds) = 1 /\ Len(stream) = 0 /\ cmds[1].part = "line"
    \/ Len(cmds) = 0 /\ Len(stream) = 1 /\ stream[1].kind # "body"
    \/ /\ Len(cmds) = 1 /\ Len(stream) = 1 /\ cmds[1].part = "body"
       /\ stream[1].kind = BodyCode(cmd) /\ BodyCode(cmd) \in Codes
    \/ /\ Len(cmds) = 0 /\ Len(stream) = 2 /\ stream[2].kind = "body"
       /\ stream[1].kind = BodyCode(cmd) /\ BodyCode(cmd) \in Codes

\* The same for its body.
BodyDue ==
    \/ Quiet
    \/ Len(cmds) = 1 /\ Len(stream) = 0 /\ cmds[1].part = "body"
    \/ Len(cmds) = 0 /\ Len(stream) = 1 /\ stream[1].kind = "body"

\* Where client and server agree which reply is next.
AlignInv ==
    owed = {} =>
      /\ cmd = "none" /\ state = "Ready" => Quiet
      /\ phase = "send" /\ cmd # "quit" => Quiet
      /\ phase = "line" /\ cmd # "quit" => Mine(cmd) /\ LineDue
      /\ phase = "body" => Mine(cmd) /\ BodyDue

IInv == TypeOK /\ PlaceInv /\ GoneInv /\ AlignInv

-----------------------------------------------------------------------------
(* What the steps of the session do to its two queues                       *)

Pending == [for : Commands, part : {"line", "body"}]
Part == [for : Commands, kind : Codes \cup {"body", "garbled"}]

\* q is s without its first element.
Dropped(q, s) ==
    /\ Len(q) = Len(s) - 1
    /\ \A i \in 1..Len(q) : q[i] = s[i + 1]

\* q is s with e at its end.
Extended(q, s, e) ==
    /\ Len(q) = Len(s) + 1
    /\ q[Len(q)] = e
    /\ \A i \in 1..Len(s) : q[i] = s[i]

\* Tail drops the first element.
LEMMA TailDrops ==
    ASSUME NEW S, NEW s \in Seq(S), s # <<>>
    PROVE  /\ Tail(s) \in Seq(S) /\ Dropped(Tail(s), s)
           /\ Head(s) = s[1] /\ s[1] \in S /\ Len(s) \in Nat \ {0}
  BY HeadTailProperties, EmptySeq, ElementOfSeq, LenProperties DEF Dropped

\* Append extends.
LEMMA AppendExtends ==
    ASSUME NEW S, NEW s \in Seq(S), NEW e \in S
    PROVE  Append(s, e) \in Seq(S) /\ Extended(Append(s, e), s, e)
  BY AppendProperties, LenProperties DEF Extended

\* A server that goes from the status to the body replaces what is due first.
LEMMA HeadReplaced ==
    ASSUME NEW S, NEW s \in Seq(S), NEW e \in S, s # <<>>
    PROVE  /\ <<e>> \o Tail(s) \in Seq(S)
           /\ Len(<<e>> \o Tail(s)) = Len(s)
           /\ (<<e>> \o Tail(s))[1] = e
           /\ \A i \in 2..Len(s) : (<<e>> \o Tail(s))[i] = s[i]
<1>1. Tail(s) \in Seq(S) /\ Dropped(Tail(s), s) /\ Len(s) \in Nat \ {0}
  BY TailDrops
<1>2. <<e>> \in Seq(S) /\ Len(<<e>>) = 1 /\ <<e>>[1] = e
  OBVIOUS
<1> QED
  BY <1>1, <1>2, ConcatProperties DEF Dropped

\* The server sends one part, for the command it answers next.
LEMMA SendPartEffect ==
    ASSUME NEW K \in SUBSET (Codes \cup {"garbled"}), NEW M,
           cmds \in Seq(Pending), stream \in Seq(Part), SendPart(K, M)
    PROVE  /\ cmds' \in Seq(Pending) /\ stream' \in Seq(Part)
           /\ alive /\ alive' /\ Len(cmds) \in Nat \ {0} /\ Len(stream) \in Nat
           /\ \E k \in K \cup {"body"} :
                 /\ Extended(stream', stream, [for |-> cmds[1].for, kind |-> k])
                 /\ \/ cmds[1].part = "line" /\ k \in K \ M /\ Dropped(cmds', cmds)
                    \/ cmds[1].part = "body" /\ k = "body" /\ Dropped(cmds', cmds)
                    \/ /\ cmds[1].part = "line" /\ k \in K \cap M
                       /\ Len(cmds') = Len(cmds)
                       /\ cmds'[1] = [for |-> cmds[1].for, part |-> "body"]
                       /\ \A i \in 2..Len(cmds) : cmds'[i] = cmds[i]
<1>1. cmds # <<>> /\ alive /\ alive' = alive
  BY DEF SendPart
<1>2. /\ Tail(cmds) \in Seq(Pending) /\ Dropped(Tail(cmds), cmds) /\ Head(cmds) = cmds[1]
      /\ cmds[1] \in Pending /\ Len(cmds) \in Nat \ {0}
  BY <1>1, TailDrops
<1>3. Len(stream) \in Nat
  BY LenProperties
<1> DEFINE r == cmds[1].for
<1>4. r \in Commands
  BY <1>2 DEF Pending
<1>5. CASE /\ cmds[1].part = "body"
           /\ stream' = Append(stream, [for |-> r, kind |-> "body"])
           /\ cmds' = Tail(cmds)
  <2>1. [for |-> r, kind |-> "body"] \in Part
    BY <1>4 DEF Part
  <2> QED
    BY <1>1, <1>2, <1>3, <1>5, <2>1, AppendExtends
<1>6. ASSUME NEW k \in K, cmds[1].part = "line",
             stream' = Append(stream, [for |-> r, kind |-> k]),
             cmds' = IF k \in M THEN <<[for |-> r, part |-> "body"]>> \o Tail(cmds)
                     ELSE Tail(cmds)
      PROVE  /\ cmds' \in Seq(Pending) /\ stream' \in Seq(Part)
             /\ Extended(stream', stream, [for |-> r, kind |-> k])
             /\ \/ k \notin M /\ Dropped(cmds', cmds)
                \/ /\ k \in M
                   /\ Len(cmds') = Len(cmds)
                   /\ cmds'[1] = [for |-> r, part |-> "body"]
                   /\ \A i \in 2..Len(cmds) : cmds'[i] = cmds[i]
  <2>1. [for |-> r, kind |-> k] \in Part /\ [for |-> r, part |-> "body"] \in Pending
    BY <1>4 DEF Part, Pending
  <2>2. stream' \in Seq(Part) /\ Extended(stream', stream, [for |-> r, kind |-> k])
    BY <1>6, <2>1, AppendExtends
  <2>3. CASE k \in M
    BY <1>1, <1>6, <2>1, <2>2, <2>3, HeadReplaced
  <2>4. CASE k \notin M
    BY <1>2, <1>6, <2>2, <2>4
  <2> QED
    BY <2>3, <2>4
<1>7. \/ /\ cmds[1].part = "body"
         /\ stream' = Append(stream, [for |-> r, kind |-> "body"])
         /\ cmds' = Tail(cmds)
      \/ /\ cmds[1].part = "line"
         /\ \E k \in K : /\ stream' = Append(stream, [for |-> r, kind |-> k])
                        /\ cmds' = IF k \in M
                                   THEN <<[for |-> r, part |-> "body"]>> \o Tail(cmds)
                                   ELSE Tail(cmds)
  BY <1>2 DEF SendPart
<1>8. CASE cmds[1].part = "line"
  <2>1. PICK k \in K : /\ stream' = Append(stream, [for |-> r, kind |-> k])
                       /\ cmds' = IF k \in M
                                  THEN <<[for |-> r, part |-> "body"]>> \o Tail(cmds)
                                  ELSE Tail(cmds)
    BY <1>7, <1>8
  <2> HIDE DEF r
  <2> QED
    BY <1>1, <1>2, <1>3, <1>6, <1>8, <2>1 DEF r
<1> QED
  BY <1>5, <1>7, <1>8

\* The client reads one part.
LEMMA TakePartEffect ==
    ASSUME stream \in Seq(Part), TakePart
    PROVE  /\ stream' \in Seq(Part) /\ Dropped(stream', stream)
           /\ Head(stream) = stream[1] /\ stream[1] \in Part /\ Len(stream) \in Nat \ {0}
           /\ cmds' = cmds /\ alive' = alive
  BY TailDrops DEF TakePart

\* The client writes a command.
LEMMA WriteCmdEffect ==
    ASSUME NEW c \in Commands, cmds \in Seq(Pending), WriteCmd(c)
    PROVE  /\ cmds' \in Seq(Pending)
           /\ IF alive THEN Extended(cmds', cmds, [for |-> c, part |-> "line"])
                       ELSE cmds' = cmds
<1>1. [for |-> c, part |-> "line"] \in Pending
  BY DEF Pending
<1> QED
  BY <1>1, AppendExtends DEF WriteCmd

-----------------------------------------------------------------------------
(* Commands and what follows a probe                                        *)

\* The rows of the table, for any command.
LEMMA RowFacts ==
    /\ \A c : BodyCode(c) \in {"none", "101", "202", "215", "220", "221", "222", "224"}
    /\ \A c \in (Handshake \cup {"quit", "post", "postbytes", "sent"}) \ {"caps", "ext"} :
          BodyCode(c) = "none"
    /\ \A c \in Handshake \cup {"quit"} : ~RowOf(c).bounded
<1> USE DEF RowOf, Row, FetchArticle, FetchHeadNumber, StatArticle, Ping, Group, OverviewFormat,
           ListActive, XoverLossless, Xover, Xhdr, Xpat, FetchBody, FetchBodyPrefix,
           PostArticle, PostArticleBytes, ArticleSent, Capabilities, Extensions
<1>1. \A c : BodyCode(c) \in {"none", "101", "202", "215", "220", "221", "222", "224"}
  BY DEF BodyCode
<1>2. \A c \in (Handshake \cup {"quit", "post", "postbytes", "sent"}) \ {"caps", "ext"} :
          BodyCode(c) = "none"
  BY DEF BodyCode, Handshake
<1>3. \A c \in Handshake \cup {"quit"} : ~RowOf(c).bounded
  BY DEF Handshake
<1> QED
  BY <1>1, <1>2, <1>3

\* The three kinds of commands, and which have a body.
LEMMA CommandFacts ==
    /\ "none" \notin Commands
    /\ Running \subseteq Commands /\ Running \cap (Handshake \cup {"quit", "none"}) = {}
    /\ \A c \in Commands : c \in Handshake \/ c = "quit" \/ c \in Running
    /\ \A op \in Ops : CommandOf(op) \in Running
    /\ "sent" \in Running
    /\ \A c \in Handshake \cup {"quit", "sent"} \cup Posting :
          BodyCode(c) \in Codes => c \in {"caps", "ext"}
    /\ \A c : BodyCode(c) \notin {"body", "garbled"}
    /\ "body" \notin Codes /\ "garbled" \notin Codes /\ "none" \notin Codes
<1>1. /\ "none" \notin Commands /\ "sent" \in Running
      /\ Running \cap (Handshake \cup {"quit", "none"}) = {}
      /\ Running \subseteq Commands
      /\ \A c \in Commands : c \in Handshake \/ c = "quit" \/ c \in Running
  BY OpsAssumption DEF Commands, Running, Handshake, AllOps
<1>2. \A op \in Ops : CommandOf(op) \in Running
  BY OpsAssumption DEF CommandOf, Commands, Running, Handshake, AllOps
<1>3. "body" \notin Codes /\ "garbled" \notin Codes /\ "none" \notin Codes
  BY CodesAssumption
<1>4. \A c \in Handshake \cup {"quit", "sent"} \cup Posting :
          BodyCode(c) \in Codes => c \in {"caps", "ext"}
  BY <1>3, RowFacts DEF Posting
<1>5. \A c : BodyCode(c) \notin {"body", "garbled"}
  BY RowFacts
<1> QED
  BY <1>1, <1>2, <1>3, <1>4, <1>5

\* After a probe the call returns with success or goes on with another one.
LEMMA AfterProbeFacts ==
    ASSUME NEW c, NEW cs, AfterProbe(c, cs),
           ret \in {"none", "ok", "declined", "fatal", "cancelled"}
    PROVE  \/ cmd' \in {"mode", "ext"} /\ phase' = "send" /\ ret' = ret
           \/ cmd' = "none" /\ phase' = "none" /\ ret' = "ok"
  BY DEF AfterProbe, GoOn, Return

CapsType == [reader : BOOLEAN, modeReader : BOOLEAN, have : SUBSET Content]

\* Whatever a probe yields, the content commands stay usable.
LEMMA CapsFacts ==
    /\ DefaultCaps \in CapsType /\ DefaultCaps.have = Content
    /\ \A labels : Probed(labels) \in CapsType /\ Probed(labels).have = Content
    /\ \A r \in BOOLEAN : [reader |-> TRUE, modeReader |-> r, have |-> Content] \in CapsType
<1>1. DefaultCaps \in CapsType /\ DefaultCaps.have = Content
  BY DEF DefaultCaps, CapsType
<1>2. \A r \in BOOLEAN : [reader |-> TRUE, modeReader |-> r, have |-> Content] \in CapsType
  BY DEF CapsType
<1>3. ASSUME NEW labels
      PROVE  Probed(labels) \in CapsType /\ Probed(labels).have = Content
  <2>1. Content # {}
    BY DEF Content
  <2>2. /\ ParseCaps(labels) \in CapsType
        /\ ParseCaps(labels).have \in {{}, Content}
    <3> DEFINE r == "READER" \in labels
               m == "MODE-READER" \in labels
    <3>1. r \in BOOLEAN /\ m \in BOOLEAN
      OBVIOUS
    <3>2. ParseCaps(labels) = [reader |-> r, modeReader |-> m,
                               have |-> IF labels = {} THEN {} ELSE Content]
      BY DEF ParseCaps
    <3> HIDE DEF r, m
    <3> QED
      BY <3>1, <3>2 DEF CapsType
  <2>3. CASE ParseCaps(labels).have = {}
    BY <2>1, <2>2, <2>3 DEF Probed, CapsType
  <2>4. CASE ParseCaps(labels).have # {}
    BY <2>2, <2>4 DEF Probed
  <2> QED
    BY <2>3, <2>4
<1> QED
  BY <1>1, <1>2, <1>3

\* A probe that failed: connect() goes on, or is over.
LEMMA ProbeFailFacts ==
    ASSUME ProbeFail, cmd \in Probes, TypeOK
    PROVE  /\ \/ cmd' \in {"mode", "ext"} /\ phase' = "send" /\ ret' = ret
              \/ cmd' = "none" /\ phase' = "none" /\ ret' = "ok"
           /\ state' = state /\ compress' = compress
           /\ caps' \in CapsType /\ (ContentUsable => caps'.have = Content)
<1>1. ret \in {"none", "ok", "declined", "fatal", "cancelled"} /\ caps \in CapsType
  BY DEF TypeOK, CapsType
<1>2. AfterProbe(cmd, caps') /\ caps' = (IF cmd = "caps" THEN DefaultCaps ELSE caps)
      /\ state' = state /\ compress' = compress
  BY DEF ProbeFail
<1>3. caps' \in CapsType /\ (ContentUsable => caps'.have = Content)
  BY <1>1, <1>2, CapsFacts DEF ContentUsable
<1> QED
  BY <1>1, <1>2, <1>3, AfterProbeFacts

\* A probe that was answered without a body.
LEMMA ProbeReplyFacts ==
    ASSUME NEW code, ProbeReply(code), cmd \in Probes, TypeOK
    PROVE  /\ \/ cmd' \in {"mode", "ext"} /\ phase' = "send" /\ ret' = ret
              \/ cmd' = "none" /\ phase' = "none" /\ ret' = "ok"
           /\ state' = state /\ compress' \in BOOLEAN
           /\ caps' \in CapsType /\ (ContentUsable => caps'.have = Content)
<1>1. /\ ret \in {"none", "ok", "declined", "fatal", "cancelled"} /\ caps \in CapsType
      /\ compress \in BOOLEAN
  BY DEF TypeOK, CapsType
<1>2. AfterProbe(cmd, caps') /\ state' = state
  BY DEF ProbeReply
<1>3. compress' \in BOOLEAN
  BY <1>1 DEF ProbeReply, Negotiated
<1>4. \/ caps' \in {DefaultCaps, caps}
      \/ caps' = [reader |-> TRUE, modeReader |-> caps.modeReader, have |-> Content]
  BY DEF ProbeReply
<1>5. caps' \in CapsType /\ (ContentUsable => caps'.have = Content)
  <2>1. CASE caps' \in {DefaultCaps, caps}
    BY <1>1, <2>1, CapsFacts DEF ContentUsable
  <2>2. CASE caps' = [reader |-> TRUE, modeReader |-> caps.modeReader, have |-> Content]
    <3>1. caps.modeReader \in BOOLEAN
      BY <1>1 DEF CapsType
    <3> QED
      BY <2>2, <3>1, CapsFacts
  <2> QED
    BY <1>4, <2>1, <2>2
<1> QED
  BY <1>1, <1>2, <1>3, <1>5, AfterProbeFacts

-----------------------------------------------------------------------------
(* What a call does next                                                    *)

ReturnValues == {"none", "ok", "declined", "fatal", "cancelled"}

\* The part of TypeOK that the steps of a call change.
CallType ==
    /\ state \in ConnStates /\ compress \in BOOLEAN /\ caps \in CapsType
    /\ cmd \in Commands \cup {"none"}
    /\ phase \in {"none", "open", "send", "line", "body"}
    /\ (cmd = "none") <=> (phase = "none")
    /\ ret \in ReturnValues

\* A call that goes on to a probe, or returns "ok", from the state Ready.
LEMMA ProbeGoesOn ==
    ASSUME CallType, PlaceInv, cmd \in Probes,
           \/ cmd' \in {"mode", "ext", "gzip"} /\ phase' = "send" /\ ret' = ret
           \/ cmd' = "none" /\ phase' = "none" /\ ret' = "ok",
           state' = state, compress' \in BOOLEAN,
           caps' \in CapsType, ContentUsable => caps'.have = Content
    PROVE  CallType' /\ PlaceInv' /\ state' = "Ready"
<1>1. state' = "Ready" /\ ContentUsable'
  BY DEF PlaceInv, ContentUsable
<1>2. cmd' \in {"mode", "ext", "gzip", "none"}
  OBVIOUS
<1>3. CallType'
  BY <1>1, <1>2 DEF CallType, ConnStates, Commands, Handshake, ReturnValues
<1>4. cmd' \notin Running
  BY <1>2, CommandFacts DEF Handshake
<1> QED
  BY <1>1, <1>2, <1>3, <1>4 DEF PlaceInv, Probes, FatalNotReady

\* A call returns, with an error of the connection only when it is not Ready.
LEMMA CallEnds ==
    ASSUME CallType, PlaceInv, cmd' = "none", phase' = "none", ret' \in ReturnValues,
           state' \in ConnStates, ret' = "fatal" => state' # "Ready",
           compress' \in BOOLEAN, caps' = caps
    PROVE  CallType' /\ PlaceInv'
<1>1. cmd' \notin Running
  BY CommandFacts
<1> QED
  BY <1>1 DEF CallType, PlaceInv, Probes, FatalNotReady, ContentUsable

\* A status line is read.
LEMMA ReplyFacts ==
    ASSUME TypeOK, CallType, PlaceInv, phase = "line", cmd # "quit", cmd # "none",
           NEW code \in Codes, Reply(code)
    PROVE  /\ CallType' /\ PlaceInv'
           /\ \/ code = BodyCode(cmd) /\ phase' = "body" /\ cmd' = cmd /\ state' = state
              \/ code # BodyCode(cmd) /\ phase' \in {"send", "none"} /\ cmd' # "quit"
<1>1. CASE code = BodyCode(cmd)
  <2>1. phase' = "body" /\ UNCHANGED <<cmd, ret, state, caps, compress>>
    BY <1>1 DEF Reply
  <2> QED
    BY <1>1, <2>1 DEF CallType, PlaceInv, FatalNotReady, ContentUsable
<1>2. SUFFICES ASSUME code # BodyCode(cmd)
               PROVE  CallType' /\ PlaceInv' /\ phase' \in {"send", "none"} /\ cmd' # "quit"
  BY <1>1
<1>3. ret \in ReturnValues /\ compress \in BOOLEAN /\ state \in ConnStates
  BY DEF CallType
<1>4. CASE cmd \in Probes /\ ProbeReply(code)
  BY <1>4, ProbeReplyFacts, ProbeGoesOn
<1>5. CASE /\ cmd \in {"greeting", "user", "pass"}
           /\ Greeted(code) \/ UserReply(code) \/ PassReply(code)
           /\ cmd = "greeting" => Greeted(code)
           /\ cmd = "user" => UserReply(code)
           /\ cmd = "pass" => PassReply(code)
           /\ UNCHANGED <<caps, compress>>
  <2>1. state = (IF cmd = "greeting" THEN "Connecting" ELSE "Authenticating")
    BY <1>5 DEF PlaceInv
  <2>2. \/ cmd' = "none" /\ phase' = "none" /\ ret' = "fatal" /\ state' \in {"Error", "Authenticating"}
        \/ cmd' = "user" /\ phase' = "send" /\ ret' = ret /\ state' = "Authenticating"
        \/ cmd' = "pass" /\ phase' = "send" /\ ret' = ret /\ state' = "Authenticating"
        \/ cmd' = "caps" /\ phase' = "send" /\ ret' = ret /\ state' = "Ready"
    BY <1>5, <2>1 DEF Greeted, UserReply, PassReply, GoOn, Return
  <2>3. CASE cmd' = "none" /\ phase' = "none" /\ ret' = "fatal" /\ state' \in {"Error", "Authenticating"}
    <3>1. state' \in ConnStates /\ state' # "Ready" /\ ret' \in ReturnValues
      BY <2>3 DEF ConnStates, ReturnValues
    <3> QED
      BY <1>3, <1>5, <2>3, <3>1, CallEnds
  <2>4. CASE /\ cmd' \in {"user", "pass", "caps"} /\ phase' = "send" /\ ret' = ret
             /\ state' = (IF cmd' = "caps" THEN "Ready" ELSE "Authenticating")
    <3>1. cmd' \in Handshake /\ cmd' \notin Running /\ cmd' # "none"
      BY <2>4, CommandFacts DEF Handshake
    <3>2. CallType'
      BY <1>5, <2>4, <3>1 DEF CallType, ConnStates, Commands
    <3>3. PlaceInv'
      BY <1>5, <2>4, <3>1 DEF PlaceInv, Probes, FatalNotReady, ContentUsable
    <3> QED
      BY <2>4, <3>2, <3>3
  <2> QED
    BY <2>2, <2>3, <2>4
<1>6. CASE /\ cmd \notin Handshake \cup {"quit"} /\ CommandReply(code)
           /\ UNCHANGED <<caps, compress>>
  <2>1. CASE cmd' = "sent" /\ phase' = "send" /\ ret' = ret /\ state' = state
    <3>1. state = "Busy"
      BY <1>6, CommandFacts DEF CallType, PlaceInv
    <3>2. CallType'
      BY <1>6, <2>1, CommandFacts DEF CallType
    <3>3. PlaceInv'
      BY <1>6, <2>1, <3>1, CommandFacts DEF PlaceInv, Probes, Handshake, FatalNotReady, ContentUsable
    <3> QED
      BY <2>1, <3>2, <3>3
  <2>2. CASE /\ cmd' = "none" /\ phase' = "none"
             /\ \/ ret' \in {"ok", "declined"} /\ state' = "Ready"
                \/ ret' = "fatal" /\ state' = "Error"
    <3>1. state' \in ConnStates /\ ret' \in ReturnValues /\ (ret' = "fatal" => state' # "Ready")
      BY <2>2 DEF ConnStates, ReturnValues
    <3> QED
      BY <1>3, <1>6, <2>2, <3>1, CallEnds
  <2> QED
    BY <1>6, <2>1, <2>2 DEF CommandReply, GoOn, Return
<1> QED
  BY <1>2, <1>4, <1>5, <1>6 DEF Reply

\* A read or a write fails: a probe is given up, the others return an error.
LEMMA FailFacts ==
    ASSUME TypeOK, CallType, PlaceInv,
           \/ cmd \in Probes /\ ProbeFail
           \/ cmd \notin Probes /\ Fail /\ Return("fatal") /\ UNCHANGED <<caps, compress>>
    PROVE  /\ CallType' /\ PlaceInv'
           /\ phase' \in {"send", "none"} /\ cmd' # "quit"
           /\ cmd \notin Probes => phase' = "none" /\ state' # "Ready"
<1>1. CASE cmd \in Probes /\ ProbeFail
  BY <1>1, ProbeFailFacts, ProbeGoesOn DEF CallType
<1>2. CASE cmd \notin Probes /\ Fail /\ Return("fatal") /\ UNCHANGED <<caps, compress>>
  <2>1. state' \in ConnStates /\ state' # "Ready"
    BY <1>2 DEF Fail, CallType, PlaceInv, Handshake, Probes, ConnStates
  <2>2. cmd' = "none" /\ phase' = "none" /\ ret' = "fatal" /\ "fatal" \in ReturnValues
    BY <1>2 DEF Return, ReturnValues
  <2>3. caps' = caps /\ compress' \in BOOLEAN
    BY <1>2 DEF CallType
  <2> QED
    BY <1>2, <2>1, <2>2, <2>3, CallEnds
<1> QED
  BY <1>1, <1>2

LeftOver == Probes \cup {"quit"}

\* The rest of TypeOK.
RestType ==
    /\ transport \in BOOLEAN /\ gzip \in BOOLEAN /\ config \in ServerConfigs
    /\ disabled \in BOOLEAN /\ owed \in SUBSET LeftOver /\ alive \in BOOLEAN
    /\ cmds \in Seq(Pending) /\ stream \in Seq(Part)

\* TypeOK falls into the two parts.
LEMMA TypeSplit ==
    (TypeOK <=> CallType /\ RestType) /\ (TypeOK' <=> CallType' /\ RestType')
  BY DEF TypeOK, CallType, RestType, ConnStates, CapsType, ReturnValues, Pending, Part, LeftOver

\* What a call that is given up adds to `owed`.
LEMMA LeftFacts ==
    ASSUME RestType, NEW P \in BOOLEAN, LeftBehind(P), P => cmd \in LeftOver
    PROVE  /\ owed' \in SUBSET LeftOver /\ owed \subseteq owed'
           /\ P => cmd \in owed'
           /\ ~P => owed' = owed
  BY DEF LeftBehind, RestType

-----------------------------------------------------------------------------
(* The invariant holds initially and every action keeps it                  *)

\* The invariant holds before anything is connected.
LEMMA InitIInv == Init => IInv
<1> SUFFICES ASSUME Init PROVE IInv
  OBVIOUS
<1>1. CallType
  BY CapsFacts DEF Init, CallType, ConnStates, ReturnValues
<1>2. RestType
  BY EmptySeq DEF Init, RestType
<1>3. PlaceInv
  BY CapsFacts, CommandFacts DEF Init, PlaceInv, Probes, FatalNotReady, ContentUsable
<1>4. GoneInv /\ AlignInv
  BY DEF Init, GoneInv, AlignInv
<1> QED
  BY <1>1, <1>2, <1>3, <1>4, TypeSplit DEF IInv

\* The steps that touch neither queue and end in a place where nothing is
\* claimed of them.
LEMMA OutOfReach ==
    ASSUME GoneInv, UNCHANGED wireVars,
           \/ cmd' = "none" /\ phase' = "none" /\ (state' # "Ready" \/ owed' # {})
           \/ cmd' = "tcp" /\ phase' = "open"
           \/ cmd' = "quit" /\ phase' = "send"
    PROVE  GoneInv' /\ AlignInv'
<1>1. GoneInv'
  BY DEF GoneInv, wireVars
<1>2. AlignInv'
  BY DEF AlignInv
<1> QED
  BY <1>1, <1>2

\* connect() and its ends.
LEMMA ConnectSteps ==
    ASSUME IInv, Connect \/ Opened \/ OpenFail \/ ConnectTimeout
    PROVE  IInv'
<1>1. CallType /\ RestType /\ PlaceInv /\ GoneInv
  BY TypeSplit DEF IInv
<1>2. CASE Connect
  <2>1. CallType' /\ RestType'
    BY <1>1, <1>2, CommandFacts
       DEF Connect, CallType, RestType, ConnStates, ReturnValues, Commands, Handshake, wireVars
  <2>2. PlaceInv'
    BY <1>1, <1>2, CommandFacts
       DEF Connect, PlaceInv, Probes, Handshake, FatalNotReady, ContentUsable
  <2>3. GoneInv' /\ AlignInv'
    BY <1>1, <1>2, OutOfReach DEF Connect
  <2> QED
    BY <2>1, <2>2, <2>3, TypeSplit DEF IInv
<1>3. CASE Opened
  <2> DEFINE e == [for |-> "greeting", part |-> "line"]
  <2>1. "greeting" \in Commands /\ "greeting" \notin Running /\ e \in Pending
    BY CommandFacts DEF Commands, Handshake, Pending
  <2>2. CallType'
    BY <1>1, <1>3, <2>1 DEF Opened, CallType
  <2>3. /\ cmds' = <<e>> /\ stream' = <<>> /\ cmds' \in Seq(Pending) /\ stream' \in Seq(Part)
        /\ Len(cmds') = 1 /\ cmds'[1] = e /\ Len(stream') = 0
    BY <1>3, <2>1 DEF Opened
  <2>4. RestType'
    BY <1>1, <1>3, <2>3 DEF Opened, RestType
  <2>5. PlaceInv'
    BY <1>1, <1>3, <2>1 DEF Opened, PlaceInv, Probes, FatalNotReady, ContentUsable
  <2>6. GoneInv' /\ AlignInv'
    BY <1>3, <2>3 DEF Opened, GoneInv, AlignInv, Mine, LineDue
  <2> QED
    BY <2>2, <2>4, <2>5, <2>6, TypeSplit DEF IInv
<1>4. CASE OpenFail \/ ConnectTimeout
  <2>1. /\ cmd' = "none" /\ phase' = "none" /\ ret' = "fatal" /\ state' \in {"Error", "Connecting"}
        /\ UNCHANGED <<transport, compress, caps, config, disabled, owed, gzip, wireVars>>
    BY <1>4 DEF OpenFail, ConnectTimeout, Return
  <2>2. CallType' /\ PlaceInv'
    BY <1>1, <2>1, CallEnds DEF CallType, ConnStates, ReturnValues
  <2>3. RestType'
    BY <1>1, <2>1 DEF RestType, wireVars
  <2>4. GoneInv' /\ AlignInv'
    BY <1>1, <2>1, OutOfReach
  <2> QED
    BY <2>2, <2>3, <2>4, TypeSplit DEF IInv
<1> QED
  BY <1>2, <1>3, <1>4

\* A call begins, or is given up by its caller or by its own decision.
LEMMA CallerSteps ==
    ASSUME IInv,
           \/ \E op \in Ops : Start(op)
           \/ Quit \/ Cancel \/ DisableCompression \/ PrefixCut \/ QuitEnd
    PROVE  IInv'
<1>1. CallType /\ RestType /\ PlaceInv /\ GoneInv /\ AlignInv
  BY TypeSplit DEF IInv
<1>2. CASE \E op \in Ops : Start(op)
  <2>1. PICK op \in Ops : Start(op)
    BY <1>2
  <2>2. cmd' \in Running /\ cmd' \in Commands /\ cmd' \notin Handshake \cup {"quit", "none"}
    BY <2>1, CommandFacts DEF Start
  <2>3. CallType' /\ RestType'
    BY <1>1, <2>1, <2>2 DEF Start, CallType, RestType, ConnStates, ReturnValues, wireVars
  <2>4. PlaceInv'
    BY <1>1, <2>1, <2>2 DEF Start, PlaceInv, Probes, Handshake, FatalNotReady, ContentUsable
  <2>5. GoneInv' /\ AlignInv'
    BY <1>1, <2>1, <2>2 DEF Start, GoneInv, AlignInv, Quiet, wireVars
  <2> QED
    BY <2>3, <2>4, <2>5, TypeSplit DEF IInv
<1>3. CASE Quit
  <2>1. "quit" \in Commands /\ "quit" \notin Running
    BY CommandFacts DEF Commands
  <2>2. CallType' /\ RestType'
    BY <1>1, <1>3, <2>1 DEF Quit, CallType, RestType, wireVars
  <2>3. PlaceInv'
    BY <1>1, <1>3, <2>1 DEF Quit, PlaceInv, Probes, FatalNotReady, ContentUsable
  <2>4. GoneInv' /\ AlignInv'
    BY <1>1, <1>3, OutOfReach DEF Quit
  <2> QED
    BY <2>2, <2>3, <2>4, TypeSplit DEF IInv
<1>4. CASE DisableCompression
  <2>1. CallType' /\ RestType'
    BY <1>1, <1>4 DEF DisableCompression, CallType, RestType, wireVars
  <2>2. PlaceInv' /\ GoneInv'
    BY <1>1, <1>4
       DEF DisableCompression, PlaceInv, GoneInv, FatalNotReady, ContentUsable, wireVars
  <2>3. AlignInv'
    BY <1>1, <1>4 DEF DisableCompression, AlignInv, Mine, Quiet, LineDue, BodyDue, wireVars
  <2> QED
    BY <2>1, <2>2, <2>3, TypeSplit DEF IInv
<1>5. CASE Cancel
  <2>1. cmd' = "none" /\ phase' = "none" /\ ret' = "cancelled" /\ state' = state
    BY <1>5 DEF Cancel, Return
  <2>2. CallType' /\ PlaceInv'
    BY <1>1, <1>5, <2>1, CallEnds DEF Cancel, CallType, ReturnValues
  <2> DEFINE P == cmd \in Probes \cup {"quit"} /\ state = "Ready"
  <2>6. /\ owed' \in SUBSET LeftOver
        /\ P => cmd \in owed'
    <3>1. P \in BOOLEAN /\ LeftBehind(P) /\ (P => cmd \in LeftOver)
      BY <1>5 DEF Cancel, LeftOver
    <3> HIDE DEF P
    <3> QED
      BY <1>1, <3>1, LeftFacts
  <2>3. RestType'
    BY <1>1, <1>5, <2>6 DEF Cancel, RestType, wireVars
  <2>4. state' # "Ready" \/ owed' # {}
    BY <1>1, <1>5, <2>6, CommandFacts DEF Cancel, CallType, PlaceInv, Handshake, Probes
  <2>5. GoneInv' /\ AlignInv'
    BY <1>1, <1>5, <2>1, <2>4, OutOfReach DEF Cancel
  <2> QED
    BY <2>2, <2>3, <2>5, TypeSplit DEF IInv
<1>6. CASE PrefixCut \/ QuitEnd
  <2>1. /\ cmd' = "none" /\ phase' = "none" /\ ret' = "ok" /\ state' = "Disconnected"
        /\ transport' = FALSE /\ compress' \in {FALSE, compress}
        /\ UNCHANGED <<caps, config, disabled, owed, gzip, wireVars>>
    BY <1>6 DEF PrefixCut, QuitEnd, Return
  <2>2. CallType' /\ PlaceInv'
    BY <1>1, <2>1, CallEnds DEF CallType, ConnStates, ReturnValues
  <2>3. RestType'
    BY <1>1, <2>1 DEF RestType, wireVars
  <2>4. GoneInv' /\ AlignInv'
    BY <1>1, <2>1, OutOfReach
  <2> QED
    BY <2>2, <2>3, <2>4, TypeSplit DEF IInv
<1> QED
  BY <1>2, <1>3, <1>4, <1>5, <1>6

\* A command is written, or is not.
LEMMA WriteSteps ==
    ASSUME IInv, Send \/ SendFail
    PROVE  IInv'
<1>1. CallType /\ RestType /\ PlaceInv /\ GoneInv /\ AlignInv
  BY TypeSplit DEF IInv
<1>2. phase = "send" /\ cmd \in Commands /\ cmd # "none"
  BY <1>1 DEF Send, SendFail, CallType
<1>3. WriteCmd(cmd) \/ cmds' = cmds
  BY DEF Send, SendFail
<1>4. /\ cmds' \in Seq(Pending)
      /\ \/ cmds' = cmds
         \/ alive /\ Extended(cmds', cmds, [for |-> cmd, part |-> "line"])
  BY <1>1, <1>2, <1>3, WriteCmdEffect DEF RestType
<1>5. stream' = stream /\ alive' = alive /\ Len(cmds) \in Nat /\ Len(stream) \in Nat
  BY <1>1, LenProperties DEF Send, SendFail, RestType
<1> DEFINE P == cmd \in Probes /\ cmds' # cmds
<1>9. ASSUME SendFail
      PROVE  /\ owed' \in SUBSET LeftOver /\ owed \subseteq owed'
             /\ P => cmd \in owed'
  <2>1. P \in BOOLEAN /\ LeftBehind(P) /\ (P => cmd \in LeftOver)
    BY <1>9 DEF SendFail, LeftOver
  <2> HIDE DEF P
  <2> QED
    BY <1>1, <2>1, LeftFacts
<1>6. RestType' /\ GoneInv'
  BY <1>1, <1>4, <1>5, <1>9 DEF Send, SendFail, RestType, GoneInv
<1>7. CASE Send
  <2>1. CallType' /\ PlaceInv'
    BY <1>1, <1>2, <1>7 DEF Send, CallType, PlaceInv, FatalNotReady, ContentUsable
  <2>2. ASSUME owed = {}, cmd # "quit"
        PROVE  Mine(cmd)' /\ LineDue'
    <3>1. Len(cmds) = 0 /\ Len(stream) = 0
      BY <1>1, <1>2, <2>2 DEF AlignInv, Quiet
    <3>2. CASE cmds' = cmds
      BY <1>5, <3>1, <3>2 DEF Mine, LineDue, Quiet
    <3>3. CASE Extended(cmds', cmds, [for |-> cmd, part |-> "line"])
      BY <1>5, <1>7, <3>1, <3>3 DEF Send, Extended, Mine, LineDue
    <3> QED
      BY <1>4, <3>2, <3>3
  <2>3. AlignInv'
    BY <1>2, <1>7, <2>2 DEF Send, AlignInv, Mine
  <2> QED
    BY <1>6, <2>1, <2>3, TypeSplit DEF IInv
<1>8. CASE SendFail
  <2>1. /\ CallType' /\ PlaceInv' /\ phase' \in {"send", "none"} /\ cmd' # "quit"
        /\ cmd \notin Probes => phase' = "none" /\ state' # "Ready"
    BY <1>1, <1>8, FailFacts, TypeSplit DEF SendFail
  <2>2. cmd # "quit"
    BY <1>8 DEF SendFail, Probes
  <2>3. ASSUME owed' = {}, cmd \in Probes PROVE Quiet'
    <3>1. cmds' = cmds /\ Quiet
      BY <1>1, <1>2, <1>8, <1>9, <2>2, <2>3 DEF AlignInv
    <3> QED
      BY <1>5, <3>1 DEF Quiet
  <2>4. AlignInv'
    BY <2>1, <2>3 DEF AlignInv
  <2> QED
    BY <1>6, <2>1, <2>4, TypeSplit DEF IInv
<1> QED
  BY <1>7, <1>8

\* What is under way when a part is read by a call that is aligned.
LEMMA PartRead ==
    ASSUME RestType, AlignInv, owed = {}, TakePart, cmd # "quit", cmds' = cmds
    PROVE  /\ phase = "line" =>
                \/ Quiet' /\ stream[1].kind # "body"
                \/ /\ BodyDue'
                   /\ \A i \in 1..Len(cmds') : cmds'[i].for = cmd
                   /\ \A i \in 1..Len(stream') : stream'[i].for = cmd
                   /\ stream[1].kind = BodyCode(cmd) /\ BodyCode(cmd) \in Codes
           /\ phase = "body" => Quiet'
<1>1. /\ Dropped(stream', stream) /\ Len(stream) \in Nat \ {0} /\ cmds' = cmds
      /\ Len(cmds) \in Nat
  BY TakePartEffect, LenProperties DEF RestType
<1>2. CASE phase = "line"
  <2>1. Mine(cmd) /\ LineDue
    BY <1>2 DEF AlignInv
  <2>2. CASE Len(cmds) = 0 /\ Len(stream) = 1 /\ stream[1].kind # "body"
    BY <1>1, <2>2, <1>2 DEF Dropped, Quiet
  <2>3. CASE /\ Len(cmds) = 1 /\ Len(stream) = 1 /\ cmds[1].part = "body"
             /\ stream[1].kind = BodyCode(cmd) /\ BodyCode(cmd) \in Codes
    <3>1. Len(stream') = 0
      BY <1>1, <2>3 DEF Dropped
    <3>2. (\A i \in 1..Len(cmds') : cmds'[i].for = cmd)
          /\ (\A i \in 1..Len(stream') : stream'[i].for = cmd)
      BY <1>1, <2>1, <3>1 DEF Mine
    <3> QED
      BY <1>1, <1>2, <2>3, <3>1, <3>2 DEF BodyDue
  <2>4. CASE /\ Len(cmds) = 0 /\ Len(stream) = 2 /\ stream[2].kind = "body"
             /\ stream[1].kind = BodyCode(cmd) /\ BodyCode(cmd) \in Codes
    <3>1. Len(stream') = 1 /\ stream'[1] = stream[2]
      BY <1>1, <2>4 DEF Dropped
    <3>2. (\A i \in 1..Len(cmds') : cmds'[i].for = cmd)
          /\ (\A i \in 1..Len(stream') : stream'[i].for = cmd)
      BY <1>1, <2>1, <2>4, <3>1 DEF Mine
    <3> QED
      BY <1>1, <1>2, <2>4, <3>1, <3>2 DEF BodyDue
  <2> QED
    BY <1>1, <2>1, <2>2, <2>3, <2>4, <1>2 DEF LineDue, Quiet
<1>3. CASE phase = "body"
  BY <1>1, <1>3 DEF AlignInv, BodyDue, Dropped, Quiet
<1> QED
  BY <1>2, <1>3

\* A part arrives, or what the call waits for does not.
LEMMA ReadSteps ==
    ASSUME IInv, ReadLine \/ ReadBody \/ ReadTimeout \/ Garbled \/ TooLarge \/ Undecodable
    PROVE  IInv'
<1>1. CallType /\ RestType /\ PlaceInv /\ GoneInv /\ AlignInv /\ TypeOK
  BY TypeSplit DEF IInv
<1>2. CASE ReadLine
  <2>1. /\ phase = "line" /\ cmd # "quit" /\ TakePart
        /\ Head(stream).kind \in Codes /\ Reply(Head(stream).kind)
        /\ UNCHANGED <<transport, config, disabled, owed, gzip>>
    BY <1>2 DEF ReadLine
  <2>2. /\ stream' \in Seq(Part) /\ Head(stream) = stream[1] /\ cmds' = cmds /\ alive' = alive
    BY <1>1, <2>1, TakePartEffect DEF RestType
  <2>3. RestType' /\ GoneInv'
    BY <1>1, <2>1, <2>2 DEF RestType, GoneInv
  <2>4. /\ CallType' /\ PlaceInv'
        /\ \/ stream[1].kind = BodyCode(cmd) /\ phase' = "body" /\ cmd' = cmd /\ state' = state
           \/ stream[1].kind # BodyCode(cmd) /\ phase' \in {"send", "none"} /\ cmd' # "quit"
    <3>1. cmd # "none"
      BY <1>1, <2>1 DEF CallType
    <3> QED
      BY <1>1, <2>1, <2>2, <3>1, ReplyFacts
  <2>5. ASSUME owed = {}
        PROVE  \/ Quiet'
               \/ /\ BodyDue' /\ stream[1].kind = BodyCode(cmd)
                  /\ \A i \in 1..Len(cmds') : cmds'[i].for = cmd
                  /\ \A i \in 1..Len(stream') : stream'[i].for = cmd
    BY <1>1, <2>1, <2>2, <2>5, PartRead
  <2>6. ASSUME owed = {}, phase' = "body" PROVE Mine(cmd)' /\ BodyDue'
    <3>1. cmd' = cmd
      BY <2>4, <2>6
    <3>2. CASE Quiet'
      BY <3>2 DEF Quiet, Mine, BodyDue
    <3>3. CASE /\ BodyDue'
               /\ \A i \in 1..Len(cmds') : cmds'[i].for = cmd
               /\ \A i \in 1..Len(stream') : stream'[i].for = cmd
      BY <3>1, <3>3 DEF Mine
    <3> QED
      BY <2>5, <2>6, <3>2, <3>3
  <2>7. ASSUME owed = {}, phase' \in {"send", "none"} PROVE Quiet'
    BY <2>4, <2>5, <2>7
  <2>8. (cmd' = "none") <=> (phase' = "none")
    BY <2>4 DEF CallType
  <2>9. AlignInv'
    BY <2>1, <2>4, <2>6, <2>7, <2>8 DEF AlignInv, Mine
  <2> QED
    BY <2>3, <2>4, <2>9, TypeSplit DEF IInv
<1>3. CASE ReadBody
  <2>1. phase = "body" /\ TakePart /\ UNCHANGED <<transport, compress, config, disabled, owed, gzip>>
    BY <1>3 DEF ReadBody
  <2>2. cmd # "none" /\ cmd # "quit" /\ cmd \in Commands /\ compress \in BOOLEAN
        /\ caps \in CapsType /\ ret \in ReturnValues
    BY <1>1, <2>1, CommandFacts DEF PlaceInv, CallType
  <2>3. /\ stream' \in Seq(Part) /\ cmds' = cmds /\ alive' = alive
    BY <1>1, <2>1, TakePartEffect DEF RestType
  <2>4. RestType' /\ GoneInv'
    BY <1>1, <2>1, <2>3 DEF RestType, GoneInv
  <2>5. CallType' /\ PlaceInv' /\ phase' \in {"send", "none"} /\ cmd' # "quit"
    <3>1. CASE /\ cmd = "caps" /\ state' = state
               /\ \E labels \in Advertised : caps' = Probed(labels)
               /\ AfterProbe(cmd, caps')
      <4>1. caps' \in CapsType /\ caps'.have = Content
        BY <3>1, CapsFacts
      <4>2. \/ cmd' \in {"mode", "ext"} /\ phase' = "send" /\ ret' = ret
            \/ cmd' = "none" /\ phase' = "none" /\ ret' = "ok"
        BY <2>2, <3>1, AfterProbeFacts DEF ReturnValues
      <4> QED
        BY <1>1, <2>1, <2>2, <3>1, <4>1, <4>2, ProbeGoesOn DEF Probes
    <3>2. CASE cmd = "ext" /\ caps' = caps /\ state' = state /\ (GoOn("gzip") \/ Return("ok"))
      <4>1. \/ cmd' = "gzip" /\ phase' = "send" /\ ret' = ret
            \/ cmd' = "none" /\ phase' = "none" /\ ret' = "ok"
        BY <3>2 DEF GoOn, Return
      <4>2. ContentUsable => caps'.have = Content
        BY <3>2 DEF ContentUsable
      <4> QED
        BY <1>1, <2>1, <2>2, <3>2, <4>1, <4>2, ProbeGoesOn DEF Probes
    <3>3. CASE cmd \notin Probes /\ state' = "Ready" /\ Return("ok") /\ caps' = caps
      BY <1>1, <2>1, <2>2, <3>3, CallEnds DEF Return, ReturnValues, ConnStates
    <3> QED
      BY <1>3, <3>1, <3>2, <3>3 DEF ReadBody
  <2>6. ASSUME owed = {} PROVE Quiet'
    BY <1>1, <2>1, <2>2, <2>3, <2>6, PartRead
  <2>7. AlignInv'
    BY <2>1, <2>5, <2>6 DEF AlignInv
  <2> QED
    BY <2>4, <2>5, <2>7, TypeSplit DEF IInv
<1>4. CASE ReadTimeout \/ Garbled \/ TooLarge \/ Undecodable
  <2>1. ReadFails /\ cmd # "quit" /\ alive' = alive /\ cmds' = cmds
    BY <1>4, RowFacts DEF ReadTimeout, Garbled, TooLarge, Undecodable, wireVars, TakePart
  <2>2. /\ CallType' /\ PlaceInv' /\ phase' \in {"send", "none"} /\ cmd' # "quit"
        /\ cmd \notin Probes => phase' = "none" /\ state' # "Ready"
    BY <1>1, <2>1, FailFacts DEF ReadFails
  <2>3. stream' \in Seq(Part)
    BY <1>1, <1>4, TakePartEffect DEF ReadTimeout, Garbled, TooLarge, Undecodable, wireVars, RestType
  <2> DEFINE P == cmd \in Probes /\ cmds # <<>>
  <2>8. ASSUME ReadTimeout
        PROVE  /\ owed' \in SUBSET LeftOver /\ owed \subseteq owed'
               /\ P => cmd \in owed'
    <3>1. P \in BOOLEAN /\ LeftBehind(P) /\ (P => cmd \in LeftOver)
      BY <2>8 DEF ReadTimeout, LeftOver
    <3> HIDE DEF P
    <3> QED
      BY <1>1, <3>1, LeftFacts
  <2>4. owed' \in SUBSET LeftOver /\ owed \subseteq owed'
    BY <1>1, <1>4, <2>8 DEF Garbled, TooLarge, Undecodable, RestType
  <2>5. RestType' /\ GoneInv'
    BY <1>1, <2>1, <2>3, <2>4 DEF ReadFails, RestType, GoneInv
  <2>6. ASSUME owed' = {}, cmd \in Probes PROVE Quiet'
    <3>1. CASE ReadTimeout
      <4>1. cmds = <<>> /\ stream = <<>> /\ UNCHANGED wireVars
        BY <2>6, <2>8, <3>1 DEF ReadTimeout
      <4> QED
        BY <4>1 DEF wireVars, Quiet
    <3>2. CASE Garbled
      <4>1. TakePart /\ phase = "line" /\ stream[1].kind \notin Codes
        BY <1>1, <3>2, TakePartEffect DEF Garbled, RestType
      <4> QED
        BY <1>1, <2>1, <2>4, <2>6, <4>1, PartRead
    <3>3. CASE TooLarge \/ Undecodable
      BY <2>6, <3>3, RowFacts DEF TooLarge, Undecodable, Probes, Handshake
    <3> QED
      BY <1>4, <3>1, <3>2, <3>3
  <2>7. AlignInv'
    BY <2>2, <2>6 DEF AlignInv
  <2> QED
    BY <2>2, <2>5, <2>7, TypeSplit DEF IInv
<1> QED
  BY <1>2, <1>3, <1>4

\* The server answers or closes the connection.
LEMMA ServerSteps ==
    ASSUME IInv, Answer \/ ServerEnds
    PROVE  IInv'
<1>1. CallType /\ RestType /\ PlaceInv /\ GoneInv /\ AlignInv
  BY TypeSplit DEF IInv
<1>2. UNCHANGED connVars
  BY DEF Answer, ServerEnds
<1>3. CallType' /\ PlaceInv'
  BY <1>1, <1>2 DEF connVars, CallType, PlaceInv, FatalNotReady, ContentUsable
<1>4. Len(cmds) \in Nat /\ Len(stream) \in Nat
  BY <1>1, LenProperties DEF RestType
<1>5. CASE Answer
  <2> DEFINE c == Head(cmds).for
             K == (Codes \cap Replies(c)) \cup {"garbled"}
             M == {BodyCode(c)} \ {"none"}
  <2>1. /\ cmds # <<>> /\ SendPart(K, M)
        /\ gzip' = (gzip \/ (Head(cmds).for = "gzip" /\ stream'[Len(stream')].kind = "290"))
    BY <1>5 DEF Answer
  <2>2. c = cmds[1].for
    BY <1>1, <2>1, TailDrops DEF RestType
  <2>3. /\ cmds' \in Seq(Pending) /\ stream' \in Seq(Part) /\ alive /\ alive'
        /\ Len(cmds) \in Nat \ {0}
    BY <1>1, <2>1, SendPartEffect DEF RestType
  <2>4. PICK k \in K \cup {"body"} :
              /\ Extended(stream', stream, [for |-> c, kind |-> k])
              /\ \/ cmds[1].part = "line" /\ k \in K \ M /\ Dropped(cmds', cmds)
                 \/ cmds[1].part = "body" /\ k = "body" /\ Dropped(cmds', cmds)
                 \/ /\ cmds[1].part = "line" /\ k \in K \cap M
                    /\ Len(cmds') = Len(cmds)
                    /\ cmds'[1] = [for |-> c, part |-> "body"]
                    /\ \A i \in 2..Len(cmds) : cmds'[i] = cmds[i]
    <3> HIDE DEF K, M, c
    <3>1. K \in SUBSET (Codes \cup {"garbled"})
      BY DEF K
    <3> QED
      BY <1>1, <2>1, <2>2, <3>1, SendPartEffect DEF RestType
  <2>5. RestType' /\ GoneInv'
    BY <1>1, <1>2, <2>1, <2>3 DEF RestType, GoneInv, connVars
  <2>6. k \in K => k # "body"
    BY CommandFacts
  <2>7. k \in M => k = BodyCode(c) /\ k # "garbled"
    BY CommandFacts
  <2>8. ASSUME Mine(cmd) PROVE Mine(cmd)' /\ c = cmd
    <3>1. c = cmd
      BY <2>2, <2>3, <2>8 DEF Mine
    <3>2. ASSUME NEW i \in 1..Len(stream') PROVE stream'[i].for = cmd
      BY <1>4, <2>4, <2>8, <3>1, <3>2 DEF Extended, Mine
    <3>3. ASSUME NEW i \in 1..Len(cmds') PROVE cmds'[i].for = cmd
      <4> HIDE DEF K, M, c
      <4>1. CASE Dropped(cmds', cmds)
        BY <1>4, <2>8, <3>3, <4>1 DEF Dropped, Mine
      <4>2. CASE /\ Len(cmds') = Len(cmds)
                 /\ cmds'[1] = [for |-> c, part |-> "body"]
                 /\ \A j \in 2..Len(cmds) : cmds'[j] = cmds[j]
        <5>1. CASE i = 1
          BY <3>1, <4>2, <5>1
        <5>2. CASE i # 1
          BY <1>4, <2>8, <3>3, <4>2, <5>2 DEF Mine
        <5> QED
          BY <5>1, <5>2
      <4> QED
        BY <2>4, <4>1, <4>2
    <3> QED
      BY <1>2, <3>1, <3>2, <3>3 DEF connVars, Mine
  <2>9. ASSUME Mine(cmd), LineDue PROVE LineDue'
    <3>1. c = cmd /\ cmd' = cmd
      BY <1>2, <2>8, <2>9 DEF connVars
    <3>2. CASE Len(cmds) = 1 /\ Len(stream) = 0 /\ cmds[1].part = "line"
      <4>1. Len(stream') = 1 /\ stream'[1].kind = k /\ k # "body"
        BY <2>4, <2>6, <3>2 DEF Extended
      <4>2. CASE k \in K \ M
        BY <2>4, <3>2, <4>1, <4>2 DEF Dropped, LineDue
      <4>3. CASE k \in K \cap M
        BY <2>4, <2>7, <3>1, <3>2, <4>1, <4>3 DEF LineDue
      <4> QED
        BY <2>4, <3>2, <4>2, <4>3
    <3>3. CASE /\ Len(cmds) = 1 /\ Len(stream) = 1 /\ cmds[1].part = "body"
               /\ stream[1].kind = BodyCode(cmd) /\ BodyCode(cmd) \in Codes
      <4>1. k = "body" /\ Len(cmds') = 0
        BY <2>4, <3>3 DEF Dropped
      <4>2. Len(stream') = 2 /\ stream'[2].kind = "body" /\ stream'[1] = stream[1]
        BY <2>4, <3>3, <4>1 DEF Extended
      <4> QED
        BY <3>1, <3>3, <4>1, <4>2 DEF LineDue
    <3> QED
      BY <2>3, <2>9, <3>2, <3>3 DEF LineDue, Quiet
  <2>10. ASSUME BodyDue PROVE BodyDue'
    <3>1. Len(cmds) = 1 /\ Len(stream) = 0 /\ cmds[1].part = "body"
      BY <2>3, <2>10 DEF BodyDue, Quiet
    <3>2. k = "body" /\ Len(cmds') = 0 /\ Len(stream') = 1 /\ stream'[1].kind = k
      BY <2>4, <3>1 DEF Dropped, Extended
    <3> QED
      BY <3>2 DEF BodyDue
  <2>11. AlignInv'
    BY <1>1, <1>2, <2>3, <2>8, <2>9, <2>10 DEF connVars, AlignInv, Quiet
  <2> QED
    BY <1>3, <2>5, <2>11, TypeSplit DEF IInv
<1>6. CASE ServerEnds
  <2>1. cmds' = <<>> /\ stream' = stream /\ alive' = FALSE /\ gzip' = gzip /\ Len(cmds') = 0
    BY <1>6 DEF ServerEnds, ServerClose
  <2>2. RestType' /\ GoneInv'
    BY <1>1, <1>2, <2>1, EmptySeq DEF RestType, GoneInv, connVars
  <2>3. ASSUME LineDue PROVE LineDue'
    <3>1. cmd' = cmd
      BY <1>2 DEF connVars
    <3> QED
      BY <1>4, <2>1, <2>3, <3>1, CommandFacts DEF LineDue, Quiet
  <2>4. ASSUME BodyDue PROVE BodyDue'
    BY <1>4, <2>1, <2>4 DEF BodyDue, Quiet
  <2>5. ASSUME Mine(cmd) PROVE Mine(cmd)'
    BY <1>2, <2>1, <2>5 DEF connVars, Mine
  <2>6. ASSUME Quiet PROVE Quiet'
    BY <2>1, <2>6 DEF Quiet
  <2>7. AlignInv'
    BY <1>1, <1>2, <2>3, <2>4, <2>5, <2>6 DEF connVars, AlignInv
  <2> QED
    BY <1>3, <2>2, <2>7, TypeSplit DEF IInv
<1> QED
  BY <1>5, <1>6

\* Every step of the specification keeps the invariant.
LEMMA StepIInv == IInv /\ [Next]_vars => IInv'
<1> SUFFICES ASSUME IInv, [Next]_vars PROVE IInv'
  OBVIOUS
<1>1. CASE Next
  BY <1>1, ConnectSteps, CallerSteps, WriteSteps, ReadSteps, ServerSteps DEF Next, Client
<1>2. CASE UNCHANGED vars
  <2>1. TypeOK'
    BY <1>2 DEF IInv, TypeOK, vars, connVars, wireVars
  <2>2. PlaceInv' /\ GoneInv'
    BY <1>2 DEF IInv, PlaceInv, GoneInv, FatalNotReady, ContentUsable, vars, connVars, wireVars
  <2>3. AlignInv'
    BY <1>2 DEF IInv, AlignInv, Quiet, Mine, LineDue, BodyDue, vars, connVars, wireVars
  <2> QED
    BY <2>1, <2>2, <2>3 DEF IInv
<1> QED
  BY <1>1, <1>2

-----------------------------------------------------------------------------
(* Where a call reads and what ends a session                               *)

\* A command that reads, reads the reply to it.
LEMMA StepOwnReply ==
    ASSUME IInv, cmd \in Running, owed = {}, stream # <<>>
    PROVE  Head(stream).for = cmd
<1>1. CallType /\ RestType /\ PlaceInv /\ AlignInv
  BY TypeSplit DEF IInv
<1>2. Head(stream) = stream[1] /\ Len(stream) \in Nat \ {0}
  BY <1>1, TailDrops DEF RestType
<1>3. cmd \notin Handshake \cup {"quit", "none"}
  BY CommandFacts
<1>4. phase \in {"send", "line", "body"}
  BY <1>1, <1>3 DEF CallType, PlaceInv, Handshake
<1>5. Mine(cmd)
  BY <1>1, <1>2, <1>3, <1>4 DEF AlignInv, Quiet
<1> QED
  BY <1>2, <1>5 DEF Mine

\* The codes after which no command leaves the connection Ready.
LEMMA RefusalsEnd ==
    ASSUME NEW c \in Running \ {"sent"}, NEW code \in {"400", "403", "480", "481", "482", "502"}
    PROVE  code \notin Accepted(c) \cup Declined(c)
<1>1. c # "sent" /\ c # "none"
  BY CommandFacts
<1> QED
  BY <1>1 DEF Accepted, Declined, RowOf, Row, FetchArticle, FetchHeadNumber, StatArticle, Ping,
              Group, OverviewFormat, ListActive, XoverLossless, Xover, Xhdr, Xpat, FetchBody,
              FetchBodyPrefix, PostArticle, PostArticleBytes, ArticleSent, Capabilities, Extensions

\* A call that reads one of them does not end Ready.
LEMMA StepSessionOver ==
    ASSUME IInv, [Next]_vars,
           cmd \in Running \ {"sent"}, phase = "line", cmd' = "none", ret' # "cancelled",
           stream # <<>>, Head(stream).kind \in {"400", "403", "480", "481", "482", "502"}
    PROVE  state' # "Ready"
<1>1. CallType /\ PlaceInv /\ TypeOK
  BY TypeSplit DEF IInv
<1>2. cmd \notin Handshake \cup {"quit", "none"}
  BY CommandFacts
<1>3. cmd \notin Probes /\ state = "Busy"
  BY <1>1, <1>2 DEF Probes, Handshake, PlaceInv
<1>4. CASE ReadLine
  <2>1. /\ Reply(Head(stream).kind)
        /\ Head(stream).kind \notin Accepted(cmd) \cup Declined(cmd)
    BY <1>4, RefusalsEnd DEF ReadLine
  <2>2. CASE Head(stream).kind = BodyCode(cmd)
    BY <1>2, <2>1, <2>2 DEF Reply
  <2>3. CASE CommandReply(Head(stream).kind)
    BY <1>2, <2>1, <2>3 DEF CommandReply, GoOn
  <2> QED
    BY <1>2, <1>3, <2>1, <2>2, <2>3 DEF Reply, Handshake
<1>5. CASE ReadTimeout \/ Garbled
  BY <1>1, <1>3, <1>5, FailFacts DEF ReadTimeout, Garbled, ReadFails
<1>6. CASE UNCHANGED vars \/ Answer \/ ServerEnds
  BY <1>2, <1>6 DEF vars, connVars, Answer, ServerEnds
<1>7. CASE Connect \/ (\E op \in Ops : Start(op)) \/ Quit \/ DisableCompression \/ Cancel
  BY <1>2, <1>7 DEF Connect, Start, Quit, DisableCompression, Cancel, Return
<1>8. CASE Opened \/ OpenFail \/ ConnectTimeout \/ QuitEnd
  BY <1>2, <1>8 DEF Opened, OpenFail, ConnectTimeout, QuitEnd, Handshake
<1>9. CASE Send \/ SendFail \/ ReadBody \/ TooLarge \/ Undecodable \/ PrefixCut
  BY <1>9 DEF Send, SendFail, ReadBody, TooLarge, Undecodable, PrefixCut
<1> QED
  BY <1>4, <1>5, <1>6, <1>7, <1>8, <1>9 DEF Next, Client

-----------------------------------------------------------------------------
(* Compression                                                              *)

\* The server has agreed to compress and the client has not read it yet.
Agreed ==
    /\ cmd = "gzip" /\ phase = "line" /\ "290" \in Codes
    /\ Len(stream) = 1 /\ stream[1].kind = "290"

\* The client knows of a server that compresses, or is about to, or can run no
\* command in this session any more.  No session compresses before it is
\* authenticated, nor because of QUIT.
GzipInv ==
    owed = {} =>
      /\ gzip /\ ~disabled => compress \/ Agreed \/ (state # "Ready" /\ cmd \notin Running)
      /\ cmd \in {"greeting", "user", "pass"} => ~gzip
      /\ cmd = "quit" /\ state = "Ready" => \A i \in 1..Len(cmds) : cmds[i].for = "quit"

\* A step that leaves gzip alone and does not begin to compress keeps the
\* first part when the call ends out of Ready, or stays where it was.
LEMMA GzipAtRest ==
    ASSUME GzipInv, IInv, owed' = {},
           owed = {}, gzip' = gzip, disabled => disabled',
           \/ cmd' \in {"none", "tcp"} /\ state' # "Ready"
           \/ cmd' \in Probes \cup {"none"} /\ state = "Ready" /\ ~Agreed /\ (compress => compress')
    PROVE  GzipInv'
<1>1. cmd' \notin Running /\ cmd' \notin {"greeting", "user", "pass", "quit"}
  BY CommandFacts DEF Probes, Handshake
<1> QED
  BY <1>1 DEF GzipInv

\* Every step of the specification keeps GzipInv.
LEMMA StepGzip == IInv /\ IInv' /\ GzipInv /\ [Next]_vars => GzipInv'
<1> SUFFICES ASSUME IInv, IInv', GzipInv, [Next]_vars, owed' = {} PROVE GzipInv'
  BY DEF GzipInv
<1>1. CallType /\ RestType /\ PlaceInv /\ AlignInv /\ TypeOK /\ CallType' /\ PlaceInv'
  BY TypeSplit DEF IInv
<1>2. CASE Opened
  BY <1>2, CommandFacts DEF Opened, GzipInv
<1> SUFFICES ASSUME ~Opened PROVE GzipInv'
  BY <1>2
<1>17. ASSUME NEW P, LeftBehind(P) PROVE owed = {}
  BY <1>17 DEF LeftBehind
<1>18. SendFail \/ ReadTimeout \/ Cancel => owed = {}
  BY <1>17 DEF SendFail, ReadTimeout, Cancel
<1>3. owed = {}
  BY <1>18 DEF Next, Client, vars, connVars, Connect, Opened, OpenFail, ConnectTimeout, Start,
              Quit, DisableCompression, Send, ReadLine, ReadBody,
              Garbled, TooLarge, Undecodable, PrefixCut, QuitEnd, Answer, ServerEnds
<1>4. CASE Connect \/ OpenFail \/ ConnectTimeout \/ PrefixCut \/ QuitEnd
  <2>1. /\ cmd' \in {"none", "tcp"} /\ state' # "Ready" /\ gzip' = gzip /\ disabled' = disabled
    BY <1>4 DEF Connect, OpenFail, ConnectTimeout, PrefixCut, QuitEnd, Return
  <2> QED
    BY <1>3, <2>1, GzipAtRest
<1>5. CASE \E op \in Ops : Start(op)
  <2>1. /\ cmd = "none" /\ state = "Ready" /\ cmd' \in Running /\ cmd' \notin Handshake \cup {"quit"}
        /\ UNCHANGED <<compress, disabled, gzip>>
    BY <1>5, CommandFacts DEF Start
  <2> QED
    BY <1>3, <2>1 DEF GzipInv, Agreed, Handshake
<1>6. CASE Quit
  <2>1. cmd' = "quit" /\ "quit" \notin Running
    BY <1>6, CommandFacts DEF Quit
  <2>2. ASSUME state' = "Ready" PROVE \A i \in 1..Len(cmds') : cmds'[i].for = "quit"
    BY <1>1, <1>3, <1>6, <2>2 DEF Quit, AlignInv, Quiet, wireVars
  <2> QED
    BY <1>3, <1>6, <2>1, <2>2 DEF Quit, GzipInv, Agreed
<1>7. CASE Cancel
  <2>1. cmd' = "none" /\ state' = state /\ gzip' = gzip /\ disabled' = disabled /\ compress' = compress
    BY <1>7 DEF Cancel, Return
  <2>2. ~(cmd \in Probes \cup {"quit"} /\ state = "Ready") /\ cmd # "none"
    BY <1>7 DEF Cancel, LeftBehind
  <2>3. state # "Ready"
    BY <1>1, <2>2, CommandFacts DEF CallType, PlaceInv, Handshake, Probes
  <2> QED
    BY <1>3, <2>1, <2>3, GzipAtRest
<1>8. CASE DisableCompression
  BY <1>3, <1>8, CommandFacts DEF DisableCompression, GzipInv
<1>9. CASE Send
  <2>1. /\ phase = "send" /\ cmd \in Commands /\ phase' = "line" /\ WriteCmd(cmd)
        /\ UNCHANGED <<cmd, state, compress, disabled, gzip>>
    BY <1>1, <1>9 DEF Send, CallType
  <2>2. Len(cmds) \in Nat
    BY <1>1, LenProperties DEF RestType
  <2>3. ASSUME cmd = "quit", state = "Ready"
        PROVE  \A i \in 1..Len(cmds') : cmds'[i].for = "quit"
    <3>1. \A i \in 1..Len(cmds) : cmds[i].for = "quit"
      BY <1>3, <2>3 DEF GzipInv
    <3>2. cmds' = cmds \/ Extended(cmds', cmds, [for |-> cmd, part |-> "line"])
      BY <1>1, <2>1, WriteCmdEffect DEF RestType
    <3> QED
      BY <2>2, <2>3, <3>1, <3>2 DEF Extended
  <2> QED
    BY <1>3, <2>1, <2>3 DEF GzipInv, Agreed
<1>10. CASE SendFail
  <2>1. /\ phase = "send" /\ gzip' = gzip /\ disabled' = disabled /\ compress' = compress
        /\ \/ cmd \in Probes /\ ProbeFail
           \/ cmd \notin Probes /\ Fail /\ Return("fatal") /\ UNCHANGED <<caps, compress>>
    BY <1>10 DEF SendFail, ProbeFail
  <2>2. CASE cmd \notin Probes
    BY <1>1, <1>3, <2>1, <2>2, FailFacts, GzipAtRest DEF CallType
  <2>3. CASE cmd \in Probes
    BY <1>1, <1>3, <2>1, <2>3, ProbeFailFacts, GzipAtRest DEF PlaceInv, Agreed, Probes
  <2> QED
    BY <2>2, <2>3
<1>11. CASE ReadLine
  <2>1. /\ phase = "line" /\ cmd # "quit" /\ TakePart /\ UNCHANGED <<disabled, gzip>>
        /\ Head(stream).kind \in Codes /\ Reply(Head(stream).kind) /\ Head(stream) = stream[1]
    BY <1>1, <1>11, TakePartEffect DEF ReadLine, RestType
  <2>2. CASE cmd \in {"greeting", "user", "pass"}
    <3>1. ~gzip /\ cmd' \notin {"quit"} /\ (cmd' \in {"greeting", "user", "pass"} => ~gzip')
      BY <1>1, <1>3, <2>1, <2>2, ReplyFacts DEF GzipInv, CallType
    <3> QED
      BY <2>1, <3>1 DEF GzipInv
  <2>3. CASE cmd \in Running
    <3>1. cmd' \in {"sent", "none", cmd} /\ compress' = compress
      BY <2>1, <2>3, CommandFacts DEF Reply, CommandReply, GoOn, Return, Handshake, Probes
    <3>2. cmd' \notin {"greeting", "user", "pass", "quit"}
      BY <2>3, <3>1, CommandFacts DEF Handshake
    <3>3. ~Agreed /\ (gzip /\ ~disabled => compress)
      BY <1>3, <2>3, CommandFacts DEF GzipInv, Agreed, Handshake
    <3> QED
      BY <2>1, <3>1, <3>2, <3>3 DEF GzipInv
  <2>4. CASE cmd \in Probes
    <3>1. state = "Ready" /\ cmd \notin Running /\ cmd \notin {"greeting", "user", "pass", "quit"}
      BY <1>1, <2>4, CommandFacts DEF PlaceInv, Probes, Handshake
    <3>2. CASE Head(stream).kind = BodyCode(cmd)
      <4>1. cmd' = cmd /\ compress' = compress /\ ~Agreed
        BY <2>1, <3>2, RowFacts DEF Reply, Agreed
      <4> QED
        BY <1>3, <2>1, <2>4, <3>1, <4>1, GzipAtRest
    <3>3. CASE ProbeReply(Head(stream).kind)
      <4>1. cmd' \in {"mode", "ext", "none"}
        BY <1>1, <2>1, <2>4, <3>3, ProbeReplyFacts
      <4>2. (Agreed => compress') /\ (compress => compress')
        BY <2>1, <3>3 DEF ProbeReply, Negotiated, Agreed
      <4>3. cmd' \notin {"greeting", "user", "pass", "quit"}
        BY <4>1
      <4> QED
        BY <1>3, <2>1, <3>1, <4>2, <4>3 DEF GzipInv
    <3> QED
      BY <2>1, <2>4, <3>2, <3>3, CommandFacts DEF Reply, Probes, Handshake
  <2> QED
    BY <1>1, <2>1, <2>2, <2>3, <2>4, CommandFacts DEF CallType, PlaceInv, Handshake, Probes
<1>12. CASE ReadBody
  <2>1. phase = "body" /\ cmd \in Commands /\ UNCHANGED <<compress, disabled, gzip>> /\ ~Agreed
    BY <1>1, <1>12 DEF ReadBody, CallType, Agreed
  <2>2. cmd \notin Handshake \ {"caps", "ext"}
    BY <1>1, <2>1, CommandFacts DEF PlaceInv
  <2>3. CASE cmd \in Probes
    <3>1. state = "Ready"
      BY <1>1, <2>3 DEF PlaceInv
    <3>2. cmd' \in Probes \cup {"none"}
      BY <1>12, <2>3 DEF ReadBody, AfterProbe, GoOn, Return, Probes
    <3> QED
      BY <1>3, <2>1, <3>1, <3>2, GzipAtRest
  <2>4. CASE cmd \notin Probes
    <3>1. cmd' = "none"
      BY <1>12, <2>4 DEF ReadBody, Return, Probes
    <3>2. cmd \in Running
      BY <1>1, <2>1, <2>2, <2>4, CommandFacts DEF PlaceInv, Probes
    <3> QED
      BY <1>3, <2>1, <3>1, <3>2 DEF GzipInv
  <2> QED
    BY <2>3, <2>4
<1>13. CASE ReadTimeout \/ Garbled \/ TooLarge \/ Undecodable
  <2>1. ReadFails /\ UNCHANGED <<disabled, gzip>>
    BY <1>13 DEF ReadTimeout, Garbled, TooLarge, Undecodable, ReadFails
  <2>2. CASE cmd \notin Probes
    <3>1. cmd' = "none" /\ state' # "Ready"
      BY <1>1, <2>1, <2>2, FailFacts DEF ReadFails, Return
    <3> QED
      BY <1>3, <2>1, <3>1, GzipAtRest
  <2>3. CASE cmd \in Probes
    <3>1. ~Agreed
      BY <1>1, <1>13, <2>3, TakePartEffect
         DEF ReadTimeout, Garbled, TooLarge, Undecodable, Agreed, RestType
    <3>2. state = "Ready" /\ compress' = compress /\ cmd' \in {"mode", "ext", "none"}
      BY <1>1, <2>1, <2>3, ProbeFailFacts DEF ReadFails, PlaceInv
    <3> QED
      BY <1>3, <2>1, <3>1, <3>2, GzipAtRest DEF Probes
  <2> QED
    BY <2>2, <2>3
<1>14. CASE Answer
  <2> DEFINE c == Head(cmds).for
  <2>1. /\ UNCHANGED connVars /\ cmds # <<>> /\ alive
        /\ SendPart((Codes \cap Replies(c)) \cup {"garbled"}, {BodyCode(c)} \ {"none"})
        /\ gzip' = (gzip \/ (c = "gzip" /\ stream'[Len(stream')].kind = "290"))
    BY <1>14 DEF Answer, SendPart
  <2>2. c = cmds[1].for /\ Len(cmds) \in Nat \ {0} /\ Len(stream) \in Nat /\ cmds[1] \in Pending
    BY <1>1, <2>1, TailDrops, LenProperties DEF RestType
  <2>3. PICK k \in Codes \cup {"garbled", "body"} :
            /\ Extended(stream', stream, [for |-> c, kind |-> k])
            /\ \/ cmds[1].part = "line" /\ k \in Codes \cup {"garbled"} /\ Dropped(cmds', cmds)
               \/ cmds[1].part = "body" /\ k = "body" /\ Dropped(cmds', cmds)
               \/ /\ cmds[1].part = "line" /\ k = BodyCode(c) /\ k \in Codes
                  /\ Len(cmds') = Len(cmds)
                  /\ cmds'[1] = [for |-> c, part |-> "body"]
                  /\ \A i \in 2..Len(cmds) : cmds'[i] = cmds[i]
    <3> DEFINE K == (Codes \cap Replies(c)) \cup {"garbled"}
               M == {BodyCode(c)} \ {"none"}
    <3>1. K \in SUBSET (Codes \cup {"garbled"}) /\ SendPart(K, M)
      BY <2>1
    <3>2. \A k : k \in K \cap M => k = BodyCode(c) /\ k \in Codes
      BY CommandFacts
    <3> HIDE DEF K, M, c
    <3>3. PICK k \in K \cup {"body"} :
              /\ Extended(stream', stream, [for |-> c, kind |-> k])
              /\ \/ cmds[1].part = "line" /\ k \in K \ M /\ Dropped(cmds', cmds)
                 \/ cmds[1].part = "body" /\ k = "body" /\ Dropped(cmds', cmds)
                 \/ /\ cmds[1].part = "line" /\ k \in K \cap M
                    /\ Len(cmds') = Len(cmds)
                    /\ cmds'[1] = [for |-> c, part |-> "body"]
                    /\ \A i \in 2..Len(cmds) : cmds'[i] = cmds[i]
      BY <1>1, <2>2, <3>1, SendPartEffect DEF RestType
    <3> QED
      BY <3>1, <3>2, <3>3
  <2>4. stream' # <<>> /\ Len(stream') = Len(stream) + 1 /\ stream'[Len(stream')].kind = k
    BY <2>2, <2>3 DEF Extended
  <2>5. UNCHANGED <<cmd, phase, state, compress, disabled>> /\ ~Agreed
    <3>1. UNCHANGED <<cmd, phase, state, compress, disabled>>
      BY <2>1 DEF connVars
    <3>2. Agreed => Mine(cmd) /\ LineDue
      BY <1>1, <1>3 DEF AlignInv, Agreed
    <3>3. BodyCode("gzip") = "none"
      BY RowFacts DEF Handshake
    <3>4. ~Agreed
      BY <2>2, <3>2, <3>3, CommandFacts DEF Agreed, LineDue, Quiet
    <3> QED
      BY <3>1, <3>4
  <2>6. ASSUME gzip' # gzip PROVE Agreed' \/ (state # "Ready" /\ cmd \in {"none", "tcp", "quit"})
    <3>1. c = "gzip" /\ k = "290" /\ k \in Codes
      <4>1. CASE c = "gzip" /\ stream'[Len(stream')].kind = "290"
        BY <2>3, <2>4, <4>1
      <4>2. CASE ~(c = "gzip" /\ stream'[Len(stream')].kind = "290")
        <5>1. gzip' = gzip
          BY <1>1, <2>1, <4>2 DEF RestType
        <5> QED
          BY <2>6, <5>1
      <4> QED
        BY <4>1, <4>2
    <3>2. CASE phase \in {"line", "body"} /\ cmd # "quit"
      <4>1. Mine(cmd) /\ cmd = "gzip"
        BY <1>1, <1>3, <2>2, <3>1, <3>2 DEF AlignInv, Mine
      <4>2. phase = "line" /\ Len(stream) = 0
        BY <1>1, <1>3, <2>2, <3>2, <4>1, CommandFacts, RowFacts
          DEF AlignInv, LineDue, Quiet, PlaceInv, Handshake
      <4> QED
        BY <2>4, <2>5, <3>1, <4>1, <4>2 DEF Agreed
    <3>3. CASE phase = "send" /\ cmd # "quit"
      BY <1>1, <1>3, <2>2, <3>3 DEF AlignInv, Quiet
    <3>4. CASE cmd \in {"none", "tcp"}
      BY <1>1, <1>3, <2>2, <3>4, CommandFacts DEF AlignInv, Quiet, PlaceInv, Handshake
    <3>5. CASE cmd = "quit"
      BY <1>3, <2>2, <3>1, <3>5, CommandFacts DEF GzipInv
    <3> QED
      BY <1>1, <3>2, <3>3, <3>4, <3>5 DEF CallType, PlaceInv
  <2>7. ASSUME cmd \in {"greeting", "user", "pass"} PROVE ~gzip'
    <3>1. ~gzip /\ cmd' = cmd
      BY <1>3, <2>5, <2>7 DEF GzipInv
    <3>2. gzip' = gzip
      BY <2>6, <2>7, <3>1 DEF Agreed
    <3> QED
      BY <3>1, <3>2
  <2>8. ASSUME cmd = "quit", state = "Ready"
        PROVE  \A i \in 1..Len(cmds') : cmds'[i].for = "quit"
    <3>1. \A i \in 1..Len(cmds) : cmds[i].for = "quit"
      BY <1>3, <2>8 DEF GzipInv
    <3>2. CASE Dropped(cmds', cmds)
      BY <2>2, <3>1, <3>2 DEF Dropped
    <3>3. CASE /\ Len(cmds') = Len(cmds)
               /\ cmds'[1] = [for |-> c, part |-> "body"]
               /\ \A i \in 2..Len(cmds) : cmds'[i] = cmds[i]
      BY <2>2, <3>1, <3>3
    <3> QED
      BY <2>3, <3>2, <3>3
  <2>9. {"none", "tcp", "quit"} \cap Running = {}
    BY CommandFacts DEF Handshake
  <2> QED
    BY <1>3, <2>5, <2>6, <2>7, <2>8, <2>9 DEF GzipInv
<1>15. CASE ServerEnds
  BY <1>3, <1>15 DEF ServerEnds, ServerClose, connVars, GzipInv, Agreed
<1>16. CASE UNCHANGED vars
  BY <1>16 DEF vars, connVars, wireVars, GzipInv, Agreed
<1> QED
  BY <1>4, <1>5, <1>6, <1>7, <1>8, <1>9, <1>10, <1>11, <1>12, <1>13, <1>14, <1>15, <1>16
     DEF Next, Client

-----------------------------------------------------------------------------
(* Compression in a session with a probe or a QUIT left behind              *)

\* The reply to a probe that connect() gave up comes before that to LIST
\* EXTENSIONS, which it therefore takes for a refusal.
FirstLate ==
    /\ phase # "body"
    /\ Len(stream) > 0 => stream[1].for \in {"caps", "mode"} /\ stream[1].kind # "202"
    /\ Len(stream) = 0 /\ Len(cmds) > 0 => cmds[1].for \in {"caps", "mode"}
    /\ alive => Len(stream) + Len(cmds) > 0

NoGzipDue == \A i \in 1..Len(cmds) : cmds[i].for # "gzip"

\* XFEATURE GZIP is not sent any more, nor was it: what the client knows of
\* compression stays right.
LateInv ==
    owed # {} /\ "gzip" \notin owed =>
      /\ cmd \notin Handshake \ {"tcp", "ext"}
      /\ NoGzipDue
      /\ gzip /\ ~disabled => compress \/ (state # "Ready" /\ cmd \notin Running)
      /\ cmd = "ext" => FirstLate

\* The steps after which connect() is not at LIST EXTENSIONS.
LEMMA LateGoesOn ==
    ASSUME LateInv, owed # {}, "gzip" \notin owed,
           gzip' = gzip, disabled => disabled', NoGzipDue',
           cmd' \notin Handshake \ {"tcp"},
           \/ state' # "Ready" /\ cmd' \notin Running
           \/ /\ compress' = compress
              /\ cmd' \in Running \/ state' = "Ready" => cmd \in Running \/ state = "Ready"
    PROVE  LateInv'
  BY DEF LateInv, Handshake

\* A command is left behind in a session that had none: it is CAPABILITIES,
\* MODE READER, LIST EXTENSIONS or QUIT.
LEMMA LateBegins ==
    ASSUME IInv, IInv', GzipInv, owed = {}, "gzip" \notin owed',
           \/ Cancel /\ cmd \in LeftOver /\ state = "Ready" /\ cmd \in owed'
           \/ SendFail /\ cmd \in Probes /\ cmds' # cmds /\ cmd \in owed'
           \/ ReadTimeout /\ cmd \in Probes /\ cmds # <<>> /\ cmd \in owed'
    PROVE  LateInv'
<1>1. CallType /\ RestType /\ PlaceInv /\ AlignInv /\ TypeOK
  BY TypeSplit DEF IInv
<1>2. cmd \in {"caps", "mode", "ext", "quit"} /\ state = "Ready" /\ cmd # "none"
  BY <1>1 DEF LeftOver, Probes, PlaceInv
<1>3. gzip /\ ~disabled => compress
  BY <1>2, CommandFacts DEF GzipInv, Agreed
<1>4. Len(cmds) \in Nat /\ Len(stream) \in Nat
  BY <1>1, LenProperties DEF RestType
<1>5. \A i \in 1..Len(cmds) : cmds[i].for = cmd
  <2>1. CASE cmd = "quit"
    BY <1>2, <2>1 DEF GzipInv
  <2>2. CASE cmd # "quit"
    BY <1>1, <1>2, <1>4, <2>2 DEF AlignInv, Mine, Quiet, CallType, PlaceInv
  <2> QED
    BY <2>1, <2>2
<1>6. CASE Cancel
  <2>1. cmd' = "none" /\ UNCHANGED <<state, compress, disabled, gzip, cmds>>
    BY <1>6 DEF Cancel, Return, wireVars
  <2> QED
    BY <1>2, <1>3, <1>5, <2>1 DEF LateInv, NoGzipDue, Handshake
<1>7. ASSUME ~Cancel PROVE LateInv'
  <2>1. cmd \in {"caps", "mode", "ext"} /\ ProbeFail /\ UNCHANGED <<disabled, gzip>>
    BY <1>2, <1>7 DEF SendFail, ReadTimeout, ReadFails, Probes
  <2>2. state' = "Ready" /\ compress' = compress
    BY <1>2, <2>1 DEF ProbeFail
  <2>3. cmd' \in {"ext", "none"} /\ (cmd' = "ext" => cmd # "ext" /\ phase' = "send")
    <3>1. cmd = "caps" => caps'.reader
      BY <2>1 DEF ProbeFail, DefaultCaps
    <3> QED
      BY <2>1, <3>1 DEF ProbeFail, AfterProbe, GoOn, Return
  <2>4. /\ Len(cmds') > 0 /\ Len(cmds') \in Nat /\ Len(stream') = 0
        /\ \A i \in 1..Len(cmds') : cmds'[i].for = cmd
    <3>1. CASE SendFail
      <4>1. Len(cmds) = 0 /\ Len(stream) = 0 /\ stream' = stream
        BY <1>1, <2>1, <3>1 DEF SendFail, AlignInv, Quiet
      <4>2. WriteCmd(cmd) /\ cmds' # cmds /\ cmd \in Commands
        BY <1>1, <1>2, <1>7, <3>1 DEF SendFail, ReadTimeout, CallType
      <4>3. Extended(cmds', cmds, [for |-> cmd, part |-> "line"])
        BY <1>1, <4>2, WriteCmdEffect DEF RestType
      <4> QED
        BY <4>1, <4>3 DEF Extended
    <3>2. CASE ReadTimeout
      <4>1. cmds # <<>> /\ cmds' = cmds /\ stream' = <<>>
        BY <1>7, <3>2 DEF ReadTimeout, SendFail, wireVars
      <4> QED
        BY <1>1, <1>4, <1>5, <4>1, EmptySeq DEF RestType
    <3> QED
      BY <1>7, <3>1, <3>2
  <2>5. cmd # "gzip"
    BY <2>1
  <2> QED
    BY <1>3, <2>1, <2>2, <2>3, <2>4, <2>5 DEF LateInv, FirstLate, NoGzipDue, Handshake
<1> QED
  BY <1>6, <1>7

\* A command that is written adds itself, at the end.
LEMMA LateWrites ==
    ASSUME IInv, LateInv, owed # {}, "gzip" \notin owed, phase = "send",
           cmd \notin Handshake \ {"ext"}, WriteCmd(cmd) \/ cmds' = cmds
    PROVE  /\ NoGzipDue'
           /\ \/ cmds' = cmds
              \/ /\ Len(cmds') = Len(cmds) + 1 /\ Len(cmds) \in Nat
                 /\ \A i \in 1..Len(cmds) : cmds'[i] = cmds[i]
<1>1. CallType /\ RestType
  BY TypeSplit DEF IInv
<1>2. cmd \in Commands /\ cmd # "gzip" /\ Len(cmds) \in Nat
  BY <1>1, LenProperties DEF CallType, RestType, Handshake
<1>3. cmds' = cmds \/ Extended(cmds', cmds, [for |-> cmd, part |-> "line"])
  BY <1>1, <1>2, WriteCmdEffect DEF RestType
<1>4. NoGzipDue
  BY DEF LateInv
<1>5. CASE cmds' = cmds
  BY <1>4, <1>5 DEF NoGzipDue
<1>6. CASE Extended(cmds', cmds, [for |-> cmd, part |-> "line"])
  BY <1>2, <1>4, <1>6 DEF NoGzipDue, Extended
<1> QED
  BY <1>3, <1>5, <1>6

\* The server never answers CAPABILITIES or MODE READER with 202.
LEMMA LateAnswer ==
    ASSUME IInv, LateInv, owed # {}, "gzip" \notin owed, Answer
    PROVE  LateInv'
<1> DEFINE c == Head(cmds).for
           K == (Codes \cap Replies(c)) \cup {"garbled"}
           M == {BodyCode(c)} \ {"none"}
<1>1. CallType /\ RestType
  BY TypeSplit DEF IInv
<1>2. /\ UNCHANGED connVars /\ cmds # <<>> /\ SendPart(K, M)
      /\ gzip' = (gzip \/ (c = "gzip" /\ stream'[Len(stream')].kind = "290"))
  BY DEF Answer
<1>3. c = cmds[1].for /\ Len(cmds) \in Nat \ {0} /\ Len(stream) \in Nat
  BY <1>1, <1>2, TailDrops, LenProperties DEF RestType
<1>4. PICK k \in K \cup {"body"} :
        /\ Extended(stream', stream, [for |-> c, kind |-> k])
        /\ \/ cmds[1].part = "line" /\ k \in K \ M /\ Dropped(cmds', cmds)
           \/ cmds[1].part = "body" /\ k = "body" /\ Dropped(cmds', cmds)
           \/ /\ cmds[1].part = "line" /\ k \in K \cap M
              /\ Len(cmds') = Len(cmds)
              /\ cmds'[1] = [for |-> c, part |-> "body"]
              /\ \A i \in 2..Len(cmds) : cmds'[i] = cmds[i]
  <2> HIDE DEF K, M, c
  <2>1. K \in SUBSET (Codes \cup {"garbled"})
    BY DEF K
  <2> QED
    BY <1>1, <1>2, <1>3, <2>1, SendPartEffect DEF RestType
<1>5. c # "gzip" /\ NoGzipDue
  BY <1>3 DEF LateInv, NoGzipDue
<1>6. gzip' = gzip
  BY <1>1, <1>2, <1>5 DEF RestType
<1>7. c \in {"caps", "mode"} => k # "202"
  BY DEF Replies, BodyCode, Declined, Accepted, RowOf, Row, Capabilities, Posting
<1> HIDE DEF K, M, c
<1>8. NoGzipDue'
  <2>1. CASE Dropped(cmds', cmds)
    BY <1>3, <1>5, <2>1 DEF NoGzipDue, Dropped
  <2>2. CASE /\ Len(cmds') = Len(cmds)
             /\ cmds'[1] = [for |-> c, part |-> "body"]
             /\ \A i \in 2..Len(cmds) : cmds'[i] = cmds[i]
    BY <1>3, <1>5, <2>2 DEF NoGzipDue
  <2> QED
    BY <1>4, <2>1, <2>2
<1>9. cmd' = cmd /\ phase' = phase /\ UNCHANGED <<state, compress, disabled, owed>>
  BY <1>2 DEF connVars
<1>10. ASSUME cmd = "ext" PROVE FirstLate'
  <2>1. FirstLate
    BY <1>10 DEF LateInv
  <2>2. Len(stream') = Len(stream) + 1
    BY <1>4 DEF Extended
  <2>3. Len(cmds') \in Nat
    BY <1>3, <1>4 DEF Dropped
  <2>4. CASE Len(stream) = 0
    <3>1. stream'[1] = [for |-> c, kind |-> k]
      BY <1>4, <2>2, <2>4 DEF Extended
    <3>2. c \in {"caps", "mode"}
      BY <1>3, <2>1, <2>4 DEF FirstLate
    <3> QED
      BY <1>3, <1>7, <1>9, <2>1, <2>2, <2>3, <2>4, <3>1, <3>2 DEF FirstLate
  <2>5. CASE Len(stream) > 0
    <3>1. stream'[1] = stream[1]
      BY <1>3, <1>4, <2>5 DEF Extended
    <3> QED
      BY <1>3, <1>9, <2>1, <2>2, <2>3, <2>5, <3>1 DEF FirstLate
  <2> QED
    BY <1>3, <2>4, <2>5
<1> QED
  BY <1>6, <1>8, <1>9, <1>10 DEF LateInv

\* A call gets a part of a reply, or gives up waiting for it.
LEMMA LateReads ==
    ASSUME IInv, LateInv, owed # {}, "gzip" \notin owed,
           ReadLine \/ ReadBody \/ ReadTimeout \/ Garbled \/ TooLarge \/ Undecodable
    PROVE  LateInv'
<1>1. CallType /\ RestType /\ PlaceInv /\ TypeOK
  BY TypeSplit DEF IInv
<1>2. /\ phase \in {"line", "body"} /\ cmd # "quit" /\ cmd # "none" /\ cmd # "tcp"
      /\ cmds' = cmds /\ gzip' = gzip /\ disabled' = disabled
  BY <1>1, CommandFacts, RowFacts
     DEF ReadLine, ReadBody, ReadTimeout, Garbled, TooLarge, Undecodable, ReadFails, TakePart,
         wireVars, CallType, PlaceInv, Handshake
<1>3. NoGzipDue'
  BY <1>2 DEF LateInv, NoGzipDue
<1>4. CASE cmd = "ext"
  <2>1. phase = "line" /\ state = "Ready" /\ FirstLate
    BY <1>1, <1>2, <1>4 DEF LateInv, FirstLate, PlaceInv, Probes
  <2>2. cmd' = "none" /\ compress' = compress
    <3>1. CASE ReadLine
      <4>1. TakePart /\ Reply(Head(stream).kind)
        BY <3>1 DEF ReadLine
      <4>2. Len(stream) > 0 /\ Head(stream) = stream[1]
        BY <1>1, <4>1, TakePartEffect DEF RestType
      <4>3. Head(stream).kind # BodyCode(cmd)
        BY <1>4, <2>1, <4>2 DEF FirstLate, BodyCode, RowOf, Extensions, Row
      <4>4. ProbeReply(Head(stream).kind)
        BY <1>4, <4>1, <4>3 DEF Reply, Handshake
      <4> QED
        BY <1>4, <4>4 DEF ProbeReply, AfterProbe, Return
    <3>2. CASE ~ReadLine
      <4>1. ProbeFail
        BY <1>4, <2>1, <3>2 DEF ReadBody, ReadTimeout, Garbled, TooLarge, Undecodable, ReadFails, Probes
      <4> QED
        BY <1>4, <4>1 DEF ProbeFail, AfterProbe, Return
    <3> QED
      BY <3>1, <3>2
  <2> QED
    BY <1>2, <1>3, <2>1, <2>2, LateGoesOn DEF Handshake
<1>5. CASE cmd # "ext"
  <2>1. cmd \in Running /\ cmd \notin Handshake
    BY <1>1, <1>2, <1>5, CommandFacts DEF LateInv, CallType, Handshake
  <2>2. cmd' \in {"sent", "none", cmd} /\ compress' = compress
    <3>1. CASE ReadLine
      BY <2>1, <3>1, CommandFacts DEF ReadLine, Reply, CommandReply, GoOn, Return, Handshake, Probes
    <3>2. CASE ReadBody
      BY <2>1, <3>2 DEF ReadBody, Return, Handshake, Probes
    <3>3. CASE ~ReadLine /\ ~ReadBody
      BY <2>1, <3>3
         DEF ReadTimeout, Garbled, TooLarge, Undecodable, ReadFails, Return, Handshake, Probes
    <3> QED
      BY <3>1, <3>2, <3>3
  <2>3. cmd' \notin Handshake
    BY <2>1, <2>2 DEF Handshake
  <2> QED
    BY <1>2, <1>3, <2>1, <2>2, <2>3, LateGoesOn
<1> QED
  BY <1>4, <1>5

\* Every step of the specification keeps LateInv.
LEMMA StepLate == IInv /\ IInv' /\ GzipInv /\ LateInv /\ [Next]_vars => LateInv'
<1> SUFFICES ASSUME IInv, IInv', GzipInv, LateInv, [Next]_vars, owed' # {}, "gzip" \notin owed'
             PROVE  LateInv'
  BY DEF LateInv
<1>1. CallType /\ RestType /\ PlaceInv /\ TypeOK
  BY TypeSplit DEF IInv
<1>2. ASSUME NEW P, LeftBehind(P)
      PROVE  owed \subseteq owed' /\ (owed' # owed => P /\ cmd \in owed')
  BY <1>2 DEF LeftBehind
<1>3. /\ SendFail => /\ owed \subseteq owed'
                     /\ owed' # owed => cmd \in Probes /\ cmds' # cmds /\ cmd \in owed'
      /\ ReadTimeout => /\ owed \subseteq owed'
                        /\ owed' # owed => cmd \in Probes /\ cmds # <<>> /\ cmd \in owed'
      /\ Cancel => /\ owed \subseteq owed'
                   /\ owed' # owed => cmd \in LeftOver /\ state = "Ready" /\ cmd \in owed'
  BY <1>2 DEF SendFail, ReadTimeout, Cancel, LeftOver
<1>4. \/ SendFail \/ ReadTimeout \/ Cancel
      \/ owed' = owed
  BY DEF Next, Client, vars, connVars, Connect, Opened, OpenFail, ConnectTimeout, Start,
         Quit, DisableCompression, Send, ReadLine, ReadBody,
         Garbled, TooLarge, Undecodable, PrefixCut, QuitEnd, Answer, ServerEnds
<1>5. CASE owed = {}
  BY <1>3, <1>4, <1>5, LateBegins
<1> SUFFICES ASSUME owed # {} PROVE LateInv'
  BY <1>5
<1>6. "gzip" \notin owed
  BY <1>3, <1>4
<1>7. ~Opened
  BY DEF Opened
<1>8. CASE Connect \/ OpenFail \/ ConnectTimeout \/ PrefixCut \/ QuitEnd
  <2>1. /\ cmd' \in {"none", "tcp"} /\ state' # "Ready" /\ UNCHANGED <<gzip, disabled, cmds>>
    BY <1>8 DEF Connect, OpenFail, ConnectTimeout, PrefixCut, QuitEnd, Return, wireVars
  <2>2. NoGzipDue' /\ cmd' \notin Running /\ cmd' \notin Handshake \ {"tcp"}
    BY <1>6, <2>1, CommandFacts DEF LateInv, NoGzipDue, Handshake
  <2> QED
    BY <1>6, <2>1, <2>2, LateGoesOn
<1>9. CASE \E op \in Ops : Start(op)
  <2>1. /\ state = "Ready" /\ cmd' \in Running /\ cmd' \notin Handshake \cup {"quit"}
        /\ UNCHANGED <<compress, disabled, gzip, cmds>>
    BY <1>9, CommandFacts DEF Start, wireVars
  <2>2. NoGzipDue'
    BY <1>6, <2>1 DEF LateInv, NoGzipDue
  <2> QED
    BY <1>6, <2>1, <2>2, LateGoesOn
<1>10. CASE Quit \/ Cancel \/ DisableCompression
  <2>1. /\ cmd' \in {"quit", "none"} /\ UNCHANGED <<state, gzip, cmds>>
        /\ disabled => disabled'
        /\ compress' = compress \/ disabled'
    BY <1>10 DEF Quit, Cancel, DisableCompression, Return, wireVars
  <2>2. NoGzipDue' /\ cmd' \notin Running /\ cmd' \notin Handshake
    BY <1>6, <2>1, CommandFacts DEF LateInv, NoGzipDue, Handshake
  <2> QED
    BY <1>6, <2>1, <2>2 DEF LateInv, Handshake
<1>11. CASE Send
  <2>1. /\ phase = "send" /\ WriteCmd(cmd) /\ phase' = "line"
        /\ UNCHANGED <<state, compress, cmd, disabled, gzip, stream, alive>>
    BY <1>11 DEF Send
  <2>2. cmd \notin Handshake \ {"ext"} /\ Len(cmds) \in Nat /\ Len(stream) \in Nat
    BY <1>1, <1>6, <2>1, LenProperties DEF LateInv, PlaceInv, RestType, Handshake
  <2>3. /\ NoGzipDue'
        /\ \/ cmds' = cmds
           \/ /\ Len(cmds') = Len(cmds) + 1 /\ Len(cmds) \in Nat
              /\ \A i \in 1..Len(cmds) : cmds'[i] = cmds[i]
    BY <1>6, <2>1, <2>2, LateWrites
  <2>4. ASSUME cmd = "ext" PROVE FirstLate'
    <3>1. FirstLate
      BY <1>6, <2>4 DEF LateInv
    <3>2. CASE cmds' = cmds
      BY <2>1, <3>1, <3>2 DEF FirstLate
    <3>3. CASE Len(cmds') = Len(cmds) + 1 /\ \A i \in 1..Len(cmds) : cmds'[i] = cmds[i]
      <4>1. CASE alive
        BY <2>1, <2>2, <3>1, <3>3, <4>1 DEF FirstLate
      <4>2. CASE ~alive
        BY <2>1, <3>1, <4>2 DEF WriteCmd, FirstLate
      <4> QED
        BY <4>1, <4>2
    <3> QED
      BY <2>3, <3>2, <3>3
  <2> QED
    BY <1>6, <2>1, <2>3, <2>4 DEF LateInv
<1>12. CASE SendFail
  <2>1. /\ phase = "send" /\ gzip' = gzip /\ disabled' = disabled
        /\ WriteCmd(cmd) \/ cmds' = cmds
        /\ \/ cmd \in Probes /\ ProbeFail
           \/ cmd \notin Probes /\ Return("fatal") /\ compress' = compress
    BY <1>12 DEF SendFail
  <2>2. cmd \notin Handshake \ {"ext"}
    BY <1>1, <1>6, <2>1 DEF LateInv, PlaceInv, Handshake
  <2>3. NoGzipDue'
    BY <1>6, <2>1, <2>2, LateWrites
  <2>4. CASE cmd = "ext"
    <3>1. ProbeFail /\ state = "Ready"
      BY <1>1, <2>1, <2>4 DEF Probes, PlaceInv
    <3>2. cmd' = "none" /\ compress' = compress
      BY <2>4, <3>1 DEF ProbeFail, AfterProbe, Return
    <3> QED
      BY <1>6, <2>1, <2>3, <3>1, <3>2, LateGoesOn DEF Handshake
  <2>5. CASE cmd # "ext"
    <3>1. cmd \notin Probes /\ cmd # "none" /\ cmd # "quit"
      BY <1>1, <1>12, <2>2, <2>5 DEF SendFail, Handshake, Probes, CallType
    <3>2. cmd \in Running
      BY <1>1, <2>2, <2>5, <3>1, CommandFacts DEF CallType, Handshake
    <3>3. cmd' = "none" /\ compress' = compress
      BY <2>1, <3>1 DEF Return
    <3> QED
      BY <1>6, <2>1, <2>3, <3>2, <3>3, LateGoesOn DEF Handshake
  <2> QED
    BY <2>4, <2>5
<1>13. CASE ServerEnds
  <2>1. UNCHANGED connVars /\ gzip' = gzip /\ cmds' = <<>> /\ stream' = stream /\ alive' = FALSE
    BY <1>13 DEF ServerEnds, ServerClose
  <2> QED
    BY <1>6, <2>1 DEF connVars, LateInv, NoGzipDue, FirstLate
<1>14. CASE UNCHANGED vars
  BY <1>14 DEF vars, connVars, wireVars, LateInv, NoGzipDue, FirstLate
<1>15. CASE ReadLine \/ ReadBody \/ ReadTimeout \/ Garbled \/ TooLarge \/ Undecodable
  BY <1>6, <1>15, LateReads
<1>16. CASE Answer
  BY <1>6, <1>16, LateAnswer
<1> QED
  BY <1>7, <1>8, <1>9, <1>10, <1>11, <1>12, <1>13, <1>14, <1>15, <1>16 DEF Next, Client

-----------------------------------------------------------------------------
(* The theorems                                                             *)

\* IInv is an invariant.
LEMMA AlwaysIInv == Spec => []IInv
  BY InitIInv, StepIInv, PTL DEF Spec

\* Every variable of the connection and of its session keeps its type.
THEOREM ConnTypeCorrect == Spec => []TypeOK
<1>1. IInv => TypeOK
  BY DEF IInv
<1> QED
  BY <1>1, AlwaysIInv, PTL

\* No reply is outstanding on a connection that is Ready and that nobody uses,
\* unless a probe or QUIT was abandoned in this session.
THEOREM ReadyAligned == Spec => []ReadyMeansAligned
<1>1. IInv => ReadyMeansAligned
  <2> SUFFICES ASSUME IInv, cmd = "none", state = "Ready", owed = {}
               PROVE  cmds = <<>> /\ stream = <<>>
    BY DEF ReadyMeansAligned
  <2>1. cmds \in Seq(Pending) /\ stream \in Seq(Part) /\ Len(cmds) = 0 /\ Len(stream) = 0
    BY TypeSplit DEF IInv, RestType, AlignInv, Quiet
  <2> QED
    BY <2>1, EmptySeq
<1> QED
  BY <1>1, AlwaysIInv, PTL

\* What a command reads is the reply to it.
THEOREM RepliesOwn == Spec => OwnReply
<1>1. IInv => ((cmd \in Running /\ owed = {} /\ stream # <<>> /\ stream' = Tail(stream))
                 => Head(stream).for = cmd)
  BY StepOwnReply
<1>2. IInv /\ [Next]_vars =>
        [(cmd \in Running /\ owed = {} /\ stream # <<>> /\ stream' = Tail(stream))
           => Head(stream).for = cmd]_vars
  BY <1>1
<1> QED
  BY <1>2, AlwaysIInv, PTL DEF Spec, OwnReply

\* No command but the end of a posting leaves the connection Ready after a code
\* with which the server refuses the client or goes away.
THEOREM RefusalEndsSession == Spec => SessionOver
<1>1. IInv /\ [Next]_vars =>
        [(cmd \in Running \ {"sent"} /\ phase = "line" /\ cmd' = "none" /\ ret' # "cancelled"
            /\ stream # <<>> /\ Head(stream).kind \in {"400", "403", "480", "481", "482", "502"})
           => state' # "Ready"]_vars
  BY StepSessionOver
<1> QED
  BY <1>1, AlwaysIInv, PTL DEF Spec, SessionOver

\* A call that failed for its connection leaves it unusable.
THEOREM FatalCorrect == Spec => []FatalNotReady
<1>1. IInv => FatalNotReady
  BY DEF IInv, PlaceInv
<1> QED
  BY <1>1, AlwaysIInv, PTL

\* No capability list stops the content commands.
THEOREM ContentCorrect == Spec => []ContentUsable
<1>1. IInv => ContentUsable
  BY DEF IInv, PlaceInv
<1> QED
  BY <1>1, AlwaysIInv, PTL

\* A command runs on a session the server compresses only if the client knows,
\* unless disable_compression() was called or XFEATURE GZIP itself was left
\* behind.
THEOREM CompressionKnown == Spec => []GzipKnown
<1>1. Init => GzipInv /\ LateInv
  BY DEF Init, GzipInv, LateInv
<1>2. Spec => []GzipInv
  BY <1>1, AlwaysIInv, StepGzip, PTL DEF Spec
<1>3. Spec => []LateInv
  BY <1>1, <1>2, AlwaysIInv, StepLate, PTL DEF Spec
<1>4. IInv /\ GzipInv /\ LateInv => GzipKnown
  BY CommandFacts DEF GzipInv, LateInv, GzipKnown, Agreed, Handshake
<1> QED
  BY <1>2, <1>3, <1>4, AlwaysIInv, PTL
=============================================================================
