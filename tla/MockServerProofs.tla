-------------------------- MODULE MockServerProofs --------------------------
(***************************************************************************)
(* Proofs about MockServer, for any connections, clients, configurations   *)
(* and limits.                                                             *)
(***************************************************************************)
EXTENDS MockServer, SequenceTheorems, FiniteSetTheorems, WellFoundedInduction, TLAPS

-----------------------------------------------------------------------------
(* Types                                                                    *)

\* Every command, and every code of the server.
Cmds == (UNION {f.menu : f \in Configs}) \cup {NoCmd, Text}

Codes ==
    Injected \cup Multi \cup {"200", "205", "211", "223", "240", "281", "340", "381", "411", "412",
                             "420", "423", "430", "440", "480", "481", "482", "500", "501"}

Groups == {"-"} \cup {cmd.arg : cmd \in Cmds}
Parts  == Codes \cup {"body", "banner"}
Reply  == [for : Cmds, kind : Parts]

Session ==
    [at : {"none", "open", "closing", "closed"}, auth : BOOLEAN, group : Groups,
     hung : BOOLEAN, posting : BOOLEAN, processed : Nat, written : Nat, left : BOOLEAN,
     sent : Nat, inbox : Seq(Cmds), cmd : Cmds, pending : Seq(Parts), out : Seq(Reply),
     ignored : Seq(Cmds)]

Try  == [conn : Conns, time : Nat, limited : BOOLEAN]
Item == [conn : Conns, place : Nat, mid : DOMAIN config.script, code : Injected]

TypeOK ==
    /\ config \in Configs
    /\ conn \in [Conns -> Session]
    /\ attempts \in Seq(Nat) /\ now \in Nat /\ read \in [Conns -> Nat \cup {NotRead}]
    /\ script \in [DOMAIN config.script -> Seq(Injected)]
    /\ posted \in Seq(Conns)
    /\ tries \in Seq(Try)
    /\ scripted \in Seq(Item)

\* What the configuration is.
LEMMA ConfigFacts ==
    ASSUME config \in Configs
    PROVE  /\ config.menu \subseteq Cmds /\ \A cmd \in config.menu : cmd.verb \notin {"-", "text"}
           /\ config.hang_after_command # "text"
           /\ config.auth_required \in BOOLEAN /\ config.auth_rate_limit \in BOOLEAN
           /\ config.overrides \in [DOMAIN config.overrides -> Injected]
           /\ config.script \in [DOMAIN config.script -> Seq(Injected)]
<1>1. config.menu \subseteq Cmds /\ \A cmd \in config.menu : cmd.verb \notin {"-", "text"}
  BY ConfigsAssumption DEF Cmds
<1>2. {config.auth_required, config.fail_auth, config.auth_rate_limit} \subseteq BOOLEAN
  BY ConfigsAssumption
<1>3. /\ config.hang_after_command # "text"
      /\ config.overrides \in [DOMAIN config.overrides -> Injected]
      /\ config.script \in [DOMAIN config.script -> Seq(Injected)]
  BY ConfigsAssumption
<1> QED
  BY <1>1, <1>2, <1>3

\* The session c becomes h.
Becomes(c, h) ==
    /\ h \in Session
    /\ conn' \in [Conns -> Session]
    /\ conn'[c] = h
    /\ \A x \in Conns : x # c => conn'[x] = conn[x]

LEMMA BecomesIs ==
    ASSUME TypeOK, NEW c \in Conns, NEW h \in Session, conn' = [conn EXCEPT ![c] = h]
    PROVE  Becomes(c, h)
  BY DEF TypeOK, Becomes

\* The code k is due for the first command of o; posting only for the article itself.
Answered(o, h, k) ==
    /\ o.inbox # <<>> /\ o.pending = <<>> /\ o.at = "open"
    /\ h.at = o.at /\ h.out = o.out /\ h.inbox = Tail(o.inbox) /\ h.cmd = Head(o.inbox)
    /\ h.pending = IF k \in Multi THEN <<k, "body">> ELSE <<k>>
    /\ h.hung <=> o.hung \/ Head(o.inbox).verb = config.hang_after_command
    /\ h.ignored = IF h.hung THEN Append(o.ignored, Head(o.inbox)) ELSE o.ignored
    /\ h.posting = FALSE

LEMMA AnswerIs ==
    ASSUME TypeOK, NEW c \in Conns, Idle(c), conn[c].inbox # <<>>,
           NEW g \in Session, NEW k \in Codes, Answer(c, Head(conn[c].inbox), k, g),
           g.at = conn[c].at, g.out = conn[c].out, g.inbox = conn[c].inbox,
           g.hung = conn[c].hung, g.ignored = conn[c].ignored, g.posting = FALSE
    PROVE  Becomes(c, conn'[c]) /\ Answered(conn[c], conn'[c], k)
<1> DEFINE cmd == Head(conn[c].inbox)
           hangs == g.hung \/ cmd.verb = config.hang_after_command
           h == [g EXCEPT !.inbox = Tail(@), !.cmd = cmd, !.hung = hangs,
                     !.pending = IF k \in Multi THEN <<k, "body">> ELSE <<k>>,
                     !.ignored = IF hangs THEN Append(@, cmd) ELSE @]
<1>1. conn' = [conn EXCEPT ![c] = h]
  BY DEF Answer
<1>2. /\ conn[c] \in Session /\ conn[c].inbox \in Seq(Cmds) /\ cmd \in Cmds
      /\ Tail(conn[c].inbox) \in Seq(Cmds)
      /\ conn[c].at = "open" /\ conn[c].pending = <<>>
  <2>1. conn[c] \in Session
    BY DEF TypeOK
  <2>2. conn[c].inbox \in Seq(Cmds)
    BY <2>1 DEF Session
  <2> QED
    BY <2>1, <2>2, HeadTailProperties DEF Idle
<1>3. g.inbox \in Seq(Cmds) /\ g.ignored \in Seq(Cmds)
  BY DEF Session
<1>4. (IF k \in Multi THEN <<k, "body">> ELSE <<k>>) \in Seq(Parts)
  <2>1. "body" \in Parts /\ k \in Parts
    BY DEF Parts
  <2>2. \A a, b \in Parts : <<a, b>> \in Seq(Parts) /\ <<a>> \in Seq(Parts)
    OBVIOUS
  <2> QED
    BY <2>1, <2>2
<1> HIDE DEF cmd
<1>5. (IF hangs THEN Append(g.ignored, cmd) ELSE g.ignored) \in Seq(Cmds)
  BY <1>2, <1>3, AppendProperties
<1>6. hangs \in BOOLEAN
  OBVIOUS
<1> HIDE DEF hangs
<1>7. h \in Session
  BY <1>2, <1>3, <1>4, <1>5, <1>6 DEF Session
<1>8. Becomes(c, h)
  BY <1>1, <1>7, BecomesIs
<1>9. /\ h.at = conn[c].at /\ h.out = conn[c].out /\ h.inbox = Tail(conn[c].inbox) /\ h.cmd = cmd
      /\ h.pending = (IF k \in Multi THEN <<k, "body">> ELSE <<k>>)
      /\ h.hung = hangs
      /\ h.ignored = (IF hangs THEN Append(conn[c].ignored, cmd) ELSE conn[c].ignored)
      /\ h.posting = FALSE
  BY DEF Session
<1> HIDE DEF h
<1>10. h.hung <=> conn[c].hung \/ cmd.verb = config.hang_after_command
  BY <1>9 DEF hangs
<1>11. conn'[c] = h
  BY <1>8 DEF Becomes
<1> QED
  BY <1>2, <1>8, <1>9, <1>10, <1>11 DEF Answered, cmd

-----------------------------------------------------------------------------
(* Steps of a session                                                       *)

\* A body follows the code k exactly if it does for the command cmd.
Fits(cmd, k) == k \in Multi <=> k \in BodyCodes(cmd)

LEMMA NoBody ==
    ASSUME NEW cmd, NEW k, k \notin Multi
    PROVE  Fits(cmd, k)
  BY DEF Fits, BodyCodes, Multi

\* A command is answered with a body exactly after its code for it; only POST
\* is answered 340.
LEMMA ServedIs ==
    ASSUME config \in Configs, NEW cmd, NEW group
    PROVE  /\ Served(cmd, group) \in Codes \ {"240"}
           /\ Served(cmd, group) = "340" => cmd.verb = "POST"
           /\ Fits(cmd, Served(cmd, group))
<1>1. config.overrides \in [DOMAIN config.overrides -> Injected]
  BY ConfigFacts
<1>2. \A k \in Injected : k # "240" /\ k # "340" /\ k \notin Multi
  BY InjectedAssumption
<1>3. CASE cmd.verb \in {"ARTICLE", "BODY", "STAT"}
  <2>1. Served(cmd, group) = ArticleCode(cmd)
    BY <1>3 DEF Served
  <2>2. ArticleCode(cmd) \in Injected \cup {"430", "220", "222", "223"}
    BY <1>1, <1>3 DEF ArticleCode
  <2>3. Fits(cmd, ArticleCode(cmd))
    <3>1. CASE cmd.arg \in DOMAIN config.overrides
      <4>1. ArticleCode(cmd) \in Injected
        BY <1>1, <3>1 DEF ArticleCode
      <4> QED
        BY <1>2, <4>1, NoBody
    <3>2. CASE cmd.arg \notin DOMAIN config.overrides
      BY <1>3, <3>2 DEF ArticleCode, Fits, BodyCodes, Multi
    <3> QED
      BY <3>1, <3>2
  <2> QED
    BY <1>2, <2>1, <2>2, <2>3 DEF Codes, Multi
<1>4. CASE cmd.verb \in {"GROUP", "XOVER", "HEAD", "XHDR", "XPAT", "LIST"}
  <2>1. Served(cmd, group) = ListingCode(cmd, group)
    BY <1>4 DEF Served, Guarded
  <2>2. ListingCode(cmd, group) \in {"211", "411", "423", "224", "420", "221", "500", "215"}
    BY <1>4 DEF ListingCode
  <2>3. Fits(cmd, ListingCode(cmd, group))
    BY <1>4 DEF ListingCode, Fits, BodyCodes, Multi
  <2> QED
    BY <2>1, <2>2, <2>3 DEF Codes, Multi
<1>5. CASE cmd.verb = "POST"
  <2>1. Served(cmd, group) \in {"440", "340"}
    BY <1>5 DEF Served, Guarded, PostCode
  <2> QED
    BY <1>5, <2>1, NoBody DEF Codes, Multi
<1>6. CASE cmd.verb \notin Guarded
  <2>1. Served(cmd, group) = SessionCode(cmd)
    BY <1>6 DEF Served, Guarded
  <2>2. SessionCode(cmd) \in {"205", "500", "101", "200", "501", "482", "381"}
    BY DEF SessionCode
  <2>3. Fits(cmd, SessionCode(cmd))
    BY <1>6 DEF SessionCode, Guarded, Fits, BodyCodes, Multi
  <2> QED
    BY <2>1, <2>2, <2>3 DEF Codes, Multi
<1> QED
  BY <1>3, <1>4, <1>5, <1>6 DEF Guarded

\* A command is read and answered.
Commanded(c, k) ==
    /\ k \in Codes \ {"240"}
    /\ k = "340" => Head(conn[c].inbox).verb = "POST"
    /\ Fits(Head(conn[c].inbox), k)
    /\ conn[c].posting = FALSE
    /\ Becomes(c, conn'[c]) /\ Answered(conn[c], conn'[c], k)

\* The session c and the first command in its inbox.
LEMMA Ready ==
    ASSUME TypeOK, NEW c \in Conns, Idle(c), conn[c].inbox # <<>>
    PROVE  /\ conn[c] \in Session /\ conn[c].inbox \in Seq(Cmds)
           /\ Head(conn[c].inbox) \in Cmds /\ conn[c].at = "open" /\ conn[c].pending = <<>>
           /\ conn[c].posting \in BOOLEAN /\ conn[c].auth \in BOOLEAN
<1>1. conn[c] \in Session
  BY DEF TypeOK
<1>2. conn[c].inbox \in Seq(Cmds) /\ conn[c].posting \in BOOLEAN /\ conn[c].auth \in BOOLEAN
  BY <1>1 DEF Session
<1> QED
  BY <1>1, <1>2, HeadTailProperties DEF Idle

LEMMA PassStep ==
    ASSUME TypeOK, NEW c \in Conns, Pass(c)
    PROVE  \E k \in {"281", "481"} : Commanded(c, k)
<1> DEFINE cmd     == Head(conn[c].inbox)
           limited == config.auth_rate_limit /\ CheckAndRecord(read[c])
           ok      == /\ ~limited /\ ~config.fail_auth
                      /\ config.valid_credentials => cmd.arg = "good"
           k       == IF ok THEN "281" ELSE "481"
           g       == [conn[c] EXCEPT !.auth = @ \/ ok]
<1>1. /\ Idle(c) /\ ~conn[c].posting /\ conn[c].inbox # <<>>
      /\ Answer(c, cmd, k, g)
  BY DEF Pass, AtPass
<1>2. ok \in BOOLEAN
  OBVIOUS
<1> HIDE DEF ok
<1>3. /\ g \in Session /\ g.at = conn[c].at /\ g.out = conn[c].out /\ g.inbox = conn[c].inbox
      /\ g.hung = conn[c].hung /\ g.ignored = conn[c].ignored /\ g.posting = conn[c].posting
      /\ conn[c].posting = FALSE
  BY <1>1, <1>2, Ready DEF Session
<1>4. k \in Codes \ {"240"} /\ k # "340" /\ k \in {"281", "481"} /\ Fits(cmd, k)
  BY NoBody DEF Codes, Multi
<1> HIDE DEF k, g
<1>5. Becomes(c, conn'[c]) /\ Answered(conn[c], conn'[c], k)
  BY <1>1, <1>3, <1>4, AnswerIs
<1>6. Commanded(c, k)
  BY <1>3, <1>4, <1>5 DEF Commanded
<1> QED
  BY <1>4, <1>6

LEMMA SequencedStep ==
    ASSUME TypeOK, NEW c \in Conns, ArticleSequenced(c)
    PROVE  LET m == Head(conn[c].inbox).arg
           IN  /\ m \in DOMAIN script /\ script[m] # <<>> /\ Head(script[m]) \in Injected
               /\ script[m] \in Seq(Injected) /\ script' = [script EXCEPT ![m] = Tail(@)]
               /\ Head(conn[c].inbox).verb = "ARTICLE"
               /\ Commanded(c, Head(script[m]))
<1> DEFINE cmd == Head(conn[c].inbox)
           k   == Head(script[cmd.arg])
<1>1. /\ Idle(c) /\ ~conn[c].posting /\ conn[c].inbox # <<>> /\ Sequenced(cmd)
      /\ Answer(c, cmd, k, conn[c]) /\ script' = PopFront(cmd.arg)
  BY DEF ArticleSequenced
<1>2. /\ cmd.verb = "ARTICLE" /\ cmd.arg \in DOMAIN script /\ script[cmd.arg] # <<>>
      /\ script' = [script EXCEPT ![cmd.arg] = Tail(@)]
  BY <1>1 DEF Sequenced, PopFront
<1>3. script[cmd.arg] \in Seq(Injected)
  BY <1>2 DEF TypeOK
<1>4. k \in Injected
  BY <1>2, <1>3, HeadTailProperties
<1>5. k \in Codes \ {"240"} /\ k # "340" /\ Fits(cmd, k)
  BY <1>4, InjectedAssumption, NoBody DEF Codes
<1>6. conn[c] \in Session /\ conn[c].posting = FALSE
  BY <1>1, Ready
<1> HIDE DEF k
<1>7. Becomes(c, conn'[c]) /\ Answered(conn[c], conn'[c], k)
  BY <1>1, <1>5, <1>6, AnswerIs
<1>8. Commanded(c, k)
  BY <1>5, <1>6, <1>7 DEF Commanded
<1> QED
  BY <1>2, <1>3, <1>4, <1>8 DEF k

LEMMA CommandStep ==
    ASSUME TypeOK, NEW c \in Conns, Command(c)
    PROVE  \E k : Commanded(c, k) /\ (Head(conn[c].inbox).verb = "ARTICLE" =>
                                       k = "480" \/ ~Sequenced(Head(conn[c].inbox)))
<1> DEFINE cmd == Head(conn[c].inbox)
           k   == IF cmd.verb \in Guarded /\ ~conn[c].auth THEN "480"
                  ELSE IF cmd.verb \in NeedGroup /\ conn[c].group = "-" THEN "412"
                  ELSE Served(cmd, conn[c].group)
           g   == [conn[c] EXCEPT !.group = IF k = "211" THEN cmd.arg ELSE @]
<1>1. /\ Idle(c) /\ ~conn[c].posting /\ conn[c].inbox # <<>>
      /\ ~(conn[c].auth /\ Sequenced(cmd))
      /\ Answer(c, cmd, k, g)
  BY DEF Command
<1>2. conn[c] \in Session /\ cmd \in Cmds /\ conn[c].posting = FALSE
  BY <1>1, Ready
<1>3. k \in Codes \ {"240"} /\ (k = "340" => cmd.verb = "POST") /\ Fits(cmd, k)
  <2>1. /\ Served(cmd, conn[c].group) \in Codes \ {"240"}
        /\ Served(cmd, conn[c].group) = "340" => cmd.verb = "POST"
        /\ Fits(cmd, Served(cmd, conn[c].group))
    BY ServedIs DEF TypeOK
  <2>2. Fits(cmd, "480") /\ Fits(cmd, "412")
    BY NoBody DEF Multi
  <2> QED
    BY <2>1, <2>2 DEF Codes
<1>4. cmd.verb = "ARTICLE" => k = "480" \/ ~Sequenced(cmd)
  BY <1>1 DEF Guarded
<1> HIDE DEF k
<1>5. cmd.arg \in Groups
  BY <1>2 DEF Groups
<1> HIDE DEF cmd
<1>6. /\ g \in Session /\ g.at = conn[c].at /\ g.out = conn[c].out /\ g.inbox = conn[c].inbox
      /\ g.hung = conn[c].hung /\ g.ignored = conn[c].ignored /\ g.posting = FALSE
  BY <1>2, <1>5 DEF Session
<1> HIDE DEF g
<1>7. Becomes(c, conn'[c]) /\ Answered(conn[c], conn'[c], k)
  BY <1>1, <1>3, <1>6, AnswerIs DEF cmd
<1>8. Commanded(c, k)
  BY <1>2, <1>3, <1>7 DEF Commanded, cmd
<1> QED
  BY <1>4, <1>8 DEF cmd

LEMMA CapturedStep ==
    ASSUME TypeOK, NEW c \in Conns, Captured(c)
    PROVE  /\ conn[c].posting = TRUE /\ posted' = Append(posted, c)
           /\ Becomes(c, conn'[c]) /\ Answered(conn[c], conn'[c], "240")
<1> DEFINE g == [conn[c] EXCEPT !.posting = FALSE]
<1>1. /\ Idle(c) /\ conn[c].posting /\ conn[c].inbox # <<>> /\ posted' = Append(posted, c)
      /\ Answer(c, Head(conn[c].inbox), "240", g)
  BY DEF Captured
<1>2. conn[c] \in Session /\ conn[c].posting = TRUE
  BY <1>1, Ready
<1>3. /\ g \in Session /\ g.at = conn[c].at /\ g.out = conn[c].out /\ g.inbox = conn[c].inbox
      /\ g.hung = conn[c].hung /\ g.ignored = conn[c].ignored /\ g.posting = FALSE
  BY <1>2 DEF Session
<1>4. "240" \in Codes
  BY DEF Codes
<1> HIDE DEF g
<1> QED
  BY <1>1, <1>2, <1>3, <1>4, AnswerIs

\* What a session keeps when it writes, and when it is over.
Kept(o, h) ==
    h.cmd = o.cmd /\ h.hung = o.hung /\ h.ignored = o.ignored

Gone(o, h) ==
    /\ o.at \in {"open", "closing"} /\ h.at = "closed" /\ h.inbox = <<>> /\ h.pending = <<>>
    /\ h.out = o.out /\ h.posting = o.posting /\ Kept(o, h)

\* The first part that is due is behind, written or not.
Passed(o, h) ==
    LET p == Head(o.pending)
        one == p = "banner" \/ ~(Len(o.pending) > 1)
    IN  /\ o.at = "open" /\ o.pending # <<>>
        /\ h.at \in {"open", "closing"} /\ h.inbox = o.inbox /\ Kept(o, h)
        /\ h.pending = IF one THEN <<>> ELSE Tail(o.pending)
        /\ h.posting = IF one /\ p = "340" THEN TRUE ELSE o.posting
        /\ h.out = IF o.hung \/ p = "banner" THEN o.out
                   ELSE Append(o.out, [for |-> o.cmd, kind |-> p])

\* A command arrives.
Said(o, h, cmd) ==
    /\ o.at = "open" /\ h.at = "open" /\ h.inbox = Append(o.inbox, cmd)
    /\ h.pending = o.pending /\ h.out = o.out /\ h.posting = o.posting /\ Kept(o, h)

LEMMA GoneIs ==
    ASSUME TypeOK, NEW c \in Conns, conn' = [conn EXCEPT ![c] = Closed(@)],
           conn[c].at \in {"open", "closing"}
    PROVE  Becomes(c, conn'[c]) /\ Gone(conn[c], conn'[c])
<1> DEFINE h == Closed(conn[c])
<1>1. conn[c] \in Session
  BY DEF TypeOK
<1>2. <<>> \in Seq(Cmds) /\ <<>> \in Seq(Parts)
  OBVIOUS
<1>3. h \in Session
  BY <1>1, <1>2 DEF Closed, Session
<1>4. Becomes(c, h)
  BY <1>3, BecomesIs
<1>5. conn'[c] = h
  BY <1>4 DEF Becomes
<1>6. Gone(conn[c], h)
  BY <1>1 DEF Gone, Kept, Closed, Session
<1> HIDE DEF h
<1> QED
  BY <1>4, <1>5, <1>6

\* The session g, with the part p of its answer behind it.
PartBehind(g, p, h) ==
    LET one == p = "banner" \/ ~(Len(g.pending) > 1)
    IN  /\ h \in Session
        /\ h.at \in {"open", "closing"} /\ h.inbox = g.inbox /\ Kept(g, h)
        /\ h.pending = IF one THEN <<>> ELSE Tail(g.pending)
        /\ h.posting = IF one /\ p = "340" THEN TRUE ELSE g.posting
        /\ h.out = g.out

LEMMA BehindIs ==
    ASSUME NEW g \in Session, g.at = "open", g.pending # <<>>, NEW p, p = Head(g.pending)
    PROVE  PartBehind(g, p, Behind(g, p))
<1> DEFINE h == Behind(g, p)
<1>1. <<>> \in Seq(Parts) /\ Tail(g.pending) \in Seq(Parts) /\ g.processed + 1 \in Nat
  <2>1. g.pending \in Seq(Parts) /\ g.processed \in Nat
    BY DEF Session
  <2> QED
    BY <2>1, HeadTailProperties
<1>2. CASE p = "banner"
  <2>1. h = [g EXCEPT !.pending = <<>>]
    BY <1>2 DEF Behind
  <2> QED
    BY <1>1, <1>2, <2>1 DEF Session, Kept, PartBehind
<1>3. CASE p # "banner" /\ Len(g.pending) > 1
  <2>1. h = [g EXCEPT !.pending = Tail(@)]
    BY <1>3 DEF Behind
  <2> QED
    BY <1>1, <1>3, <2>1 DEF Session, Kept, PartBehind
<1>4. CASE p = "340" /\ ~(Len(g.pending) > 1)
  <2>1. h = [g EXCEPT !.pending = <<>>, !.posting = TRUE]
    BY <1>4 DEF Behind
  <2> QED
    BY <1>1, <1>4, <2>1 DEF Session, Kept, PartBehind
<1>5. CASE p # "banner" /\ p # "340" /\ ~(Len(g.pending) > 1)
  <2> DEFINE over == g.cmd.verb = "QUIT" \/ g.processed + 1 >= config.close_after_n_commands
             at == IF over THEN "closing" ELSE g.at
  <2>1. h = [g EXCEPT !.pending = <<>>, !.processed = @ + 1, !.at = at]
    BY <1>5 DEF Behind
  <2>2. at \in {"open", "closing"}
    OBVIOUS
  <2> HIDE DEF at
  <2> QED
    BY <1>1, <1>5, <2>1, <2>2 DEF Session, Kept, PartBehind
<1> QED
  BY <1>2, <1>3, <1>4, <1>5

LEMMA WriteStep ==
    ASSUME TypeOK, NEW c \in Conns, Write(c)
    PROVE  /\ Becomes(c, conn'[c])
           /\ (Gone(conn[c], conn'[c]) /\ ~conn[c].hung) \/ Passed(conn[c], conn'[c])
<1> DEFINE g == conn[c]
           p == Head(g.pending)
           room == config.silent_close_after_bytes - g.written
           part == [for |-> g.cmd, kind |-> p]
           wrote == [g EXCEPT !.out = IF p = "banner" THEN @ ELSE Append(@, part),
                              !.written = @ + 2]
<1>1. /\ g.at = "open" /\ g.pending # <<>>
      /\ conn' = [conn EXCEPT ![c] = IF g.hung THEN Behind(g, p)
                                     ELSE IF room >= 2 THEN Behind(wrote, p)
                                     ELSE Closed(g)]
  BY DEF Write, Part
<1>2. g \in Session /\ g.pending \in Seq(Parts) /\ g.cmd \in Cmds /\ g.out \in Seq(Reply)
      /\ g.written \in Nat
  <2>1. g \in Session
    BY DEF TypeOK
  <2> QED
    BY <2>1 DEF Session
<1>3. p \in Parts
  BY <1>1, <1>2, HeadTailProperties
<1> HIDE DEF g
<1>4. CASE g.hung
  <2> DEFINE h == Behind(g, p)
  <2>1. conn' = [conn EXCEPT ![c] = h]
    BY <1>1, <1>4
  <2>2. /\ h \in Session /\ Passed(g, h)
    BY <1>1, <1>2, <1>4, BehindIs DEF Passed, PartBehind
  <2> HIDE DEF h
  <2>3. Becomes(c, h)
    BY <2>1, <2>2, BecomesIs
  <2>4. conn'[c] = h
    BY <2>3 DEF Becomes
  <2> QED
    BY <2>2, <2>3, <2>4 DEF g
<1>5. CASE ~g.hung /\ room >= 2
  <2> DEFINE h == Behind(wrote, p)
  <2>1. conn' = [conn EXCEPT ![c] = h]
    BY <1>1, <1>5
  <2>2. part \in Reply
    BY <1>2, <1>3 DEF Reply
  <2>3. Append(g.out, part) \in Seq(Reply) /\ g.written + 2 \in Nat
    BY <1>2, <2>2, AppendProperties
  <2> HIDE DEF p, part
  <2>4. /\ wrote \in Session /\ wrote.at = "open" /\ wrote.pending = g.pending
        /\ wrote.inbox = g.inbox /\ wrote.posting = g.posting /\ Kept(g, wrote)
        /\ wrote.out = IF p = "banner" THEN g.out ELSE Append(g.out, part)
    BY <1>1, <1>2, <2>3 DEF Session, Kept
  <2> HIDE DEF wrote
  <2>5. /\ h \in Session
        /\ h.at \in {"open", "closing"} /\ h.inbox = g.inbox /\ Kept(g, h)
        /\ h.pending = IF p = "banner" \/ ~(Len(g.pending) > 1) THEN <<>> ELSE Tail(g.pending)
        /\ h.posting = IF (p = "banner" \/ ~(Len(g.pending) > 1)) /\ p = "340" THEN TRUE
                       ELSE g.posting
        /\ h.out = IF p = "banner" THEN g.out ELSE Append(g.out, part)
    <3>1. p = Head(wrote.pending) /\ wrote.pending # <<>>
      BY <1>1, <2>4 DEF p
    <3>2. PartBehind(wrote, p, h)
      BY <2>4, <3>1, BehindIs
    <3> HIDE DEF h
    <3> QED
      BY <2>4, <3>2 DEF Kept, PartBehind
  <2> HIDE DEF h
  <2>6. Passed(g, h)
    BY <1>1, <1>5, <2>5 DEF Passed, p, part
  <2>7. Becomes(c, h)
    BY <2>1, <2>5, BecomesIs
  <2>8. conn'[c] = h
    BY <2>7 DEF Becomes
  <2> QED
    BY <2>6, <2>7, <2>8 DEF g
<1>6. CASE ~g.hung /\ ~(room >= 2)
  <2>1. conn' = [conn EXCEPT ![c] = Closed(@)]
    BY <1>1, <1>6 DEF g
  <2>2. Becomes(c, conn'[c]) /\ Gone(conn[c], conn'[c])
    BY <1>1, <2>1, GoneIs DEF g
  <2> QED
    BY <1>6, <2>2 DEF g
<1> QED
  BY <1>4, <1>5, <1>6

LEMMA EndStep ==
    ASSUME TypeOK, NEW c \in Conns, WriteFails(c) \/ Close(c)
    PROVE  /\ Becomes(c, conn'[c]) /\ Gone(conn[c], conn'[c])
           /\ conn[c].pending # <<>> => ~conn[c].hung \/ conn[c].at = "closing"
<1>1. conn' = [conn EXCEPT ![c] = Closed(@)] /\ conn[c].at \in {"open", "closing"}
  BY DEF WriteFails, Close, Idle
<1>2. conn[c].pending # <<>> => ~conn[c].hung \/ conn[c].at = "closing"
  BY DEF WriteFails, Close, Idle
<1> QED
  BY <1>1, <1>2, GoneIs

LEMMA SaysIs ==
    ASSUME TypeOK, NEW c \in Conns, NEW cmd \in Cmds, Says(c, cmd), conn[c].at = "open"
    PROVE  Becomes(c, conn'[c]) /\ Said(conn[c], conn'[c], cmd)
<1> DEFINE h == [conn[c] EXCEPT !.inbox = Append(@, cmd), !.sent = @ + 1]
<1>1. conn[c] \in Session
  BY DEF TypeOK
<1>2. Append(conn[c].inbox, cmd) \in Seq(Cmds) /\ conn[c].sent + 1 \in Nat
  BY <1>1, AppendProperties DEF Session
<1>3. h \in Session
  BY <1>1, <1>2 DEF Session
<1>4. conn' = [conn EXCEPT ![c] = h]
  BY DEF Says
<1>5. Said(conn[c], h, cmd)
  BY <1>1 DEF Said, Kept, Session
<1> HIDE DEF h
<1>6. Becomes(c, h)
  BY <1>3, <1>4, BecomesIs
<1>7. conn'[c] = h
  BY <1>6 DEF Becomes
<1> QED
  BY <1>5, <1>6, <1>7

\* A client goes away.
Same(o, h) ==
    /\ h.at = o.at /\ h.inbox = o.inbox /\ h.pending = o.pending /\ h.out = o.out
    /\ h.posting = o.posting /\ Kept(o, h)

LEMMA LeaveStep ==
    ASSUME TypeOK, NEW c \in Conns, Leave(c)
    PROVE  Becomes(c, conn'[c]) /\ Same(conn[c], conn'[c])
<1> DEFINE h == [conn[c] EXCEPT !.left = TRUE]
<1>1. conn[c] \in Session
  BY DEF TypeOK
<1>2. h \in Session /\ Same(conn[c], h)
  BY <1>1 DEF Session, Same, Kept
<1>3. conn' = [conn EXCEPT ![c] = h]
  BY DEF Leave
<1> HIDE DEF h
<1>4. Becomes(c, h)
  BY <1>2, <1>3, BecomesIs
<1>5. conn'[c] = h
  BY <1>4 DEF Becomes
<1> QED
  BY <1>2, <1>4, <1>5

\* A session that begins.
Begun(h) ==
    /\ h.out = <<>> /\ h.inbox = <<>> /\ h.ignored = <<>> /\ h.cmd = NoCmd
    /\ h.hung = FALSE /\ h.posting = FALSE
    /\ \/ h.at \in {"none", "closed"} /\ h.pending = <<>>
       \/ h.at = "open" /\ h.pending = <<"banner">>

LEMMA FreshIs ==
    ASSUME config \in Configs, NEW st \in {"none", "open", "closed"}
    PROVE  /\ Fresh(st) \in Session /\ Fresh(st).at = st /\ Fresh(st).pending = <<>>
           /\ Fresh(st).out = <<>> /\ Fresh(st).inbox = <<>> /\ Fresh(st).ignored = <<>>
           /\ Fresh(st).cmd = NoCmd /\ Fresh(st).hung = FALSE /\ Fresh(st).posting = FALSE
<1>1. <<>> \in Seq(Cmds) /\ <<>> \in Seq(Parts) /\ <<>> \in Seq(Reply)
  OBVIOUS
<1>2. NoCmd \in Cmds
  BY DEF Cmds
<1>3. "-" \in Groups
  BY DEF Groups
<1> DEFINE auth == ~config.auth_required
<1>4. auth \in BOOLEAN
  OBVIOUS
<1>5. Fresh(st) = [at |-> st, auth |-> auth, group |-> "-", hung |-> FALSE,
                   posting |-> FALSE, processed |-> 0, written |-> 0, left |-> FALSE, sent |-> 0,
                   inbox |-> <<>>, cmd |-> NoCmd, pending |-> <<>>, out |-> <<>>, ignored |-> <<>>]
  BY DEF Fresh
<1> HIDE DEF auth
<1> QED
  BY <1>1, <1>2, <1>3, <1>4, <1>5 DEF Session

LEMMA AcceptStep ==
    ASSUME TypeOK, NEW c \in Conns, Accept(c)
    PROVE  Becomes(c, conn'[c]) /\ Begun(conn'[c]) /\ conn'[c].at # "none" /\ conn[c].at = "none"
<1> DEFINE h == IF config.service_unavailable THEN Fresh("closed")
                ELSE [Fresh("open") EXCEPT !.pending = <<"banner">>]
<1>1. conn' = [conn EXCEPT ![c] = h] /\ conn[c].at = "none"
  BY DEF Accept
<1>2. h \in Session /\ Begun(h) /\ h.at # "none"
  <2>1. <<"banner">> \in Seq(Parts)
    BY DEF Parts
  <2>2. CASE config.service_unavailable
    BY <2>2, FreshIs DEF TypeOK, Begun
  <2>3. CASE ~config.service_unavailable
    <3> DEFINE f == Fresh("open")
    <3>1. /\ f \in Session /\ f.at = "open" /\ f.out = <<>> /\ f.inbox = <<>> /\ f.ignored = <<>>
          /\ f.cmd = NoCmd /\ f.hung = FALSE /\ f.posting = FALSE
      BY FreshIs DEF TypeOK
    <3> HIDE DEF f
    <3>2. h = [f EXCEPT !.pending = <<"banner">>]
      BY <2>3 DEF f
    <3> QED
      BY <2>1, <3>1, <3>2 DEF Begun, Session
  <2> QED
    BY <2>2, <2>3
<1> HIDE DEF h
<1>3. Becomes(c, h)
  BY <1>1, <1>2, BecomesIs
<1>4. conn'[c] = h
  BY <1>3 DEF Becomes
<1> QED
  BY <1>1, <1>2, <1>3, <1>4

-----------------------------------------------------------------------------
(* Steps of the server                                                      *)

\* What may be said: nothing behind POST but its article.
Heard(o, cmd) ==
    \/ /\ cmd.verb \notin {"-", "text"}
       /\ \A i \in DOMAIN o.inbox : o.inbox[i].verb # "POST"
       /\ o.cmd.verb # "POST" \/ (o.pending = <<>> /\ o.posting = FALSE)
    \/ /\ cmd = Text /\ o.posting = TRUE /\ o.inbox = <<>>
       /\ o.out # <<>> /\ o.out[Len(o.out)].kind = "340"

\* A session o becomes h.
Move(o, h) ==
    \/ o.at = "none" /\ Begun(h)
    \/ \E cmd \in Cmds : Said(o, h, cmd) /\ Heard(o, cmd)
    \/ Same(o, h)
    \/ \E k \in Codes \ {"240"} :
          /\ k = "340" => Head(o.inbox).verb = "POST"
          /\ Fits(Head(o.inbox), k)
          /\ o.posting = FALSE /\ Answered(o, h, k)
    \/ o.posting = TRUE /\ Answered(o, h, "240")
    \/ Passed(o, h)
    \/ Gone(o, h)

LEMMA SendStep ==
    ASSUME TypeOK, NEW c \in Conns, NEW cmd \in config.menu, Send(c, cmd)
    PROVE  Becomes(c, conn'[c]) /\ Said(conn[c], conn'[c], cmd) /\ Heard(conn[c], cmd) /\ cmd \in Cmds
<1>1. cmd \in Cmds /\ cmd.verb \notin {"-", "text"}
  BY ConfigFacts DEF TypeOK
<1>2. Says(c, cmd) /\ conn[c].at = "open"
  BY DEF Send
<1>3. conn[c].posting \in BOOLEAN
  BY DEF TypeOK, Session
<1>4. Heard(conn[c], cmd)
  BY <1>1, <1>3 DEF Send, Heard
<1> QED
  BY <1>1, <1>2, <1>4, SaysIs

LEMMA ArticleStep ==
    ASSUME TypeOK, NEW c \in Conns, SendArticle(c)
    PROVE  Becomes(c, conn'[c]) /\ Said(conn[c], conn'[c], Text) /\ Heard(conn[c], Text) /\ Text \in Cmds
<1>1. Text \in Cmds
  BY DEF Cmds
<1>2. Says(c, Text) /\ conn[c].at = "open"
  BY DEF SendArticle
<1>3. conn[c].posting \in BOOLEAN
  BY DEF TypeOK, Session
<1>4. Heard(conn[c], Text)
  BY <1>3 DEF SendArticle, Heard
<1> QED
  BY <1>1, <1>2, <1>4, SaysIs

\* A command is answered as it is without one-shot answers.
Unscripted(c, k) ==
    Head(conn[c].inbox).verb = "ARTICLE" => k = "480" \/ ~Sequenced(Head(conn[c].inbox))

\* A step of a session that neither takes a one-shot answer nor keeps an article.
Plain(c) ==
    /\ Becomes(c, conn'[c]) /\ UNCHANGED <<posted, script, scripted>>
    /\ \/ conn[c].at = "none" /\ Begun(conn'[c])
       \/ \E cmd \in config.menu \cup {Text} : Said(conn[c], conn'[c], cmd) /\ Heard(conn[c], cmd)
       \/ Same(conn[c], conn'[c])
       \/ \E k : Commanded(c, k) /\ Unscripted(c, k)
       \/ Passed(conn[c], conn'[c])
       \/ Gone(conn[c], conn'[c])

LEMMA Steps ==
    ASSUME TypeOK, [Next]_vars
    PROVE  \/ UNCHANGED <<conn, posted, script, scripted>>
           \/ \E c \in Conns : Plain(c) \/ ArticleSequenced(c) \/ Captured(c)
<1>1. CASE Tick \/ UNCHANGED vars \/ \E c \in Conns : ReadClock(c)
  BY <1>1 DEF Tick, ReadClock, vars, shared, history
<1>2. ASSUME NEW c \in Conns, Accept(c)
      PROVE  Plain(c)
  BY <1>2, AcceptStep DEF Plain, Accept, shared, history
<1>3. ASSUME NEW c \in Conns, SendArticle(c)
      PROVE  Plain(c)
  <2>1. UNCHANGED <<posted, script, scripted>>
    BY <1>3 DEF SendArticle, shared, history
  <2> QED
    BY <1>3, <2>1, ArticleStep DEF Plain
<1>4. ASSUME NEW c \in Conns, Leave(c)
      PROVE  Plain(c)
  BY <1>4, LeaveStep DEF Plain, Leave, shared, history
<1>5. ASSUME NEW c \in Conns, NEW cmd \in config.menu, Send(c, cmd)
      PROVE  Plain(c)
  <2>1. UNCHANGED <<posted, script, scripted>>
    BY <1>5 DEF Send, shared, history
  <2> QED
    BY <1>5, <2>1, SendStep DEF Plain
<1>6. ASSUME NEW c \in Conns, Pass(c)
      PROVE  Plain(c)
  <2>1. UNCHANGED <<posted, script, scripted>>
    BY <1>6 DEF Pass
  <2>2. Head(conn[c].inbox).verb = "PASS"
    BY <1>6 DEF Pass, AtPass
  <2>3. PICK k : Commanded(c, k)
    BY <1>6, PassStep
  <2>4. Unscripted(c, k)
    BY <2>2 DEF Unscripted
  <2>5. Becomes(c, conn'[c])
    BY <2>3 DEF Commanded
  <2> QED
    BY <2>1, <2>3, <2>4, <2>5 DEF Plain
<1>7. ASSUME NEW c \in Conns, Command(c)
      PROVE  Plain(c)
  <2>1. UNCHANGED <<posted, script, scripted>>
    BY <1>7 DEF Command, shared, history
  <2>2. PICK k : Commanded(c, k) /\ Unscripted(c, k)
    BY <1>7, CommandStep DEF Unscripted
  <2>3. Becomes(c, conn'[c])
    BY <2>2 DEF Commanded
  <2> QED
    BY <2>1, <2>2, <2>3 DEF Plain
<1>8. ASSUME NEW c \in Conns, Write(c)
      PROVE  Plain(c)
  BY <1>8, WriteStep DEF Plain, Write, shared, history
<1>9. ASSUME NEW c \in Conns, WriteFails(c) \/ Close(c)
      PROVE  Plain(c)
  <2>1. UNCHANGED <<posted, script, scripted>>
    BY <1>9 DEF WriteFails, Close, shared, history
  <2> QED
    BY <1>9, <2>1, EndStep DEF Plain
<1> QED
  BY <1>1, <1>2, <1>3, <1>4, <1>5, <1>6, <1>7, <1>8, <1>9 DEF Next

LEMMA CommandedMove ==
    ASSUME NEW c, NEW k, Commanded(c, k)
    PROVE  Move(conn[c], conn'[c])
  BY DEF Commanded, Move

LEMMA Moves ==
    ASSUME TypeOK, [Next]_vars
    PROVE  conn' = conn \/ \E c \in Conns : Becomes(c, conn'[c]) /\ Move(conn[c], conn'[c])
<1>1. ASSUME NEW c \in Conns, Plain(c)
      PROVE  Becomes(c, conn'[c]) /\ Move(conn[c], conn'[c])
  <2>1. Becomes(c, conn'[c])
    BY <1>1 DEF Plain
  <2>2. CASE \E k : Commanded(c, k)
    BY <2>1, <2>2, CommandedMove
  <2>3. CASE ~\E k : Commanded(c, k)
    <3>1. \A cmd \in config.menu \cup {Text} : cmd \in Cmds
      BY ConfigFacts DEF TypeOK, Cmds
    <3> QED
      BY <1>1, <2>1, <2>3, <3>1 DEF Plain, Move
  <2> QED
    BY <2>2, <2>3
<1>2. ASSUME NEW c \in Conns, ArticleSequenced(c)
      PROVE  Becomes(c, conn'[c]) /\ Move(conn[c], conn'[c])
  <2>1. PICK k : Commanded(c, k)
    BY <1>2, SequencedStep
  <2> QED
    BY <2>1, CommandedMove DEF Commanded
<1>3. ASSUME NEW c \in Conns, Captured(c)
      PROVE  Becomes(c, conn'[c]) /\ Move(conn[c], conn'[c])
  BY <1>3, CapturedStep DEF Move
<1> QED
  BY <1>1, <1>2, <1>3, Steps

LEMMA LeastOf ==
    ASSUME NEW T \in SUBSET Nat, T # {}
    PROVE  \E x \in T : \A y \in T : x <= y
<1>1. PICK x \in T : \A y \in T : ~ (<<y, x>> \in OpToRel(<, Nat))
  BY NatLessThanWellFounded, WFMin
<1>2. \A y \in T : ~ (y < x)
  BY <1>1 DEF OpToRel
<1> QED
  BY <1>2

\* What is left at t of a window, and what fell out of it.
Dropped(s, t, k) ==
    /\ k \in 0..Len(s) /\ Recent(s, t) = SubSeq(s, k + 1, Len(s))
    /\ \A j \in 1..k : t - s[j] > RateWindow
    /\ k < Len(s) => t - s[k + 1] <= RateWindow

LEMMA RecentIs ==
    ASSUME NEW t \in Nat, NEW s \in Seq(Nat)
    PROVE  \E k : Dropped(s, t, k)
<1> DEFINE T == {i \in DOMAIN s : t - s[i] <= RateWindow}
<1>1. Len(s) \in Nat /\ DOMAIN s = 1..Len(s) /\ \A i \in DOMAIN s : s[i] \in Nat
  OBVIOUS
<1>2. RateWindow \in Nat
  BY LimitsAssumption
<1>3. CASE T = {}
  <2>1. Recent(s, t) = <<>>
    BY <1>3 DEF Recent
  <2>2. SubSeq(s, Len(s) + 1, Len(s)) = <<>>
    BY <1>1, SubSeqEmpty
  <2>3. \A j \in 1..Len(s) : t - s[j] > RateWindow
    BY <1>1, <1>2, <1>3
  <2>4. Dropped(s, t, Len(s))
    BY <1>1, <2>1, <2>2, <2>3 DEF Dropped
  <2> QED
    BY <2>4
<1>4. CASE T # {}
  <2> DEFINE First(i) == t - s[i] <= RateWindow /\ \A j \in 1..(i - 1) : t - s[j] > RateWindow
  <2>1. T \in SUBSET Nat
    BY <1>1
  <2>2. PICK i \in T : \A j \in T : i <= j
    BY <1>4, <2>1, LeastOf
  <2>3. i \in DOMAIN s /\ First(i)
    <3>1. i \in 1..Len(s) /\ t - s[i] <= RateWindow
      BY <1>1, <2>2
    <3>2. ASSUME NEW j \in 1..(i - 1)
          PROVE  t - s[j] > RateWindow
      <4>1. j \in 1..Len(s) /\ j < i
        BY <1>1, <3>1
      <4>2. j \notin T
        BY <2>1, <2>2, <3>1, <4>1
      <4> QED
        BY <1>1, <1>2, <4>1, <4>2
    <3> QED
      BY <1>1, <3>1, <3>2
  <2>4. Recent(s, t) = SubSeq(s, CHOOSE x \in DOMAIN s : First(x), Len(s))
    BY <2>3 DEF Recent
  <2> DEFINE f == CHOOSE x \in DOMAIN s : First(x)
  <2>5. f \in DOMAIN s /\ First(f)
    BY <2>3
  <2>6. PICK k : k = f - 1
    OBVIOUS
  <2> HIDE DEF f
  <2>7. k \in 0..Len(s) /\ k + 1 = f /\ k < Len(s)
    BY <1>1, <2>5, <2>6
  <2>8. Dropped(s, t, k)
    BY <2>4, <2>5, <2>6, <2>7 DEF Dropped, f
  <2> QED
    BY <2>8
<1> QED
  BY <1>3, <1>4

LEMMA RecentType ==
    ASSUME NEW t \in Nat, NEW s \in Seq(Nat)
    PROVE  Recent(s, t) \in Seq(Nat)
<1>1. PICK k : Dropped(s, t, k)
  BY RecentIs
<1>2. /\ k \in 0..Len(s) /\ Recent(s, t) = SubSeq(s, k + 1, Len(s))
  BY <1>1 DEF Dropped
<1>3. Len(s) \in Nat /\ \A i \in 1..Len(s) : s[i] \in Nat
  OBVIOUS
<1>4. SubSeq(s, k + 1, Len(s)) \in Seq(Nat)
  BY <1>2, <1>3, SubSeqProperties
<1> QED
  BY <1>2, <1>4

LEMMA TypeInit == Init => TypeOK
<1> SUFFICES ASSUME Init PROVE TypeOK
  OBVIOUS
<1>1. config \in Configs /\ now = 0 /\ read = [c \in Conns |-> NotRead] /\ attempts = <<>> /\ posted = <<>> /\ tries = <<>> /\ scripted = <<>>
  BY DEF Init
<1>2. config.script \in [DOMAIN config.script -> Seq(Injected)] /\ script = config.script
  BY <1>1, ConfigFacts DEF Init
<1>3. conn \in [Conns -> Session]
  <2>1. Fresh("none") \in Session
    BY <1>1, FreshIs
  <2> QED
    BY <2>1 DEF Init
<1>4. attempts \in Seq(Nat) /\ posted \in Seq(Conns) /\ tries \in Seq(Try) /\ scripted \in Seq(Item)
  BY <1>1
<1> QED
  BY <1>1, <1>2, <1>3, <1>4 DEF TypeOK

\* What a step leaves alone unless it is one of those that change it.
LEMMA Leaves ==
    ASSUME [Next]_vars
    PROVE  /\ config' = config
           /\ \/ UNCHANGED <<attempts, tries>>
              \/ \E c \in Conns : Pass(c) /\ config.auth_rate_limit
           /\ read' = read \/ \E c \in Conns : ReadClock(c) \/ (Pass(c) /\ config.auth_rate_limit)
           /\ \/ UNCHANGED <<script, scripted>>
              \/ \E c \in Conns : ArticleSequenced(c)
           /\ posted' = posted \/ \E c \in Conns : Captured(c)
           /\ now' = now \/ Tick
<1>1. CASE UNCHANGED vars
  BY <1>1 DEF vars, shared, history, clocks
<1>2. CASE Tick
  BY <1>2 DEF Tick, shared, history
<1>3. ASSUME NEW c \in Conns,
             \/ Accept(c) \/ SendArticle(c) \/ Leave(c)
             \/ \E cmd \in config.menu : Send(c, cmd)
             \/ Command(c) \/ Write(c) \/ WriteFails(c) \/ Close(c)
      PROVE  UNCHANGED <<config, attempts, tries, script, scripted, posted, now, read>>
  BY <1>3 DEF Accept, SendArticle, Leave, Send, Command, Write, WriteFails, Close, shared, history, clocks
<1>4. ASSUME NEW c \in Conns, Pass(c)
      PROVE  /\ UNCHANGED <<config, script, scripted, posted, now>>
             /\ config.auth_rate_limit \/ UNCHANGED <<attempts, tries, read>>
  BY <1>4 DEF Pass
<1>5. ASSUME NEW c \in Conns, ArticleSequenced(c)
      PROVE  UNCHANGED <<config, attempts, tries, posted, now, read>>
  BY <1>5 DEF ArticleSequenced, clocks
<1>6. ASSUME NEW c \in Conns, Captured(c)
      PROVE  UNCHANGED <<config, attempts, tries, script, scripted, now, read>>
  BY <1>6 DEF Captured, history, clocks
<1>7. ASSUME NEW c \in Conns, ReadClock(c)
      PROVE  UNCHANGED <<config, attempts, tries, script, scripted, posted, now>>
  BY <1>7 DEF ReadClock, shared, history
<1>8. ASSUME NEW c \in Conns,
             \/ Accept(c) \/ SendArticle(c) \/ Leave(c)
             \/ \E cmd \in config.menu : Send(c, cmd)
             \/ ReadClock(c) \/ Pass(c) \/ ArticleSequenced(c) \/ Command(c) \/ Captured(c)
             \/ Write(c) \/ WriteFails(c) \/ Close(c)
      PROVE  /\ config' = config
             /\ UNCHANGED <<attempts, tries>> \/ (Pass(c) /\ config.auth_rate_limit)
             /\ read' = read \/ ReadClock(c) \/ (Pass(c) /\ config.auth_rate_limit)
             /\ UNCHANGED <<script, scripted>> \/ ArticleSequenced(c)
             /\ posted' = posted \/ Captured(c)
             /\ now' = now
  BY <1>3, <1>4, <1>5, <1>6, <1>7, <1>8
<1> QED
  BY <1>1, <1>2, <1>8 DEF Next

\* An AUTHINFO PASS is recorded.
LEMMA PassIs ==
    ASSUME TypeOK, NEW c \in Conns, Pass(c), config.auth_rate_limit
    PROVE  \E t \in Nat, l \in BOOLEAN :
              /\ l <=> Len(Append(Recent(attempts, t), t)) > MaxAttempts
              /\ tries' = Append(tries, [conn |-> c, time |-> t, limited |-> l])
              /\ attempts' = Append(Recent(attempts, t), t)
<1> DEFINE l == config.auth_rate_limit /\ CheckAndRecord(read[c])
<1>1. /\ tries' = Append(tries, [conn |-> c, time |-> read[c], limited |-> l])
      /\ attempts' = Append(Recent(attempts, read[c]), read[c])
      /\ read[c] # NotRead
  BY DEF Pass
<1>2. read[c] \in Nat
  BY <1>1 DEF TypeOK
<1>3. l \in BOOLEAN /\ (l <=> Len(Append(Recent(attempts, read[c]), read[c])) > MaxAttempts)
  BY DEF CheckAndRecord
<1> HIDE DEF l
<1> QED
  BY <1>1, <1>2, <1>3

\* A one-shot answer is taken.
LEMMA TakenStep ==
    ASSUME TypeOK, NEW c \in Conns, ArticleSequenced(c)
    PROVE  \E e \in Item :
              /\ scripted' = Append(scripted, e)
              /\ e.conn = c /\ e.place = Len(conn[c].out) + 1
              /\ e.mid = Head(conn[c].inbox).arg /\ e.mid \in DOMAIN script
              /\ e.code = Head(script[e.mid])
<1> DEFINE m == Head(conn[c].inbox).arg
           e == [conn |-> c, place |-> Len(conn[c].out) + 1, mid |-> m, code |-> Head(script[m])]
<1>1. m \in DOMAIN script /\ Head(script[m]) \in Injected
  BY SequencedStep
<1>2. m \in DOMAIN config.script
  BY <1>1 DEF TypeOK
<1>3. Len(conn[c].out) + 1 \in Nat
  <2>1. conn[c].out \in Seq(Reply)
    BY DEF TypeOK, Session
  <2> QED
    BY <2>1
<1>4. scripted' = Append(scripted, e)
  BY DEF ArticleSequenced
<1> HIDE DEF m
<1>5. /\ e \in Item /\ e.conn = c /\ e.place = Len(conn[c].out) + 1 /\ e.mid = m
      /\ e.code = Head(script[m])
  BY <1>1, <1>2, <1>3 DEF Item
<1> HIDE DEF e
<1> QED
  BY <1>1, <1>4, <1>5 DEF m

LEMMA TypeStep == TypeOK /\ [Next]_vars => TypeOK'
<1> SUFFICES ASSUME TypeOK, [Next]_vars PROVE TypeOK'
  OBVIOUS
<1>1. config' = config /\ config \in Configs
  BY Leaves DEF TypeOK
<1>2. conn' \in [Conns -> Session]
  <2>1. CASE conn' = conn
    BY <2>1 DEF TypeOK
  <2>2. ASSUME NEW c \in Conns, Becomes(c, conn'[c])
        PROVE  conn' \in [Conns -> Session]
    BY <2>2 DEF Becomes
  <2> QED
    BY <2>1, <2>2, Moves
<1>3. now' \in Nat
  <2>1. now \in Nat
    BY DEF TypeOK
  <2> QED
    BY <2>1, Leaves DEF Tick
<1>4. attempts' \in Seq(Nat) /\ tries' \in Seq(Try)
  <2>1. /\ attempts \in Seq(Nat) /\ tries \in Seq(Try) /\ now \in Nat
    BY DEF TypeOK
  <2>2. ASSUME NEW c \in Conns, Pass(c), config.auth_rate_limit
        PROVE  attempts' \in Seq(Nat) /\ tries' \in Seq(Try)
    <3>1. PICK t \in Nat, l \in BOOLEAN :
             /\ tries' = Append(tries, [conn |-> c, time |-> t, limited |-> l])
             /\ attempts' = Append(Recent(attempts, t), t)
      BY <2>2, PassIs
    <3>2. [conn |-> c, time |-> t, limited |-> l] \in Try
      BY DEF Try
    <3>3. Append(Recent(attempts, t), t) \in Seq(Nat)
      BY <2>1, RecentType, AppendProperties
    <3>4. tries' \in Seq(Try)
      BY <2>1, <3>1, <3>2, AppendProperties
    <3> QED
      BY <2>1, <3>1, <3>3, <3>4
  <2> QED
    BY <2>1, <2>2, Leaves
<1>5. read' \in [Conns -> Nat \cup {NotRead}]
  <2>1. read \in [Conns -> Nat \cup {NotRead}] /\ now \in Nat
    BY DEF TypeOK
  <2>2. ASSUME NEW c \in Conns, ReadClock(c)
        PROVE  read' = [read EXCEPT ![c] = now]
    BY <2>2 DEF ReadClock
  <2>3. ASSUME NEW c \in Conns, Pass(c), config.auth_rate_limit
        PROVE  read' = [read EXCEPT ![c] = NotRead]
    BY <2>3 DEF Pass
  <2> QED
    BY <2>1, <2>2, <2>3, Leaves
<1>6. script' \in [DOMAIN config.script -> Seq(Injected)] /\ scripted' \in Seq(Item)
  <2>1. script \in [DOMAIN config.script -> Seq(Injected)] /\ scripted \in Seq(Item)
    BY DEF TypeOK
  <2>2. ASSUME NEW c \in Conns, ArticleSequenced(c)
        PROVE  script' \in [DOMAIN config.script -> Seq(Injected)] /\ scripted' \in Seq(Item)
    <3> DEFINE m == Head(conn[c].inbox).arg
    <3>1. /\ m \in DOMAIN script /\ script[m] # <<>> /\ script[m] \in Seq(Injected)
          /\ script' = [script EXCEPT ![m] = Tail(@)]
      BY <2>2, SequencedStep
    <3> HIDE DEF m
    <3>2. Tail(script[m]) \in Seq(Injected)
      BY <3>1, HeadTailProperties
    <3>3. script' \in [DOMAIN config.script -> Seq(Injected)]
      BY <2>1, <3>1, <3>2
    <3>4. PICK e \in Item : scripted' = Append(scripted, e)
      BY <2>2, TakenStep
    <3> QED
      BY <2>1, <3>3, <3>4, AppendProperties
  <2> QED
    BY <2>1, <2>2, Leaves
<1>7. posted' \in Seq(Conns)
  <2>1. posted \in Seq(Conns)
    BY DEF TypeOK
  <2>2. ASSUME NEW c \in Conns, Captured(c)
        PROVE  posted' = Append(posted, c)
    BY <2>2, CapturedStep
  <2> QED
    BY <2>1, <2>2, Leaves, AppendProperties
<1>8. script' \in [DOMAIN config'.script -> Seq(Injected)]
  BY <1>1, <1>6
<1>9. scripted' \in Seq(Item')
  BY <1>1, <1>6 DEF Item
<1> QED
  BY <1>1, <1>2, <1>3, <1>4, <1>5, <1>7, <1>8, <1>9 DEF TypeOK

(* Every session, the limiter, the one-shot answers and the histories have   *)
(* the form they should have, and the codes written are those of the server. *)
THEOREM MockTypeCorrect == Spec => []TypeOK
  BY TypeInit, TypeStep, PTL DEF Spec

-----------------------------------------------------------------------------
(* The limiter                                                              *)

\* The attempt j of s has expired by the clock of one of the first n.
Expired(s, n, j) == \E m \in 1..n : s[m].time - s[j].time > RateWindow

\* The attempts kept are those recorded but the first k, which have expired.
Trails(k) ==
    /\ k \in 0..Len(tries) /\ Len(attempts) = Len(tries) - k
    /\ \A i \in 1..Len(attempts) : attempts[i] = tries[k + i].time
    /\ \A j \in 1..k : Expired(tries, Len(tries), j)

RateInv == (\E k : Trails(k)) /\ RateLimited

\* What the limiter keeps at t: the attempts but the first k, and this one.
Counted(t, k) ==
    LET kept == Append(Recent(attempts, t), t)
    IN  /\ k \in 0..Len(tries) /\ Len(kept) = Len(tries) + 1 - k
        /\ \A i \in 1..(Len(tries) - k) : kept[i] = tries[k + i].time
        /\ kept[Len(tries) + 1 - k] = t
        /\ \A j \in 1..k : Expired(tries, Len(tries), j) \/ t - tries[j].time > RateWindow
        /\ k < Len(tries) => t - tries[k + 1].time <= RateWindow

LEMMA TryFacts ==
    ASSUME TypeOK
    PROVE  /\ Len(tries) \in Nat /\ DOMAIN tries = 1..Len(tries)
           /\ Len(attempts) \in Nat /\ attempts \in Seq(Nat)
           /\ \A i \in 1..Len(tries) : tries[i].time \in Nat
<1>1. tries \in Seq(Try) /\ attempts \in Seq(Nat)
  BY DEF TypeOK
<1>2. \A i \in 1..Len(tries) : tries[i] \in Try
  BY <1>1
<1> QED
  BY <1>1, <1>2 DEF Try

LEMMA CountedIs ==
    ASSUME TypeOK, NEW t \in Nat, NEW d, Trails(d)
    PROVE  \E k : Counted(t, k)
<1>1. /\ Len(tries) \in Nat /\ Len(attempts) \in Nat /\ attempts \in Seq(Nat)
      /\ \A i \in 1..Len(tries) : tries[i].time \in Nat
  BY TryFacts
<1>2. PICK e : Dropped(attempts, t, e)
  BY <1>1, RecentIs
<1>3. /\ e \in 0..Len(attempts) /\ Recent(attempts, t) = SubSeq(attempts, e + 1, Len(attempts))
      /\ \A j \in 1..e : t - attempts[j] > RateWindow
      /\ e < Len(attempts) => t - attempts[e + 1] <= RateWindow
  BY <1>2 DEF Dropped
<1>4. /\ d \in 0..Len(tries) /\ Len(attempts) = Len(tries) - d
      /\ \A i \in 1..Len(attempts) : attempts[i] = tries[d + i].time
      /\ \A j \in 1..d : Expired(tries, Len(tries), j)
  BY DEF Trails
<1> DEFINE r == Recent(attempts, t)
<1>5. /\ r \in Seq(Nat) /\ Len(r) = Len(attempts) - e
      /\ \A i \in 1..(Len(attempts) - e) : r[i] = attempts[e + i]
  <2>1. \A i \in (e + 1)..Len(attempts) : attempts[i] \in Nat
    BY <1>1, <1>3
  <2>2. /\ r \in Seq(Nat)
        /\ Len(r) = IF e + 1 <= Len(attempts) THEN Len(attempts) - (e + 1) + 1 ELSE 0
        /\ \A i \in 1..(Len(attempts) - (e + 1) + 1) : r[i] = attempts[e + 1 + i - 1]
    BY <1>1, <1>3, <2>1, SubSeqProperties
  <2>3. \A i \in 1..(Len(attempts) - e) : i \in 1..(Len(attempts) - (e + 1) + 1) /\ e + 1 + i - 1 = e + i
    BY <1>1, <1>3
  <2> QED
    BY <1>1, <1>3, <2>2, <2>3
<1>6. PICK k : k = d + e
  OBVIOUS
<1>7. k \in 0..Len(tries) /\ Len(attempts) - e = Len(tries) - k
  BY <1>1, <1>3, <1>4, <1>6
<1> HIDE DEF r
<1>8. /\ Len(Append(r, t)) = Len(tries) + 1 - k
      /\ Append(r, t)[Len(tries) + 1 - k] = t
      /\ \A i \in 1..(Len(tries) - k) : Append(r, t)[i] = r[i]
  <2>1. Len(r) + 1 = Len(tries) + 1 - k /\ Len(r) = Len(tries) - k
    BY <1>1, <1>5, <1>7
  <2>2. /\ Len(Append(r, t)) = Len(r) + 1
        /\ \A i \in 1..Len(r) : Append(r, t)[i] = r[i]
        /\ Append(r, t)[Len(r) + 1] = t
    BY <1>1, <1>5, AppendProperties
  <2> QED
    BY <2>1, <2>2
<1>9. \A i \in 1..(Len(tries) - k) : r[i] = tries[k + i].time
  <2> TAKE i \in 1..(Len(tries) - k)
  <2>1. i \in 1..(Len(attempts) - e) /\ e + i \in 1..Len(attempts) /\ d + (e + i) = k + i
    BY <1>1, <1>3, <1>4, <1>6, <1>7
  <2> QED
    BY <1>4, <1>5, <2>1
<1>10. \A j \in 1..k : Expired(tries, Len(tries), j) \/ t - tries[j].time > RateWindow
  <2> TAKE j \in 1..k
  <2>1. CASE j <= d
    <3>1. j \in 1..d
      BY <1>4, <1>7, <2>1
    <3> QED
      BY <1>4, <3>1
  <2>2. CASE ~(j <= d)
    <3>1. PICK i : i = j - d
      OBVIOUS
    <3>2. i \in 1..e /\ i \in 1..Len(attempts) /\ d + i = j
      BY <1>1, <1>3, <1>4, <1>6, <1>7, <2>2, <3>1
    <3>3. t - tries[j].time > RateWindow
      BY <1>3, <1>4, <3>2
    <3> QED
      BY <3>3
  <2> QED
    BY <2>1, <2>2
<1>11. k < Len(tries) => t - tries[k + 1].time <= RateWindow
  <2> SUFFICES ASSUME k < Len(tries) PROVE t - tries[k + 1].time <= RateWindow
    OBVIOUS
  <2>1. e < Len(attempts) /\ e + 1 \in 1..Len(attempts) /\ d + (e + 1) = k + 1
    BY <1>1, <1>3, <1>4, <1>6, <1>7
  <2> QED
    BY <1>3, <1>4, <2>1
<1> QED
  BY <1>7, <1>8, <1>9, <1>10, <1>11 DEF Counted, r

\* Unexpired(i) of the attempts s, and what RateLimited says of the i-th.
Standing(s, i) == {j \in 1..i : \A m \in 1..i : s[m].time - s[j].time <= RateWindow}

Judged(s, i) ==
    /\ Cardinality(Standing(s, i)) > MaxAttempts => s[i].limited
    /\ s[i].limited =>
          \E f \in 1..i : s[i].time - s[f].time <= RateWindow /\ i - f + 1 > MaxAttempts

LEMMA JudgedIs ==
    ASSUME DOMAIN tries = 1..Len(tries)
    PROVE  RateLimited <=> \A i \in 1..Len(tries) : Judged(tries, i)
  BY DEF RateLimited, Unexpired, Judged, Standing

\* The attempts i of s and t agree up to n.
LEMMA JudgedSame ==
    ASSUME NEW s, NEW t, NEW n \in Nat, \A i \in 1..n : t[i] = s[i],
           NEW i \in 1..n, Judged(s, i)
    PROVE  Judged(t, i)
<1>1. \A j \in 1..i : t[j] = s[j]
  OBVIOUS
<1>2. t[i] = s[i]
  OBVIOUS
<1>3. Standing(t, i) = Standing(s, i)
  BY <1>1 DEF Standing
<1> QED
  BY <1>1, <1>2, <1>3 DEF Judged

\* The limiter's count is between the two bounds.
LEMMA JudgedLast ==
    ASSUME NEW s, NEW n \in Nat, NEW k \in 0..n, RateWindow \in Nat, MaxAttempts \in Nat,
           \A i \in 1..(n + 1) : s[i].time \in Nat,
           \A j \in 1..k : Expired(s, n + 1, j),
           k < n => s[n + 1].time - s[k + 1].time <= RateWindow,
           s[n + 1].limited <=> n + 1 - k > MaxAttempts
    PROVE  Judged(s, n + 1)
<1>1. Standing(s, n + 1) \subseteq (k + 1)..(n + 1)
  <2> SUFFICES ASSUME NEW j \in Standing(s, n + 1) PROVE j \in (k + 1)..(n + 1)
    OBVIOUS
  <2>1. j \in 1..(n + 1) /\ \A m \in 1..(n + 1) : s[m].time - s[j].time <= RateWindow
    BY DEF Standing
  <2>2. CASE j \in 1..k
    <3>1. PICK m \in 1..(n + 1) : s[m].time - s[j].time > RateWindow
      BY <2>2 DEF Expired
    <3>2. s[m].time - s[j].time <= RateWindow /\ s[m].time \in Nat /\ s[j].time \in Nat
      BY <2>1
    <3> QED
      BY <3>1, <3>2
  <2>3. CASE j \notin 1..k
    BY <2>1, <2>3
  <2> QED
    BY <2>2, <2>3
<1>2. /\ IsFiniteSet((k + 1)..(n + 1))
      /\ Cardinality((k + 1)..(n + 1)) = n + 1 - k
  <2>1. /\ IsFiniteSet((k + 1)..(n + 1))
        /\ Cardinality((k + 1)..(n + 1)) = IF k + 1 > n + 1 THEN 0 ELSE (n + 1) - (k + 1) + 1
    BY FS_Interval
  <2> QED
    BY <2>1
<1>3. /\ Cardinality(Standing(s, n + 1)) <= n + 1 - k
      /\ Cardinality(Standing(s, n + 1)) \in Nat
  BY <1>1, <1>2, FS_Subset, FS_CardinalityType
<1>4. k + 1 \in 1..(n + 1) /\ s[n + 1].time - s[k + 1].time <= RateWindow
  <2>1. CASE k < n
    BY <2>1
  <2>2. CASE ~(k < n)
    <3>1. k + 1 = n + 1
      BY <2>2
    <3>2. s[n + 1].time \in Nat
      OBVIOUS
    <3> QED
      BY <3>1, <3>2
  <2> QED
    BY <2>1, <2>2
<1>5. (n + 1) - (k + 1) + 1 = n + 1 - k
  OBVIOUS
<1>6. Cardinality(Standing(s, n + 1)) > MaxAttempts => n + 1 - k > MaxAttempts
  BY <1>3
<1> QED
  BY <1>4, <1>5, <1>6 DEF Judged

LEMMA RateStep ==
    ASSUME TypeOK, RateInv, [Next]_vars
    PROVE  RateInv'
<1>1. /\ Len(tries) \in Nat /\ DOMAIN tries = 1..Len(tries) /\ Len(attempts) \in Nat
      /\ \A i \in 1..Len(tries) : tries[i].time \in Nat
  BY TryFacts
<1>2. RateWindow \in Nat /\ MaxAttempts \in Nat
  BY LimitsAssumption
<1>3. CASE UNCHANGED <<attempts, tries>>
  <2>1. ASSUME NEW k, Trails(k)
        PROVE  Trails(k)'
    BY <1>3, <2>1 DEF Trails, Expired
  <2>2. RateLimited'
    BY <1>3 DEF RateInv, RateLimited, Unexpired
  <2> QED
    BY <2>1, <2>2 DEF RateInv
<1>4. ASSUME NEW c \in Conns, Pass(c), config.auth_rate_limit
      PROVE  RateInv'
  <2> DEFINE n == Len(tries)
  <2>1. PICK t \in Nat, l \in BOOLEAN :
           /\ l <=> Len(Append(Recent(attempts, t), t)) > MaxAttempts
           /\ tries' = Append(tries, [conn |-> c, time |-> t, limited |-> l])
           /\ attempts' = Append(Recent(attempts, t), t)
    BY <1>4, PassIs
  <2>2. /\ Len(tries') = n + 1 /\ \A i \in 1..n : tries'[i] = tries[i]
        /\ tries'[n + 1].time = t /\ tries'[n + 1].limited = l
        /\ DOMAIN tries' = 1..(n + 1)
    <3>1. tries \in Seq(Try) /\ [conn |-> c, time |-> t, limited |-> l] \in Try
      BY DEF TypeOK, Try
    <3>2. /\ tries' \in Seq(Try) /\ Len(tries') = n + 1 /\ \A i \in 1..n : tries'[i] = tries[i]
          /\ tries'[n + 1] = [conn |-> c, time |-> t, limited |-> l]
      BY <2>1, <3>1, AppendProperties
    <3> QED
      BY <3>2
  <2>3. PICK d : Trails(d)
    BY DEF RateInv
  <2>4. PICK k : Counted(t, k)
    BY <2>3, CountedIs
  <2>5. /\ k \in 0..n /\ Len(attempts') = n + 1 - k
        /\ \A i \in 1..(n - k) : attempts'[i] = tries[k + i].time
        /\ attempts'[n + 1 - k] = t
        /\ \A j \in 1..k : Expired(tries, n, j) \/ t - tries[j].time > RateWindow
        /\ k < n => t - tries[k + 1].time <= RateWindow
    BY <2>1, <2>4 DEF Counted
  <2>6. \A j \in 1..k : Expired(tries', n + 1, j)
    <3> TAKE j \in 1..k
    <3>1. j \in 1..n /\ tries'[j] = tries[j]
      BY <1>1, <2>2, <2>5
    <3>2. CASE Expired(tries, n, j)
      <4>1. PICK m \in 1..n : tries[m].time - tries[j].time > RateWindow
        BY <3>2 DEF Expired
      <4>2. m \in 1..(n + 1) /\ tries'[m] = tries[m]
        BY <1>1, <2>2
      <4> QED
        BY <3>1, <4>1, <4>2 DEF Expired
    <3>3. CASE t - tries[j].time > RateWindow
      <4>1. n + 1 \in 1..(n + 1)
        BY <1>1
      <4> QED
        BY <2>2, <3>1, <3>3, <4>1 DEF Expired
    <3> QED
      BY <2>5, <3>2, <3>3
  <2>7. Trails(k)'
    <3>1. k \in 0..Len(tries') /\ Len(attempts') = Len(tries') - k
      BY <1>1, <2>2, <2>5
    <3>2. \A i \in 1..Len(attempts') : attempts'[i] = tries'[k + i].time
      <4> TAKE i \in 1..Len(attempts')
      <4>1. CASE i = n + 1 - k
        BY <1>1, <2>2, <2>5, <4>1
      <4>2. CASE i # n + 1 - k
        <5>1. i \in 1..(n - k) /\ k + i \in 1..n
          BY <1>1, <2>5, <4>2
        <5> QED
          BY <2>2, <2>5, <5>1
      <4> QED
        BY <4>1, <4>2
    <3>3. \A j \in 1..k : Expired(tries, Len(tries), j)'
      BY <2>2, <2>6 DEF Expired
    <3> QED
      BY <3>1, <3>2, <3>3 DEF Trails
  <2>8. Judged(tries', n + 1)
    <3>1. \A i \in 1..(n + 1) : tries'[i].time \in Nat
      <4> TAKE i \in 1..(n + 1)
      <4>1. CASE i = n + 1
        BY <2>2, <4>1
      <4>2. CASE i # n + 1
        BY <1>1, <2>2, <4>2
      <4> QED
        BY <4>1, <4>2
    <3>2. k < n => tries'[n + 1].time - tries'[k + 1].time <= RateWindow
      BY <1>1, <2>2, <2>5
    <3>3. tries'[n + 1].limited <=> n + 1 - k > MaxAttempts
      BY <2>1, <2>2, <2>5
    <3> HIDE DEF n
    <3>4. n \in Nat
      BY <1>1 DEF n
    <3> QED
      BY <1>2, <2>5, <2>6, <3>1, <3>2, <3>3, <3>4, JudgedLast
  <2>9. \A i \in 1..n : Judged(tries', i)
    <3>1. \A i \in 1..n : Judged(tries, i)
      BY <1>1, JudgedIs DEF RateInv
    <3> QED
      BY <1>1, <2>2, <3>1, JudgedSame
  <2>10. RateLimited'
    <3>1. \A i \in 1..(n + 1) : Judged(tries', i)
      BY <1>1, <2>8, <2>9
    <3> QED
      BY <2>2, <3>1 DEF RateLimited, Unexpired, Judged, Standing
  <2> QED
    BY <2>7, <2>10 DEF RateInv
<1> QED
  BY <1>3, <1>4, Leaves

(* Whatever the connections, the pauses and the order in which attempts that *)
(* have read the clock take the lock: AUTHINFO PASS is refused if more than  *)
(* MaxAttempts of the attempts recorded, refused ones included, have not     *)
(* expired by any clock read so far, and only if more than MaxAttempts have  *)
(* been recorded since one inside the window of this attempt.                *)
THEOREM RateCorrect == Spec => []RateLimited
<1>1. Init => RateInv
  <2> SUFFICES ASSUME Init PROVE RateInv
    OBVIOUS
  <2>1. tries = <<>> /\ attempts = <<>>
    BY DEF Init
  <2>2. Trails(0)
    BY <2>1 DEF Trails
  <2>3. RateLimited
    BY <2>1 DEF RateLimited
  <2> QED
    BY <2>2, <2>3 DEF RateInv
<1>2. TypeOK /\ RateInv /\ [Next]_vars => RateInv'
  BY RateStep
<1>3. RateInv => RateLimited
  BY DEF RateInv
<1> QED
  BY <1>1, <1>2, <1>3, MockTypeCorrect, PTL DEF Spec

-----------------------------------------------------------------------------
(* A session                                                                *)

\* The parts that are due: of one answer, or the banner.
Due(g) ==
    \/ g.pending = <<>>
    \/ g.pending = <<"banner">>
    \/ \E k \in Codes \ Multi : g.pending = <<k>>
    \/ \E k \in Multi : g.pending = <<k, "body">>
    \/ g.pending = <<"body">>

\* Before the first command nothing but the banner is due.
Quiet(g) ==
    /\ g.cmd.verb = "-" => g.pending \in {<<>>, <<"banner">>}
    /\ g.pending = <<"banner">> => g.cmd.verb = "-"
    /\ \A i \in DOMAIN g.inbox : g.inbox[i].verb # "-"
    /\ ~g.hung => g.ignored = <<>>
    /\ g.at = "none" => Begun(g)

\* Nothing is behind POST, until it is answered, but its article.
Posting(g) ==
    /\ \A i \in DOMAIN g.inbox : g.inbox[i].verb = "POST" => i = Len(g.inbox)
    /\ g.pending = <<"340">> => g.cmd.verb = "POST"
    /\ g.cmd.verb = "POST" /\ g.pending # <<>> => g.inbox = <<>>
    /\ g.posting = TRUE => g.cmd.verb = "POST" /\ g.pending = <<>> /\ g.inbox \in {<<>>, <<Text>>}

\* An article that arrives was asked for, and is not read by one that hangs.
Asked(g) ==
    /\ g.posting = TRUE /\ g.inbox # <<>> => g.hung = FALSE
    /\ g.pending = <<"240">> => g.hung = FALSE
    /\ g.at \in {"open", "closing"} /\ g.out # <<>> /\ g.out[Len(g.out)].kind = "340" =>
          g.hung = FALSE /\ (g.posting = TRUE \/ g.pending = <<"240">>)

Sound(g) == Due(g) /\ Quiet(g) /\ Posting(g) /\ Asked(g)

LEMMA SessionFacts ==
    ASSUME NEW g \in Session
    PROVE  /\ g.inbox \in Seq(Cmds) /\ g.pending \in Seq(Parts) /\ g.out \in Seq(Reply)
           /\ g.ignored \in Seq(Cmds) /\ g.hung \in BOOLEAN /\ g.posting \in BOOLEAN /\ g.cmd \in Cmds
           /\ Len(g.inbox) \in Nat /\ DOMAIN g.inbox = 1..Len(g.inbox)
           /\ Len(g.out) \in Nat /\ DOMAIN g.out = 1..Len(g.out)
<1>1. /\ g.inbox \in Seq(Cmds) /\ g.pending \in Seq(Parts) /\ g.out \in Seq(Reply)
      /\ g.ignored \in Seq(Cmds) /\ g.hung \in BOOLEAN /\ g.posting \in BOOLEAN /\ g.cmd \in Cmds
  BY DEF Session
<1> QED
  BY <1>1

\* Codes are neither a body nor the banner.
LEMMA CodeFacts ==
    /\ "body" \notin Codes /\ "banner" \notin Codes /\ Multi \subseteq Codes
    /\ "240" \in Codes \ Multi /\ "340" \in Codes \ Multi
  BY InjectedAssumption DEF Codes, Multi

LEMMA Tuples ==
    /\ \A a : Head(<<a>>) = a /\ Len(<<a>>) = 1 /\ <<a>> # <<>>
    /\ \A a, b : Head(<<a, b>>) = a /\ Len(<<a, b>>) = 2 /\ Tail(<<a, b>>) = <<b>> /\ <<a, b>> # <<>>
    /\ \A a, b : <<a>> = <<b>> => a = b
<1>1. \A a, b : <<a>> = <<b>> => a = b
  <2> TAKE a, b
  <2>1. <<a>>[1] = a /\ <<b>>[1] = b
    OBVIOUS
  <2> QED
    BY <2>1
<1>2. \A a : Head(<<a>>) = a /\ Len(<<a>>) = 1 /\ <<a>> # <<>>
  OBVIOUS
<1>3. \A a, b : Head(<<a, b>>) = a /\ Len(<<a, b>>) = 2 /\ Tail(<<a, b>>) = <<b>> /\ <<a, b>> # <<>>
  OBVIOUS
<1> QED
  BY <1>1, <1>2, <1>3

\* One part, or the first of two.
LEMMA DueIs ==
    ASSUME NEW g, Due(g), g.pending # <<>>
    PROVE  \/ /\ Head(g.pending) \in (Codes \ Multi) \cup {"banner", "body"}
              /\ g.pending = <<Head(g.pending)>> /\ ~(Len(g.pending) > 1)
           \/ /\ Head(g.pending) \in Multi /\ Len(g.pending) > 1
              /\ g.pending = <<Head(g.pending), "body">> /\ Tail(g.pending) = <<"body">>
<1>1. ASSUME NEW k, g.pending = <<k>>
      PROVE  Head(g.pending) = k /\ g.pending = <<Head(g.pending)>> /\ ~(Len(g.pending) > 1)
  <2>1. Head(g.pending) = k /\ Len(g.pending) = 1
    BY <1>1, Tuples
  <2> QED
    BY <1>1, <2>1
<1>2. ASSUME NEW k, g.pending = <<k, "body">>
      PROVE  /\ Head(g.pending) = k /\ Len(g.pending) > 1
             /\ g.pending = <<Head(g.pending), "body">> /\ Tail(g.pending) = <<"body">>
  <2>1. Head(g.pending) = k /\ Len(g.pending) = 2 /\ Tail(g.pending) = <<"body">>
    BY <1>2, Tuples
  <2> QED
    BY <1>2, <2>1
<1> QED
  BY <1>1, <1>2 DEF Due

LEMMA SoundBegun ==
    ASSUME NEW h, Begun(h)
    PROVE  Sound(h)
<1>1. /\ h.out = <<>> /\ h.inbox = <<>> /\ h.ignored = <<>> /\ h.hung = FALSE
      /\ h.posting = FALSE
  BY DEF Begun
<1>2. h.cmd.verb = "-"
  BY DEF Begun, NoCmd
<1>3. h.pending = <<>> \/ h.pending = <<"banner">>
  BY DEF Begun
<1>4. h.pending # <<"340">> /\ h.pending # <<"240">>
  <2>1. "banner" # "340" /\ "banner" # "240"
    OBVIOUS
  <2> QED
    BY <1>3, <2>1, Tuples
<1>5. Due(h) /\ Quiet(h)
  <2>1. DOMAIN h.inbox = {}
    BY <1>1
  <2> QED
    BY <1>1, <1>2, <1>3, <2>1, Tuples DEF Due, Quiet
<1>6. Posting(h) /\ Asked(h)
  <2>1. DOMAIN h.inbox = {}
    BY <1>1
  <2> QED
    BY <1>1, <1>4, <2>1 DEF Posting, Asked
<1> QED
  BY <1>5, <1>6 DEF Sound

LEMMA SoundSaid ==
    ASSUME NEW o \in Session, NEW h \in Session, NEW cmd \in Cmds, Sound(o),
           Said(o, h, cmd), Heard(o, cmd)
    PROVE  Sound(h)
<1>1. /\ o.inbox \in Seq(Cmds) /\ Len(o.inbox) \in Nat /\ DOMAIN o.inbox = 1..Len(o.inbox)
  BY SessionFacts
<1>2. /\ h.inbox = Append(o.inbox, cmd) /\ h.pending = o.pending /\ h.out = o.out
      /\ h.posting = o.posting /\ h.cmd = o.cmd /\ h.hung = o.hung /\ h.ignored = o.ignored
      /\ o.at = "open" /\ h.at = "open"
  BY DEF Said, Kept
<1>3. /\ DOMAIN h.inbox = 1..(Len(o.inbox) + 1) /\ Len(h.inbox) = Len(o.inbox) + 1
      /\ \A i \in 1..Len(o.inbox) : h.inbox[i] = o.inbox[i]
      /\ h.inbox[Len(o.inbox) + 1] = cmd /\ h.inbox # <<>>
  BY <1>1, <1>2, AppendProperties
<1>4. Due(h)
  BY <1>2 DEF Sound, Due
<1>5. cmd.verb # "-"
  BY DEF Heard, Text
<1>6. Quiet(h)
  BY <1>1, <1>2, <1>3, <1>5 DEF Sound, Quiet
<1>7. CASE cmd = Text /\ o.posting = TRUE /\ o.inbox = <<>> /\ o.out # <<>>
           /\ o.out[Len(o.out)].kind = "340"
  <2>1. h.inbox = <<Text>> /\ Len(h.inbox) = 1
    BY <1>2, <1>7
  <2>2. o.hung = FALSE /\ o.pending = <<>>
    BY <1>2, <1>7 DEF Sound, Asked, Posting
  <2>3. o.cmd.verb = "POST" /\ <<>> # <<"340">>
    BY <1>7, Tuples DEF Sound, Posting
  <2>4. DOMAIN h.inbox = 1..1
    BY <2>1
  <2>5. Posting(h)
    BY <1>2, <2>1, <2>2, <2>3, <2>4 DEF Posting
  <2>6. Asked(h)
    BY <1>2, <2>2 DEF Sound, Asked
  <2> QED
    BY <1>4, <1>6, <2>5, <2>6 DEF Sound
<1>8. CASE /\ \A i \in DOMAIN o.inbox : o.inbox[i].verb # "POST"
           /\ o.cmd.verb # "POST" \/ (o.pending = <<>> /\ o.posting = FALSE)
           /\ o.posting = FALSE
  <2>1. Posting(h)
    BY <1>1, <1>2, <1>3, <1>8 DEF Sound, Posting
  <2>2. Asked(h)
    BY <1>2, <1>8 DEF Sound, Asked
  <2> QED
    BY <1>4, <1>6, <2>1, <2>2 DEF Sound
<1>9. o.posting \in BOOLEAN
  BY SessionFacts
<1>10. o.posting = TRUE => o.cmd.verb = "POST"
  BY DEF Sound, Posting
<1> QED
  BY <1>7, <1>8, <1>9, <1>10 DEF Heard

LEMMA SoundSame ==
    ASSUME NEW o, NEW h, Sound(o), Same(o, h)
    PROVE  Sound(h)
<1>1. o.at = "none" => Begun(o)
  BY DEF Sound, Quiet
<1>2. h.at = "none" => Begun(h)
  BY <1>1 DEF Same, Kept, Begun
<1> QED
  BY <1>2 DEF Sound, Same, Kept, Due, Quiet, Posting, Asked

LEMMA SoundGone ==
    ASSUME NEW o, NEW h, Sound(o), Gone(o, h)
    PROVE  Sound(h)
<1>1. /\ h.inbox = <<>> /\ h.pending = <<>> /\ h.posting = o.posting /\ h.cmd = o.cmd
      /\ h.hung = o.hung /\ h.ignored = o.ignored /\ h.at = "closed"
  BY DEF Gone, Kept
<1>2. DOMAIN h.inbox = {} /\ <<>> # <<"340">> /\ <<>> # <<"240">> /\ <<>> # <<"banner">>
  BY <1>1, Tuples
<1> QED
  BY <1>1, <1>2 DEF Sound, Due, Quiet, Posting, Asked

\* The rest of the inbox, once its first command was read.
LEMMA InboxIs ==
    ASSUME NEW s \in Seq(Cmds), s # <<>>
    PROVE  /\ Len(s) \in Nat \ {0} /\ Head(s) = s[1] /\ Head(s) \in Cmds /\ Tail(s) \in Seq(Cmds)
           /\ DOMAIN s = 1..Len(s) /\ DOMAIN Tail(s) = 1..(Len(s) - 1) /\ Len(Tail(s)) = Len(s) - 1
           /\ \A i \in 1..(Len(s) - 1) : Tail(s)[i] = s[i + 1]
           /\ Len(s) = 1 => Tail(s) = <<>>
           /\ s = <<Head(s)>> \o Tail(s)
<1>1. /\ Head(s) \in Cmds /\ Tail(s) \in Seq(Cmds) /\ Len(Tail(s)) = Len(s) - 1
      /\ \A i \in 1..Len(Tail(s)) : Tail(s)[i] = s[i + 1]
  BY HeadTailProperties
<1>2. Len(s) \in Nat \ {0} /\ Head(s) = s[1] /\ DOMAIN s = 1..Len(s)
  BY EmptySeq
<1>3. DOMAIN Tail(s) = 1..(Len(s) - 1)
  BY <1>1, <1>2
<1>4. Len(s) = 1 => Tail(s) = <<>>
  <2>1. Tail(s) \in Seq(Cmds) /\ (Len(s) = 1 => Len(Tail(s)) = 0)
    BY <1>1
  <2> QED
    BY <2>1, EmptySeq
<1>5. s = <<Head(s)>> \o Tail(s)
  BY <1>1, <1>2
<1> QED
  BY <1>1, <1>2, <1>3, <1>4, <1>5

\* What reading a command leaves of the answers that are due.
LEMMA AnsweredDue ==
    ASSUME NEW o \in Session, NEW h \in Session, Sound(o), NEW k \in Codes, Answered(o, h, k)
    PROVE  Due(h) /\ Quiet(h) /\ h.pending # <<>> /\ Head(h.pending) = k /\ h.cmd.verb # "-"
<1>1. /\ o.inbox # <<>> /\ h.inbox = Tail(o.inbox) /\ h.cmd = Head(o.inbox)
      /\ h.pending = IF k \in Multi THEN <<k, "body">> ELSE <<k>>
      /\ h.hung <=> o.hung \/ Head(o.inbox).verb = config.hang_after_command
      /\ h.ignored = IF h.hung THEN Append(o.ignored, Head(o.inbox)) ELSE o.ignored
  BY DEF Answered
<1>2. /\ Len(o.inbox) \in Nat \ {0} /\ Head(o.inbox) = o.inbox[1] /\ DOMAIN o.inbox = 1..Len(o.inbox)
      /\ DOMAIN h.inbox = 1..(Len(o.inbox) - 1)
      /\ \A i \in 1..(Len(o.inbox) - 1) : h.inbox[i] = o.inbox[i + 1]
  BY <1>1, InboxIs, SessionFacts
<1>3. Head(h.pending) = k /\ h.pending # <<>> /\ Due(h)
  <2>1. CASE k \in Multi
    BY <1>1, <2>1, Tuples DEF Due
  <2>2. CASE k \notin Multi
    BY <1>1, <2>2, Tuples DEF Due
  <2> QED
    BY <2>1, <2>2
<1>4. \A i \in DOMAIN o.inbox : o.inbox[i].verb # "-"
  BY DEF Sound, Quiet
<1>5. h.cmd.verb # "-" /\ \A i \in DOMAIN h.inbox : h.inbox[i].verb # "-"
  BY <1>1, <1>2, <1>4
<1>6. h.pending # <<"banner">>
  <2>1. k # "banner"
    BY CodeFacts
  <2> QED
    BY <1>3, <2>1, Tuples
<1>7. ~h.hung => h.ignored = <<>>
  BY <1>1 DEF Sound, Quiet
<1>8. h.at # "none"
  BY DEF Answered
<1>9. Quiet(h)
  BY <1>5, <1>6, <1>7, <1>8 DEF Quiet
<1> QED
  BY <1>3, <1>5, <1>9

LEMMA SoundCommanded ==
    ASSUME NEW o \in Session, NEW h \in Session, Sound(o), NEW k \in Codes \ {"240"},
           Answered(o, h, k), k = "340" => Head(o.inbox).verb = "POST", o.posting = FALSE
    PROVE  Sound(h)
<1>1. /\ o.inbox # <<>> /\ h.inbox = Tail(o.inbox) /\ h.cmd = Head(o.inbox) /\ h.out = o.out
      /\ o.pending = <<>> /\ o.at = "open" /\ h.posting = FALSE
  BY DEF Answered
<1>2. /\ Len(o.inbox) \in Nat \ {0} /\ Head(o.inbox) = o.inbox[1] /\ DOMAIN o.inbox = 1..Len(o.inbox)
      /\ DOMAIN h.inbox = 1..(Len(o.inbox) - 1) /\ Len(h.inbox) = Len(o.inbox) - 1
      /\ \A i \in 1..(Len(o.inbox) - 1) : h.inbox[i] = o.inbox[i + 1]
      /\ Len(o.inbox) = 1 => h.inbox = <<>>
  BY <1>1, InboxIs, SessionFacts
<1>3. Due(h) /\ Quiet(h) /\ Head(h.pending) = k
  BY AnsweredDue
<1>4. \A i \in DOMAIN o.inbox : o.inbox[i].verb = "POST" => i = Len(o.inbox)
  BY DEF Sound, Posting
<1>5. Posting(h)
  <2>1. \A i \in DOMAIN h.inbox : h.inbox[i].verb = "POST" => i = Len(h.inbox)
    <3> SUFFICES ASSUME NEW i \in DOMAIN h.inbox, h.inbox[i].verb = "POST"
                 PROVE  i = Len(h.inbox)
      OBVIOUS
    <3>1. i + 1 \in DOMAIN o.inbox /\ o.inbox[i + 1].verb = "POST" /\ i \in Nat
      BY <1>2
    <3>2. i + 1 = Len(o.inbox)
      BY <1>4, <3>1
    <3> QED
      BY <1>2, <3>1, <3>2
  <2>2. h.pending = <<"340">> => h.cmd.verb = "POST"
    <3>1. h.pending = <<"340">> => k = "340"
      BY <1>3, Tuples
    <3> QED
      BY <1>1, <3>1
  <2>3. h.cmd.verb = "POST" => h.inbox = <<>>
    <3> SUFFICES ASSUME h.cmd.verb = "POST" PROVE h.inbox = <<>>
      OBVIOUS
    <3>1. 1 \in DOMAIN o.inbox /\ o.inbox[1].verb = "POST"
      BY <1>1, <1>2
    <3>2. Len(o.inbox) = 1
      BY <1>4, <3>1
    <3> QED
      BY <1>2, <3>2
  <2> QED
    BY <1>1, <2>1, <2>2, <2>3 DEF Posting
<1>6. Asked(h)
  <2>1. h.pending # <<"240">>
    BY <1>3, Tuples
  <2>2. o.pending # <<"240">>
    BY <1>1, Tuples
  <2>3. ~(o.out # <<>> /\ o.out[Len(o.out)].kind = "340")
    BY <1>1, <2>2 DEF Sound, Asked
  <2> QED
    BY <1>1, <2>1, <2>3 DEF Asked
<1> QED
  BY <1>3, <1>5, <1>6 DEF Sound

LEMMA SoundCaptured ==
    ASSUME config \in Configs, NEW o \in Session, NEW h \in Session, Sound(o),
           Answered(o, h, "240"), o.posting = TRUE
    PROVE  Sound(h) /\ h.pending = <<"240">>
<1>1. /\ o.inbox # <<>> /\ h.inbox = Tail(o.inbox) /\ h.cmd = Head(o.inbox) /\ h.out = o.out
      /\ h.hung <=> o.hung \/ Head(o.inbox).verb = config.hang_after_command
      /\ h.pending = (IF "240" \in Multi THEN <<"240", "body">> ELSE <<"240">>)
      /\ o.pending = <<>> /\ o.at = "open" /\ h.at = "open" /\ h.posting = FALSE
  BY DEF Answered
<1>2. Due(h) /\ Quiet(h)
  BY CodeFacts, AnsweredDue
<1>3. h.pending = <<"240">>
  BY <1>1, CodeFacts
<1>4. o.inbox = <<Text>> /\ o.hung = FALSE
  BY <1>1 DEF Sound, Posting, Asked
<1>5. h.inbox = <<>> /\ Head(o.inbox) = Text
  BY <1>1, <1>4
<1>6. h.hung = FALSE
  <2>1. config.hang_after_command # "text" /\ Text.verb = "text"
    BY ConfigFacts DEF Text
  <2>2. h.hung \in BOOLEAN
    BY SessionFacts
  <2> QED
    BY <1>1, <1>4, <1>5, <2>1, <2>2
<1>7. Posting(h)
  <2>1. h.pending # <<"340">> /\ DOMAIN h.inbox = {}
    BY <1>3, <1>5, Tuples
  <2> QED
    BY <1>1, <1>5, <2>1 DEF Posting
<1>8. Asked(h)
  BY <1>1, <1>3, <1>6 DEF Asked
<1> QED
  BY <1>2, <1>3, <1>7, <1>8 DEF Sound

LEMMA SoundPassed ==
    ASSUME NEW o \in Session, NEW h \in Session, Sound(o), Passed(o, h)
    PROVE  Sound(h)
<1> DEFINE p == Head(o.pending)
           one == p = "banner" \/ ~(Len(o.pending) > 1)
<1>1. /\ o.at = "open" /\ o.pending # <<>> /\ h.inbox = o.inbox
      /\ h.cmd = o.cmd /\ h.hung = o.hung /\ h.ignored = o.ignored
      /\ h.pending = IF one THEN <<>> ELSE Tail(o.pending)
      /\ h.posting = IF one /\ p = "340" THEN TRUE ELSE o.posting
      /\ h.out = IF o.hung \/ p = "banner" THEN o.out
                 ELSE Append(o.out, [for |-> o.cmd, kind |-> p])
  BY DEF Passed, Kept
<1>2. \/ /\ p \in (Codes \ Multi) \cup {"banner", "body"}
         /\ o.pending = <<p>> /\ ~(Len(o.pending) > 1)
      \/ p \in Multi /\ Len(o.pending) > 1 /\ o.pending = <<p, "body">> /\ Tail(o.pending) = <<"body">>
  BY <1>1, DueIs DEF Sound
<1>3. o.posting = FALSE /\ o.hung \in BOOLEAN
  BY <1>1, SessionFacts DEF Sound, Posting
<1> HIDE DEF p
<1>4. /\ h.pending = <<>> \/ h.pending = <<"body">>
      /\ o.pending = <<"banner">> => h.pending = <<>>
      /\ h.posting = TRUE => p = "340" /\ o.pending = <<"340">>
      /\ p = "340" => h.posting = TRUE
      /\ p = "banner" => o.pending = <<"banner">>
  <2>1. CASE o.pending = <<p>> /\ ~(Len(o.pending) > 1)
    <3>1. h.pending = <<>> /\ (h.posting = TRUE <=> p = "340")
      BY <1>1, <1>3, <2>1
    <3> QED
      BY <2>1, <3>1
  <2>2. CASE p \in Multi /\ Len(o.pending) > 1 /\ o.pending = <<p, "body">> /\ Tail(o.pending) = <<"body">>
    <3>1. p # "banner" /\ p # "340"
      BY <2>2, CodeFacts
    <3>2. h.pending = <<"body">> /\ h.posting = FALSE
      BY <1>1, <1>3, <2>2, <3>1
    <3>3. o.pending # <<"banner">>
      <4>1. Len(<<"banner">>) = 1
        BY Tuples
      <4> QED
        BY <2>2, <4>1
    <3> QED
      BY <3>1, <3>2, <3>3
  <2> QED
    BY <1>2, <2>1, <2>2
<1>5. h.pending \notin {<<"240">>, <<"340">>, <<"banner">>}
  <2>1. "body" # "240" /\ "body" # "340" /\ "body" # "banner"
    OBVIOUS
  <2> QED
    BY <1>4, <2>1, Tuples
<1>6. Due(h)
  BY <1>4 DEF Due
<1>7. Quiet(h)
  <2>1. h.cmd.verb = "-" => h.pending = <<>>
    <3>1. o.cmd.verb = "-" => o.pending = <<"banner">>
      BY <1>1 DEF Sound, Quiet
    <3> QED
      BY <1>1, <1>4, <3>1
  <2> QED
    BY <1>1, <1>5, <2>1 DEF Sound, Quiet, Passed
<1>8. Posting(h)
  <2>1. h.posting = TRUE => h.cmd.verb = "POST" /\ h.pending = <<>> /\ h.inbox = <<>>
    <3>1. h.posting = TRUE => o.cmd.verb = "POST" /\ o.inbox = <<>>
      BY <1>1, <1>4 DEF Sound, Posting
    <3>2. p = "340" => h.pending = <<>>
      <4>1. p = "340" => ~(Len(o.pending) > 1)
        BY <1>2, CodeFacts
      <4> QED
        BY <1>1, <4>1
    <3> QED
      BY <1>1, <1>4, <3>1, <3>2
  <2>2. \A i \in DOMAIN h.inbox : h.inbox[i].verb = "POST" => i = Len(h.inbox)
    BY <1>1 DEF Sound, Posting
  <2>3. h.cmd.verb = "POST" => h.inbox = <<>>
    BY <1>1 DEF Sound, Posting
  <2> QED
    BY <1>5, <2>1, <2>2, <2>3 DEF Posting
<1>9. Asked(h)
  <2>1. h.posting = TRUE => h.inbox = <<>>
    BY <1>1, <1>4 DEF Sound, Posting
  <2>2. ASSUME h.out # <<>>, h.out[Len(h.out)].kind = "340"
        PROVE  h.hung = FALSE /\ h.posting = TRUE
    <3>1. CASE o.hung \/ p = "banner"
      <4>1. o.hung = FALSE /\ o.pending = <<"240">>
        BY <1>1, <1>3, <2>2, <3>1 DEF Sound, Asked
      <4>2. o.pending = <<"banner">>
        BY <1>4, <3>1, <4>1
      <4>3. <<"banner">> # <<"240">>
        BY Tuples
      <4> QED
        BY <4>1, <4>2, <4>3
    <3>2. CASE ~(o.hung \/ p = "banner")
      <4> DEFINE part == [for |-> o.cmd, kind |-> p]
      <4>1. o.out \in Seq(Reply) /\ o.cmd \in Cmds /\ p \in Parts
        BY <1>2, SessionFacts DEF Parts, Codes
      <4>2. part \in Reply /\ part.kind = p
        BY <4>1 DEF Reply
      <4> HIDE DEF part
      <4>3. h.out = Append(o.out, part)
        BY <1>1, <3>2 DEF part
      <4>4. Len(h.out) = Len(o.out) + 1 /\ h.out[Len(o.out) + 1] = part
        BY <4>1, <4>2, <4>3, AppendProperties
      <4>5. p = "340"
        BY <2>2, <4>2, <4>4
      <4> QED
        BY <1>1, <1>3, <1>4, <3>2, <4>5
    <3> QED
      BY <3>1, <3>2
  <2> QED
    BY <1>5, <2>1, <2>2 DEF Asked
<1> QED
  BY <1>6, <1>7, <1>8, <1>9 DEF Sound

LEMMA SoundMove ==
    ASSUME config \in Configs, NEW o \in Session, NEW h \in Session, Sound(o), Move(o, h)
    PROVE  Sound(h)
<1>1. CASE o.at = "none" /\ Begun(h)
  BY <1>1, SoundBegun
<1>2. CASE \E cmd \in Cmds : Said(o, h, cmd) /\ Heard(o, cmd)
  BY <1>2, SoundSaid
<1>3. CASE Same(o, h)
  BY <1>3, SoundSame
<1>4. CASE \E k \in Codes \ {"240"} :
              /\ k = "340" => Head(o.inbox).verb = "POST"
              /\ o.posting = FALSE /\ Answered(o, h, k)
  BY <1>4, SoundCommanded
<1>5. CASE o.posting = TRUE /\ Answered(o, h, "240")
  BY <1>5, SoundCaptured
<1>6. CASE Passed(o, h)
  BY <1>6, SoundPassed
<1>7. CASE Gone(o, h)
  BY <1>7, SoundGone
<1> QED
  BY <1>1, <1>2, <1>3, <1>4, <1>5, <1>6, <1>7 DEF Move

SoundInv == \A c \in Conns : Sound(conn[c])

LEMMA SoundInit == Init => SoundInv
<1> SUFFICES ASSUME Init, NEW c \in Conns PROVE Sound(conn[c])
  BY DEF SoundInv
<1>1. conn[c] = Fresh("none") /\ config \in Configs
  BY DEF Init
<1>2. Begun(conn[c])
  BY <1>1, FreshIs DEF Begun
<1> QED
  BY <1>2, SoundBegun

LEMMA SoundStep == TypeOK /\ SoundInv /\ [Next]_vars => SoundInv'
<1> SUFFICES ASSUME TypeOK, SoundInv, [Next]_vars, NEW x \in Conns
             PROVE  Sound(conn'[x])
  BY DEF SoundInv
<1>1. Sound(conn[x]) /\ conn[x] \in Session /\ config \in Configs
  BY DEF SoundInv, TypeOK
<1>2. CASE conn' = conn
  BY <1>1, <1>2
<1>3. ASSUME NEW c \in Conns, Becomes(c, conn'[c]), Move(conn[c], conn'[c])
      PROVE  Sound(conn'[x])
  <2>1. CASE x = c
    BY <1>1, <1>3, <2>1, SoundMove DEF Becomes
  <2>2. CASE x # c
    BY <1>1, <1>3, <2>2 DEF Becomes
  <2> QED
    BY <2>1, <2>2
<1> QED
  BY <1>2, <1>3, Moves

-----------------------------------------------------------------------------
(* Posting                                                                  *)

Held(s, c) == {i \in DOMAIN s : s[i] = c}
Acks(s)    == {i \in DOMAIN s : s[i].kind = "240"}

\* One more position.
LEMMA OneMore ==
    ASSUME NEW n \in Nat, NEW T, T \subseteq 1..n
    PROVE  /\ Cardinality(T) \in Nat
           /\ Cardinality(T \cup {n + 1}) = Cardinality(T) + 1
<1>1. IsFiniteSet(1..n)
  BY FS_Interval
<1>2. IsFiniteSet(T)
  BY <1>1, FS_Subset
<1>3. n + 1 \notin T
  OBVIOUS
<1> QED
  BY <1>2, <1>3, FS_CardinalityType, FS_AddElement

LEMMA HeldOfMore ==
    ASSUME NEW s \in Seq(Conns), NEW c \in Conns, NEW x \in Conns
    PROVE  /\ Cardinality(Held(s, x)) \in Nat
           /\ Cardinality(Held(Append(s, c), x)) =
                 Cardinality(Held(s, x)) + (IF x = c THEN 1 ELSE 0)
<1>1. Len(s) \in Nat /\ DOMAIN s = 1..Len(s)
  OBVIOUS
<1>2. /\ DOMAIN Append(s, c) = 1..(Len(s) + 1) /\ Append(s, c)[Len(s) + 1] = c
      /\ \A i \in 1..Len(s) : Append(s, c)[i] = s[i]
  BY <1>1, AppendProperties
<1>3. Held(s, x) \subseteq 1..Len(s)
  BY <1>1 DEF Held
<1>4. Held(Append(s, c), x) = IF x = c THEN Held(s, x) \cup {Len(s) + 1} ELSE Held(s, x)
  <2>1. \A i : i \in 1..(Len(s) + 1) <=> i \in 1..Len(s) \/ i = Len(s) + 1
    BY <1>1
  <2>2. Len(s) + 1 \notin 1..Len(s)
    BY <1>1
  <2>3. CASE x = c
    BY <1>1, <1>2, <2>1, <2>2, <2>3 DEF Held
  <2>4. CASE x # c
    BY <1>1, <1>2, <2>1, <2>2, <2>4 DEF Held
  <2> QED
    BY <2>3, <2>4
<1>5. /\ Cardinality(Held(s, x)) \in Nat
      /\ Cardinality(Held(s, x) \cup {Len(s) + 1}) = Cardinality(Held(s, x)) + 1
  BY <1>1, <1>3, OneMore
<1> QED
  BY <1>4, <1>5

LEMMA AcksOfMore ==
    ASSUME NEW s \in Seq(Reply), NEW r \in Reply
    PROVE  /\ Cardinality(Acks(s)) \in Nat
           /\ Cardinality(Acks(Append(s, r))) =
                 Cardinality(Acks(s)) + (IF r.kind = "240" THEN 1 ELSE 0)
<1>1. Len(s) \in Nat /\ DOMAIN s = 1..Len(s)
  OBVIOUS
<1>2. /\ DOMAIN Append(s, r) = 1..(Len(s) + 1) /\ Append(s, r)[Len(s) + 1] = r
      /\ \A i \in 1..Len(s) : Append(s, r)[i] = s[i]
  BY <1>1, AppendProperties
<1>3. Acks(s) \subseteq 1..Len(s)
  BY <1>1 DEF Acks
<1>4. Acks(Append(s, r)) = IF r.kind = "240" THEN Acks(s) \cup {Len(s) + 1} ELSE Acks(s)
  <2>1. \A i : i \in 1..(Len(s) + 1) <=> i \in 1..Len(s) \/ i = Len(s) + 1
    BY <1>1
  <2>2. Len(s) + 1 \notin 1..Len(s)
    BY <1>1
  <2>3. CASE r.kind = "240"
    BY <1>1, <1>2, <2>1, <2>2, <2>3 DEF Acks
  <2>4. CASE r.kind # "240"
    BY <1>1, <1>2, <2>1, <2>2, <2>4 DEF Acks
  <2> QED
    BY <2>3, <2>4
<1>5. /\ Cardinality(Acks(s)) \in Nat
      /\ Cardinality(Acks(s) \cup {Len(s) + 1}) = Cardinality(Acks(s)) + 1
  BY <1>1, <1>3, OneMore
<1> QED
  BY <1>4, <1>5

\* Of n articles kept, all are acknowledged, but the last may not be yet, or
\* not ever on a connection that is over.
Balanced(n, g) ==
    /\ g.at # "closed" /\ g.pending = <<"240">> => n = Cardinality(Acks(g.out)) + 1
    /\ g.at # "closed" /\ g.pending # <<"240">> => n = Cardinality(Acks(g.out))
    /\ g.at = "closed" => n \in {Cardinality(Acks(g.out)), Cardinality(Acks(g.out)) + 1}

PostInv == \A c \in Conns : Balanced(Cardinality(Held(posted, c)), conn[c])

LEMMA BalancedPassed ==
    ASSUME NEW n, NEW o \in Session, NEW h \in Session, Sound(o), Passed(o, h), Balanced(n, o)
    PROVE  Balanced(n, h)
<1> DEFINE p == Head(o.pending)
           r == [for |-> o.cmd, kind |-> p]
<1>1. /\ o.at = "open" /\ o.pending # <<>> /\ h.at # "closed"
      /\ h.pending = IF p = "banner" \/ ~(Len(o.pending) > 1) THEN <<>> ELSE Tail(o.pending)
      /\ h.out = IF o.hung \/ p = "banner" THEN o.out ELSE Append(o.out, r)
  BY DEF Passed
<1>2. \/ /\ p \in (Codes \ Multi) \cup {"banner", "body"}
         /\ o.pending = <<p>> /\ ~(Len(o.pending) > 1)
      \/ p \in Multi /\ Len(o.pending) > 1 /\ o.pending = <<p, "body">> /\ Tail(o.pending) = <<"body">>
  BY <1>1, DueIs DEF Sound
<1>3. r \in Reply /\ r.kind = p /\ o.out \in Seq(Reply) /\ o.hung \in BOOLEAN
  <2>1. p \in Parts
    BY <1>2 DEF Parts, Codes
  <2> QED
    BY <2>1, SessionFacts DEF Reply
<1> HIDE DEF p, r
<1>4. h.pending # <<"240">>
  <2>1. "body" # "240"
    OBVIOUS
  <2>2. h.pending = <<>> \/ h.pending = <<"body">>
    BY <1>1, <1>2
  <2> QED
    BY <2>1, <2>2, Tuples
<1>5. o.pending = <<"240">> <=> p = "240"
  <2>1. CASE o.pending = <<p>>
    BY <2>1, Tuples
  <2>2. CASE p \in Multi /\ o.pending = <<p, "body">>
    <3>1. Len(o.pending) = 2 /\ Len(<<"240">>) = 1
      BY <2>2, Tuples
    <3> QED
      BY <2>2, <3>1, CodeFacts
  <2> QED
    BY <1>2, <2>1, <2>2
<1>6. n = Cardinality(Acks(o.out)) + (IF p = "240" THEN 1 ELSE 0)
  <2>1. Cardinality(Acks(o.out)) \in Nat
    BY <1>3, AcksOfMore
  <2> QED
    BY <1>1, <1>5, <2>1 DEF Balanced
<1>7. p = "240" => o.hung = FALSE
  BY <1>5 DEF Sound, Asked
<1>8. n = Cardinality(Acks(h.out))
  <2>1. CASE o.hung \/ p = "banner"
    <3>1. p # "240" /\ h.out = o.out
      BY <1>1, <1>7, <2>1
    <3>2. Cardinality(Acks(o.out)) \in Nat
      BY <1>3, AcksOfMore
    <3> QED
      BY <1>6, <3>1, <3>2
  <2>2. CASE ~(o.hung \/ p = "banner")
    <3>1. h.out = Append(o.out, r)
      BY <1>1, <2>2
    <3> QED
      BY <1>3, <1>6, <3>1, AcksOfMore
  <2> QED
    BY <2>1, <2>2
<1> QED
  BY <1>1, <1>4, <1>8 DEF Balanced

LEMMA PostStep == TypeOK /\ SoundInv /\ PostInv /\ [Next]_vars => PostInv'
<1> SUFFICES ASSUME TypeOK, SoundInv, PostInv, [Next]_vars, NEW x \in Conns
             PROVE  Balanced(Cardinality(Held(posted', x)), conn'[x])
  BY DEF PostInv
<1> DEFINE n == Cardinality(Held(posted, x))
<1>1. Sound(conn[x]) /\ conn[x] \in Session /\ config \in Configs /\ posted \in Seq(Conns)
  BY DEF SoundInv, TypeOK
<1>2. Balanced(n, conn[x])
  BY DEF PostInv
<1>3. Cardinality(Acks(conn[x].out)) \in Nat /\ n \in Nat
  <2>1. conn[x].out \in Seq(Reply)
    BY <1>1, SessionFacts
  <2>2. ASSUME NEW r \in Reply PROVE Cardinality(Acks(conn[x].out)) \in Nat
    BY <2>1, AcksOfMore
  <2>3. [for |-> NoCmd, kind |-> "body"] \in Reply
    BY DEF Reply, Parts, Cmds
  <2> QED
    BY <1>1, <2>2, <2>3, HeldOfMore
<1> HIDE DEF n
<1>4. CASE UNCHANGED <<conn, posted, script, scripted>>
  BY <1>2, <1>4 DEF n
<1>5. ASSUME NEW c \in Conns, Plain(c)
      PROVE  Balanced(Cardinality(Held(posted', x)), conn'[x])
  <2> DEFINE o == conn[x]
             h == conn'[x]
  <2>1. Cardinality(Held(posted', x)) = n
    BY <1>5 DEF Plain, n
  <2>2. CASE x # c
    <3>1. h = o
      BY <1>5, <2>2 DEF Plain, Becomes
    <3> QED
      BY <1>2, <2>1, <3>1
  <2>3. CASE x = c
    <3>1. h \in Session
      BY <1>5, <2>3 DEF Plain, Becomes
    <3>2. CASE o.at = "none" /\ Begun(h)
      <4>1. o.out = <<>> /\ o.pending = <<>>
        BY <1>1, <3>2 DEF Sound, Quiet, Begun
      <4>2. h.out = o.out /\ h.pending # <<"240">>
        <5>1. h.pending = <<>> \/ h.pending = <<"banner">>
          BY <3>2 DEF Begun
        <5>2. "banner" # "240"
          OBVIOUS
        <5> QED
          BY <3>2, <4>1, <5>1, <5>2, Tuples DEF Begun
      <4>3. n = Cardinality(Acks(o.out))
        BY <1>2, <3>2, <4>1, Tuples DEF Balanced
      <4> QED
        BY <2>1, <4>2, <4>3 DEF Balanced
    <3>3. CASE \E cmd \in config.menu \cup {Text} : Said(o, h, cmd) /\ Heard(o, cmd)
      BY <1>2, <2>1, <3>3 DEF Said, Balanced
    <3>4. CASE Same(o, h)
      BY <1>2, <2>1, <3>4 DEF Same, Balanced
    <3>5. CASE \E k : Commanded(c, k) /\ Unscripted(c, k)
      <4>1. PICK k : Commanded(c, k)
        BY <3>5
      <4>2. Answered(o, h, k) /\ k \in Codes \ {"240"}
        BY <2>3, <4>1 DEF Commanded
      <4>3. /\ o.pending = <<>> /\ o.at = "open" /\ h.at = "open" /\ h.out = o.out
            /\ h.pending = IF k \in Multi THEN <<k, "body">> ELSE <<k>>
        BY <4>2 DEF Answered
      <4>4. h.pending # <<"240">> /\ o.pending # <<"240">>
        <5>1. Head(h.pending) = k
          BY <4>3, Tuples
        <5> QED
          BY <4>2, <4>3, <5>1, Tuples
      <4> QED
        BY <1>2, <2>1, <4>3, <4>4 DEF Balanced
    <3>6. CASE Passed(o, h)
      BY <1>1, <1>2, <2>1, <3>1, <3>6, BalancedPassed
    <3>7. CASE Gone(o, h)
      <4>1. o.at # "closed" /\ h.at = "closed" /\ h.out = o.out
        BY <3>7 DEF Gone
      <4> QED
        BY <1>2, <2>1, <4>1 DEF Balanced
    <3> HIDE DEF o, h
    <3> QED
      BY <1>5, <2>3, <3>2, <3>3, <3>4, <3>5, <3>6, <3>7 DEF Plain, o, h
  <2> QED
    BY <2>2, <2>3
<1>6. ASSUME NEW c \in Conns, ArticleSequenced(c)
      PROVE  Balanced(Cardinality(Held(posted', x)), conn'[x])
  <2>1. Cardinality(Held(posted', x)) = n
    BY <1>6 DEF ArticleSequenced, n
  <2>2. PICK k : Commanded(c, k)
    BY <1>6, SequencedStep
  <2>3. CASE x # c
    BY <1>2, <2>1, <2>2, <2>3 DEF Commanded, Becomes
  <2>4. CASE x = c
    <3> DEFINE o == conn[x]
               h == conn'[x]
    <3>1. Answered(o, h, k) /\ k \in Codes \ {"240"}
      BY <2>2, <2>4 DEF Commanded
    <3>2. /\ o.pending = <<>> /\ o.at = "open" /\ h.at = "open" /\ h.out = o.out
          /\ h.pending = IF k \in Multi THEN <<k, "body">> ELSE <<k>>
      BY <3>1 DEF Answered
    <3>3. h.pending # <<"240">> /\ o.pending # <<"240">>
      <4>1. Head(h.pending) = k
        BY <3>2, Tuples
      <4> QED
        BY <3>1, <3>2, <4>1, Tuples
    <3> QED
      BY <1>2, <2>1, <3>2, <3>3 DEF Balanced
  <2> QED
    BY <2>3, <2>4
<1>7. ASSUME NEW c \in Conns, Captured(c)
      PROVE  Balanced(Cardinality(Held(posted', x)), conn'[x])
  <2>1. /\ conn[c].posting = TRUE /\ posted' = Append(posted, c)
        /\ Becomes(c, conn'[c]) /\ Answered(conn[c], conn'[c], "240")
    BY <1>7, CapturedStep
  <2>2. Cardinality(Held(posted', x)) = n + (IF x = c THEN 1 ELSE 0)
    BY <1>1, <2>1, HeldOfMore DEF n
  <2>3. CASE x # c
    BY <1>2, <1>3, <2>1, <2>2, <2>3 DEF Becomes
  <2>4. CASE x = c
    <3> DEFINE o == conn[x]
               h == conn'[x]
    <3>1. h \in Session /\ Answered(o, h, "240")
      BY <2>1, <2>4 DEF Becomes
    <3>2. h.pending = <<"240">>
      BY <1>1, <2>1, <2>4, <3>1, SoundCaptured
    <3>3. o.pending = <<>> /\ o.at = "open" /\ h.at = "open" /\ h.out = o.out
      BY <3>1 DEF Answered
    <3>4. n = Cardinality(Acks(o.out))
      BY <1>2, <3>3, Tuples DEF Balanced
    <3> QED
      BY <2>2, <2>4, <3>2, <3>3, <3>4 DEF Balanced
  <2> QED
    BY <2>3, <2>4
<1> QED
  BY <1>4, <1>5, <1>6, <1>7, Steps

(* An article acknowledged with 240 was captured, once; and one captured    *)
(* without having been acknowledged is about to be or its connection closed: *)
(* POST is asked for and answered by sessions that do not hang.             *)
THEOREM PostedCorrect == Spec => []PostedOnce
<1>1. Init => PostInv
  <2> SUFFICES ASSUME Init, NEW c \in Conns
               PROVE  Balanced(Cardinality(Held(posted, c)), conn[c])
    BY DEF PostInv
  <2>1. posted = <<>> /\ conn[c] = Fresh("none") /\ config \in Configs
    BY DEF Init
  <2>2. conn[c].at = "none" /\ conn[c].pending = <<>> /\ conn[c].out = <<>>
    BY <2>1, FreshIs
  <2>3. Held(posted, c) = {} /\ Acks(conn[c].out) = {}
    BY <2>1, <2>2 DEF Held, Acks
  <2> QED
    BY <2>2, <2>3, Tuples DEF Balanced
<1>2. TypeOK /\ PostInv => PostedOnce
  <2> SUFFICES ASSUME TypeOK, PostInv PROVE PostedOnce
    OBVIOUS
  <2>1. ASSUME NEW c \in Conns
        PROVE  LET kept == Cardinality(Held(posted, c))
                   acks == Cardinality(Acks(conn[c].out))
               IN  /\ acks <= kept
                   /\ acks < kept => acks + 1 = kept /\ (conn[c].pending # <<>> \/ conn[c].at = "closed")
    <3>1. Balanced(Cardinality(Held(posted, c)), conn[c])
      BY DEF PostInv
    <3>2. Cardinality(Acks(conn[c].out)) \in Nat
      <4>1. conn[c].out \in Seq(Reply)
        BY DEF TypeOK, Session
      <4>2. [for |-> NoCmd, kind |-> "body"] \in Reply
        BY DEF Reply, Parts, Cmds
      <4> QED
        BY <4>1, <4>2, AcksOfMore
    <3>3. PICK a \in Nat : a = Cardinality(Acks(conn[c].out))
      BY <3>2
    <3>4. PICK n : n = Cardinality(Held(posted, c))
      OBVIOUS
    <3>5. \/ n = a + 1 /\ conn[c].pending = <<"240">>
          \/ n = a
          \/ n \in {a, a + 1} /\ conn[c].at = "closed"
      BY <3>1, <3>3, <3>4 DEF Balanced
    <3>6. a <= n /\ (a < n => a + 1 = n /\ (conn[c].pending # <<>> \/ conn[c].at = "closed"))
      BY <3>5, Tuples
    <3> QED
      BY <3>3, <3>4, <3>6
  <2> QED
    BY <2>1 DEF PostedOnce, Held, Acks
<1> QED
  BY <1>1, <1>2, MockTypeCorrect, SoundInit, SoundStep, PostStep, PTL DEF Spec

-----------------------------------------------------------------------------
(* The wire                                                                 *)

Line(cmd) == [for |-> cmd, part |-> "line"]
Lines(s)  == [i \in DOMAIN s |-> Line(s[i])]
Dues      == [for : Cmds, part : {"line", "body"}]

LEMMA LinesAre ==
    ASSUME NEW s \in Seq(Cmds)
    PROVE  /\ Lines(s) \in Seq(Dues) /\ Len(Lines(s)) = Len(s)
           /\ \A i \in 1..Len(s) : Lines(s)[i] = Line(s[i])
<1>1. Len(s) \in Nat /\ DOMAIN s = 1..Len(s) /\ \A i \in 1..Len(s) : s[i] \in Cmds
  OBVIOUS
<1>2. \A i \in 1..Len(s) : Line(s[i]) \in Dues
  BY <1>1 DEF Line, Dues
<1> QED
  BY <1>1, <1>2 DEF Lines

LEMMA SameElements ==
    ASSUME NEW S, NEW s \in Seq(S), NEW t \in Seq(S), Len(s) = Len(t),
           \A i \in 1..Len(s) : s[i] = t[i]
    PROVE  s = t
  BY SeqEqual

LEMMA LinesOfMore ==
    ASSUME NEW s \in Seq(Cmds), NEW cmd \in Cmds
    PROVE  Lines(Append(s, cmd)) = Append(Lines(s), Line(cmd))
<1>1. /\ Append(s, cmd) \in Seq(Cmds) /\ Len(Append(s, cmd)) = Len(s) + 1 /\ Len(s) \in Nat
      /\ \A i \in 1..Len(s) : Append(s, cmd)[i] = s[i]
      /\ Append(s, cmd)[Len(s) + 1] = cmd
  BY AppendProperties
<1>2. Line(cmd) \in Dues
  BY DEF Line, Dues
<1> DEFINE a == Lines(Append(s, cmd))
           b == Append(Lines(s), Line(cmd))
<1>3. /\ a \in Seq(Dues) /\ Len(a) = Len(s) + 1
      /\ \A i \in 1..(Len(s) + 1) : a[i] = Line(Append(s, cmd)[i])
  BY <1>1, LinesAre
<1>4. /\ b \in Seq(Dues) /\ Len(b) = Len(s) + 1
      /\ \A i \in 1..Len(s) : b[i] = Line(s[i])
      /\ b[Len(s) + 1] = Line(cmd)
  <2>1. /\ Lines(s) \in Seq(Dues) /\ Len(Lines(s)) = Len(s)
        /\ \A i \in 1..Len(s) : Lines(s)[i] = Line(s[i])
    BY LinesAre
  <2>2. /\ b \in Seq(Dues) /\ Len(b) = Len(Lines(s)) + 1
        /\ \A i \in 1..Len(Lines(s)) : b[i] = Lines(s)[i]
        /\ b[Len(Lines(s)) + 1] = Line(cmd)
    BY <1>2, <2>1, AppendProperties
  <2> QED
    BY <2>1, <2>2
<1> HIDE DEF a, b
<1>5. \A i \in 1..Len(a) : a[i] = b[i]
  <2> TAKE i \in 1..Len(a)
  <2>1. CASE i = Len(s) + 1
    BY <1>1, <1>3, <1>4, <2>1
  <2>2. CASE i # Len(s) + 1
    <3>1. i \in 1..Len(s) /\ i \in 1..(Len(s) + 1)
      BY <1>1, <1>3, <2>2
    <3> QED
      BY <1>1, <1>3, <1>4, <3>1
  <2> QED
    BY <2>1, <2>2
<1>6. a = b
  BY <1>3, <1>4, <1>5, SameElements
<1> QED
  BY <1>6 DEF a, b

LEMMA LinesOfFirst ==
    ASSUME NEW s \in Seq(Cmds), s # <<>>
    PROVE  <<Line(Head(s))>> \o Lines(Tail(s)) = Lines(s)
<1>1. /\ Len(s) \in Nat \ {0} /\ Head(s) = s[1] /\ Head(s) \in Cmds /\ Tail(s) \in Seq(Cmds)
      /\ Len(Tail(s)) = Len(s) - 1
      /\ \A i \in 1..(Len(s) - 1) : Tail(s)[i] = s[i + 1]
  BY InboxIs
<1> DEFINE a == <<Line(Head(s))>> \o Lines(Tail(s))
           b == Lines(s)
<1>2. /\ a \in Seq(Dues) /\ Len(a) = Len(s) /\ a[1] = Line(s[1])
      /\ \A i \in 2..Len(s) : a[i] = Line(s[i])
  <2>1. /\ Lines(Tail(s)) \in Seq(Dues) /\ Len(Lines(Tail(s))) = Len(s) - 1
        /\ \A i \in 1..(Len(s) - 1) : Lines(Tail(s))[i] = Line(Tail(s)[i])
    BY <1>1, LinesAre
  <2>2. Line(Head(s)) \in Dues
    BY <1>1 DEF Line, Dues
  <2> DEFINE l == Lines(Tail(s))
             x == Line(Head(s))
  <2> HIDE DEF l, x
  <2>3. l \in Seq(Dues) /\ x \in Dues /\ Len(l) = Len(s) - 1
    BY <2>1, <2>2 DEF l, x
  <2>4. /\ (<<x>> \o l) \in Seq(Dues) /\ Len(<<x>> \o l) = Len(l) + 1 /\ (<<x>> \o l)[1] = x
        /\ \A i \in 2..(Len(l) + 1) : (<<x>> \o l)[i] = l[i - 1]
    BY <2>3
  <2>5. \A i \in 2..Len(s) : (<<x>> \o l)[i] = Line(s[i])
    <3> TAKE i \in 2..Len(s)
    <3>1. i - 1 \in 1..(Len(s) - 1) /\ i \in 2..(Len(l) + 1) /\ (i - 1) + 1 = i
      BY <1>1, <2>3
    <3>2. l[i - 1] = Line(Tail(s)[i - 1])
      BY <2>1, <3>1 DEF l
    <3>3. Tail(s)[i - 1] = s[(i - 1) + 1]
      BY <1>1, <3>1
    <3> QED
      BY <2>4, <3>1, <3>2, <3>3
  <2>6. Len(l) + 1 = Len(s) /\ x = Line(s[1])
    BY <1>1, <2>3 DEF x
  <2> QED
    BY <2>4, <2>5, <2>6 DEF l, x
<1>3. b \in Seq(Dues) /\ Len(b) = Len(s) /\ \A i \in 1..Len(s) : b[i] = Line(s[i])
  BY LinesAre
<1> HIDE DEF a, b
<1>4. \A i \in 1..Len(a) : a[i] = b[i]
  BY <1>1, <1>2, <1>3
<1>5. a = b
  BY <1>2, <1>3, <1>4, SameElements
<1> QED
  BY <1>5 DEF a, b

\* What is due for a session that lives.
LEMMA OwedIs ==
    ASSUME NEW g, Alive(g)
    PROVE  /\ g.hung = TRUE => Owed(g) = Lines(g.ignored \o g.inbox)
           /\ g.hung = FALSE /\ (g.cmd.verb = "-" \/ g.pending = <<>>) => Owed(g) = Lines(g.inbox)
           /\ g.hung = FALSE /\ g.cmd.verb # "-" /\ g.pending # <<>> =>
                 Owed(g) = <<[for |-> g.cmd, part |-> IF Head(g.pending) = "body" THEN "body" ELSE "line"]>>
                           \o Lines(g.inbox)
  BY DEF Owed, Lines, Line

\* One element between two sequences.
Joined(s, t, e) ==
    /\ <<>> \o t = t
    /\ s \o Append(t, e) = Append(s \o t, e)
    /\ Append(s, e) \o t = s \o (<<e>> \o t)

LEMMA Joins ==
    ASSUME NEW S, NEW s \in Seq(S), NEW t \in Seq(S), NEW e \in S
    PROVE  s \o t \in Seq(S) /\ Joined(s, t, e)
<1>1. s \o t \in Seq(S) /\ <<>> \o t = t
  OBVIOUS
<1>2. s \o Append(t, e) = Append(s \o t, e)
  OBVIOUS
<1>3. Append(s, e) \o t = s \o (<<e>> \o t)
  OBVIOUS
<1> QED
  BY <1>1, <1>2, <1>3 DEF Joined

LEMMA OwedSaid ==
    ASSUME NEW o \in Session, NEW h \in Session, NEW cmd \in Cmds, Said(o, h, cmd)
    PROVE  Owed(h) = Append(Owed(o), Line(cmd))
<1>1. /\ o.inbox \in Seq(Cmds) /\ o.ignored \in Seq(Cmds) /\ o.hung \in BOOLEAN /\ o.cmd \in Cmds
  BY SessionFacts
<1>2. /\ h.inbox = Append(o.inbox, cmd) /\ h.pending = o.pending /\ h.cmd = o.cmd
      /\ h.hung = o.hung /\ h.ignored = o.ignored /\ Alive(o) /\ Alive(h)
  BY DEF Said, Kept, Alive
<1>3. CASE o.hung = TRUE
  <2>1. /\ o.ignored \o o.inbox \in Seq(Cmds)
        /\ o.ignored \o Append(o.inbox, cmd) = Append(o.ignored \o o.inbox, cmd)
    <3>1. o.ignored \o o.inbox \in Seq(Cmds) /\ Joined(o.ignored, o.inbox, cmd)
      BY <1>1, Joins
    <3> QED
      BY <3>1 DEF Joined
  <2>2. Owed(o) = Lines(o.ignored \o o.inbox) /\ Owed(h) = Lines(o.ignored \o Append(o.inbox, cmd))
    BY <1>2, <1>3, OwedIs
  <2> QED
    BY <2>1, <2>2, LinesOfMore
<1>4. CASE o.hung = FALSE /\ (o.cmd.verb = "-" \/ o.pending = <<>>)
  <2>1. Owed(o) = Lines(o.inbox) /\ Owed(h) = Lines(Append(o.inbox, cmd))
    BY <1>2, <1>4, OwedIs
  <2> QED
    BY <1>1, <2>1, LinesOfMore
<1>5. CASE o.hung = FALSE /\ o.cmd.verb # "-" /\ o.pending # <<>>
  <2> DEFINE d == [for |-> o.cmd, part |-> IF Head(o.pending) = "body" THEN "body" ELSE "line"]
  <2>1. Owed(o) = <<d>> \o Lines(o.inbox) /\ Owed(h) = <<d>> \o Lines(Append(o.inbox, cmd))
    BY <1>2, <1>5, OwedIs
  <2>2. d \in Dues /\ Line(cmd) \in Dues
    BY <1>1 DEF Dues, Line
  <2> HIDE DEF d
  <2>3. Lines(o.inbox) \in Seq(Dues)
    BY <1>1, LinesAre
  <2>4. Lines(Append(o.inbox, cmd)) = Append(Lines(o.inbox), Line(cmd))
    BY <1>1, LinesOfMore
  <2>5. \A l \in Seq(Dues) : \A e \in Dues : <<d>> \o Append(l, e) = Append(<<d>> \o l, e)
    BY <2>2
  <2> QED
    BY <2>1, <2>2, <2>3, <2>4, <2>5
<1> QED
  BY <1>1, <1>3, <1>4, <1>5

\* Reading a command changes nothing of what is due.
LEMMA OwedAnswered ==
    ASSUME NEW o \in Session, NEW h \in Session, Sound(o), NEW k \in Codes, Answered(o, h, k)
    PROVE  Owed(h) = Owed(o)
<1>1. /\ o.inbox \in Seq(Cmds) /\ o.ignored \in Seq(Cmds) /\ o.hung \in BOOLEAN /\ h.hung \in BOOLEAN
  BY SessionFacts
<1>2. /\ o.inbox # <<>> /\ o.pending = <<>> /\ h.inbox = Tail(o.inbox) /\ h.cmd = Head(o.inbox)
      /\ o.hung = TRUE => h.hung = TRUE
      /\ h.hung = TRUE => h.ignored = Append(o.ignored, Head(o.inbox))
  BY <1>1 DEF Answered
<1>3. Alive(o) /\ Alive(h)
  BY DEF Answered, Alive
<1>4. ~o.hung => o.ignored = <<>>
  BY DEF Sound, Quiet
<1>5. Head(h.pending) = k /\ h.pending # <<>> /\ h.cmd.verb # "-" /\ k # "body"
  BY AnsweredDue, CodeFacts
<1>6. /\ Head(o.inbox) \in Cmds /\ Tail(o.inbox) \in Seq(Cmds) /\ o.inbox = <<Head(o.inbox)>> \o Tail(o.inbox)
  BY <1>1, <1>2, InboxIs
<1>7. Append(o.ignored, Head(o.inbox)) \o Tail(o.inbox) = o.ignored \o o.inbox
  <2>1. Append(o.ignored, Head(o.inbox)) \o Tail(o.inbox)
          = o.ignored \o (<<Head(o.inbox)>> \o Tail(o.inbox))
    <3>1. Joined(o.ignored, Tail(o.inbox), Head(o.inbox))
      BY <1>1, <1>6, Joins
    <3> QED
      BY <3>1 DEF Joined
  <2> QED
    BY <1>6, <2>1
<1>8. CASE o.hung = TRUE
  BY <1>2, <1>3, <1>7, <1>8, OwedIs
<1>9. CASE o.hung = FALSE /\ h.hung = TRUE
  <2>1. o.ignored \o o.inbox = o.inbox
    <3>1. o.ignored = <<>>
      BY <1>4, <1>9
    <3>2. Joined(o.ignored, o.inbox, Head(o.inbox))
      BY <1>1, <1>6, Joins
    <3> QED
      BY <3>1, <3>2 DEF Joined
  <2>2. Owed(o) = Lines(o.inbox)
    BY <1>2, <1>3, <1>9, OwedIs
  <2>3. Owed(h) = Lines(Append(o.ignored, Head(o.inbox)) \o Tail(o.inbox))
    BY <1>2, <1>3, <1>9, OwedIs
  <2> QED
    BY <1>7, <2>1, <2>2, <2>3
<1>10. CASE o.hung = FALSE /\ h.hung = FALSE
  <2>1. Owed(o) = Lines(o.inbox)
    BY <1>2, <1>3, <1>10, OwedIs
  <2>2. Owed(h) = <<Line(Head(o.inbox))>> \o Lines(Tail(o.inbox))
    BY <1>2, <1>3, <1>5, <1>10, OwedIs DEF Line
  <2> QED
    BY <1>1, <1>2, <2>1, <2>2, LinesOfFirst
<1> QED
  BY <1>1, <1>8, <1>9, <1>10

\* The code that is due announces a body exactly if it does for its command.
Fitting(g) ==
    g.pending # <<>> => Head(g.pending) \in {"body", "banner"} \/ Fits(g.cmd, Head(g.pending))

LEMMA FittingMove ==
    ASSUME NEW o \in Session, NEW h \in Session, Sound(o), Fitting(o), Move(o, h)
    PROVE  Fitting(h)
<1>1. CASE Begun(h)
  <2>1. h.pending = <<>> \/ h.pending = <<"banner">>
    BY <1>1 DEF Begun
  <2> QED
    BY <2>1, Tuples DEF Fitting
<1>2. CASE Same(o, h) \/ \E cmd \in Cmds : Said(o, h, cmd)
  BY <1>2 DEF Same, Said, Kept, Fitting
<1>3. ASSUME NEW k \in Codes, Answered(o, h, k), Fits(Head(o.inbox), k)
      PROVE  Fitting(h)
  <2>1. Head(h.pending) = k
    BY <1>3, AnsweredDue
  <2>2. h.cmd = Head(o.inbox)
    BY <1>3 DEF Answered
  <2> QED
    BY <1>3, <2>1, <2>2 DEF Fitting
<1>4. CASE Answered(o, h, "240")
  <2>1. "240" \in Codes /\ Fits(Head(o.inbox), "240")
    BY CodeFacts, NoBody
  <2> QED
    BY <1>3, <1>4, <2>1
<1>5. CASE Passed(o, h)
  <2> DEFINE p == Head(o.pending)
  <2>1. o.pending # <<>> /\ h.pending = IF p = "banner" \/ ~(Len(o.pending) > 1) THEN <<>> ELSE Tail(o.pending)
    BY <1>5 DEF Passed
  <2>2. Len(o.pending) > 1 => Tail(o.pending) = <<"body">>
    BY <2>1, DueIs DEF Sound
  <2> HIDE DEF p
  <2>3. h.pending = <<>> \/ h.pending = <<"body">>
    BY <2>1, <2>2
  <2> QED
    BY <2>3, Tuples DEF Fitting
<1>6. CASE Gone(o, h)
  <2>1. h.pending = <<>>
    BY <1>6 DEF Gone
  <2> QED
    BY <2>1 DEF Fitting
<1> QED
  BY <1>1, <1>2, <1>3, <1>4, <1>5, <1>6 DEF Move

FitInv == \A c \in Conns : Fitting(conn[c])

LEMMA FitInit == Init => FitInv
<1> SUFFICES ASSUME Init, NEW c \in Conns PROVE Fitting(conn[c])
  BY DEF FitInv
<1>1. conn[c] = Fresh("none") /\ config \in Configs
  BY DEF Init
<1>2. conn[c].pending = <<>>
  BY <1>1 DEF Fresh
<1> QED
  BY <1>2 DEF Fitting

LEMMA FitStep == TypeOK /\ TypeOK' /\ SoundInv /\ FitInv /\ [Next]_vars => FitInv'
<1> SUFFICES ASSUME TypeOK, TypeOK', SoundInv, FitInv, [Next]_vars, NEW x \in Conns
             PROVE  Fitting(conn'[x])
  BY DEF FitInv
<1>1. Sound(conn[x]) /\ Fitting(conn[x]) /\ conn[x] \in Session /\ conn'[x] \in Session
  BY DEF SoundInv, FitInv, TypeOK
<1>2. CASE conn' = conn
  BY <1>1, <1>2
<1>3. ASSUME NEW c \in Conns, Becomes(c, conn'[c]), Move(conn[c], conn'[c])
      PROVE  Fitting(conn'[x])
  <2>1. CASE x = c
    BY <1>1, <1>3, <2>1, FittingMove
  <2>2. CASE x # c
    BY <1>1, <1>3, <2>2 DEF Becomes
  <2> QED
    BY <2>1, <2>2
<1> QED
  BY <1>2, <1>3, Moves

\* A session that writes: the next part that it owes.
Wrote(o, h, p) ==
    /\ Owed(o) # <<>> /\ h.out = Append(o.out, [for |-> Head(Owed(o)).for, kind |-> p])
    /\ \/ /\ Head(Owed(o)).part = "line"
          /\ Owed(h) = IF p \in BodyCodes(Head(Owed(o)).for)
                       THEN <<[for |-> Head(Owed(o)).for, part |-> "body"]>> \o Tail(Owed(o))
                       ELSE Tail(Owed(o))
       \/ Head(Owed(o)).part = "body" /\ p = "body" /\ Owed(h) = Tail(Owed(o))

LEMMA OwedPassed ==
    ASSUME NEW o \in Session, NEW h \in Session, Sound(o), Fitting(o), Passed(o, h)
    PROVE  \/ Owed(h) = Owed(o) /\ h.out = o.out
           \/ Wrote(o, h, Head(o.pending))
<1> DEFINE p == Head(o.pending)
<1>1. /\ o.pending # <<>> /\ h.inbox = o.inbox /\ h.cmd = o.cmd /\ h.hung = o.hung
      /\ h.ignored = o.ignored /\ Alive(o) /\ Alive(h)
      /\ h.pending = IF p = "banner" \/ ~(Len(o.pending) > 1) THEN <<>> ELSE Tail(o.pending)
      /\ h.out = IF o.hung \/ p = "banner" THEN o.out
                 ELSE Append(o.out, [for |-> o.cmd, kind |-> p])
  BY DEF Passed, Kept, Alive
<1>2. \/ /\ p \in (Codes \ Multi) \cup {"banner", "body"}
         /\ o.pending = <<p>> /\ ~(Len(o.pending) > 1)
      \/ p \in Multi /\ Len(o.pending) > 1 /\ o.pending = <<p, "body">> /\ Tail(o.pending) = <<"body">>
  BY <1>1, DueIs DEF Sound
<1>3. o.hung \in BOOLEAN /\ o.inbox \in Seq(Cmds) /\ o.cmd \in Cmds
  BY SessionFacts
<1>4. Lines(o.inbox) \in Seq(Dues)
  BY <1>3, LinesAre
<1>5. p \in {"body", "banner"} \/ Fits(o.cmd, p)
  BY <1>1 DEF Fitting
<1> HIDE DEF p
<1>6. CASE o.hung = TRUE
  <2>1. Owed(o) = Lines(o.ignored \o o.inbox) /\ Owed(h) = Lines(o.ignored \o o.inbox)
    BY <1>1, <1>6, OwedIs
  <2> QED
    BY <1>1, <1>6, <2>1
<1>7. CASE o.hung = FALSE /\ p = "banner"
  <2>1. o.pending = <<"banner">>
    BY <1>2, <1>7, CodeFacts
  <2>2. o.cmd.verb = "-" /\ h.pending = <<>>
    BY <1>1, <1>7, <2>1 DEF Sound, Quiet
  <2>3. Owed(o) = Lines(o.inbox) /\ Owed(h) = Lines(o.inbox)
    BY <1>1, <1>7, <2>2, OwedIs
  <2> QED
    BY <1>1, <1>7, <2>3
<1>8. CASE o.hung = FALSE /\ p # "banner"
  <2> DEFINE d == [for |-> o.cmd, part |-> IF p = "body" THEN "body" ELSE "line"]
  <2>1. o.cmd.verb # "-"
    <3>1. o.pending # <<"banner">>
      BY <1>8, Tuples DEF p
    <3> QED
      BY <1>1, <3>1 DEF Sound, Quiet
  <2>2. Owed(o) = <<d>> \o Lines(o.inbox)
    BY <1>1, <1>8, <2>1, OwedIs DEF p
  <2>3. d \in Dues /\ d.for = o.cmd /\ d.part = IF p = "body" THEN "body" ELSE "line"
    BY <1>3 DEF Dues
  <2> HIDE DEF d
  <2>4. /\ <<d>> \o Lines(o.inbox) # <<>> /\ Head(<<d>> \o Lines(o.inbox)) = d
        /\ Tail(<<d>> \o Lines(o.inbox)) = Lines(o.inbox)
    <3>1. \A l \in Seq(Dues) : <<d>> \o l # <<>> /\ Head(<<d>> \o l) = d /\ Tail(<<d>> \o l) = l
      BY <2>3
    <3> QED
      BY <1>4, <3>1
  <2>5. h.out = Append(o.out, [for |-> d.for, kind |-> p])
    BY <1>1, <1>8, <2>3
  <2>6. p # "body" => (p \in Multi <=> p \in BodyCodes(d.for))
    BY <1>5, <1>8, <2>3 DEF Fits
  <2>7. CASE p \in Multi /\ Len(o.pending) > 1 /\ Tail(o.pending) = <<"body">>
    <3>1. p # "body"
      BY <2>7, CodeFacts
    <3>2. h.pending = <<"body">>
      BY <1>1, <1>8, <2>7
    <3>3. Head(h.pending) = "body" /\ h.pending # <<>>
      BY <3>2, Tuples
    <3>4. Owed(h) = <<[for |-> o.cmd, part |-> "body"]>> \o Lines(o.inbox)
      BY <1>1, <1>8, <2>1, <3>3, OwedIs
    <3> QED
      BY <2>2, <2>3, <2>4, <2>5, <2>6, <2>7, <3>1, <3>4 DEF Wrote, p
  <2>8. CASE p \in (Codes \ Multi) \cup {"banner", "body"} /\ ~(Len(o.pending) > 1)
    <3>1. p \notin Multi
      BY <2>8, CodeFacts
    <3>2. h.pending = <<>>
      BY <1>1, <2>8
    <3>3. Owed(h) = Lines(o.inbox)
      BY <1>1, <1>8, <3>2, OwedIs
    <3>4. \/ d.part = "line" /\ p # "body"
          \/ d.part = "body" /\ p = "body"
      BY <2>3
    <3> QED
      BY <2>2, <2>3, <2>4, <2>5, <2>6, <3>1, <3>3, <3>4 DEF Wrote, p
  <2> QED
    BY <1>2, <2>7, <2>8
<1> QED
  BY <1>3, <1>6, <1>7, <1>8

\* What a step does to the wire of the connection c.
Serves(c) ==
    UNCHANGED <<Owed(conn[c]), conn[c].out, Alive(conn[c])>> \/ WireStep(c)

LEMMA WireSame ==
    ASSUME NEW c \in Conns, Owed(conn'[c]) = Owed(conn[c]), conn'[c].out = conn[c].out,
           Alive(conn'[c]) <=> Alive(conn[c])
    PROVE  Serves(c)
<1>1. Alive(conn'[c]) = Alive(conn[c])
  BY DEF Alive
<1> QED
  BY <1>1 DEF Serves

LEMMA WireOpens ==
    ASSUME NEW c \in Conns, Owed(conn'[c]) = <<>>, conn'[c].out = <<>>, Alive(conn'[c])
    PROVE  Serves(c)
<1>1. Alive(conn[c])' = TRUE
  BY DEF Alive
<1>2. W(c)!OpenWire
  BY <1>1 DEF W!OpenWire
<1> QED
  BY <1>2 DEF Serves, WireStep

LEMMA WireCloses ==
    ASSUME NEW c \in Conns, Alive(conn[c]), ~Alive(conn'[c]), conn'[c].out = conn[c].out
    PROVE  Serves(c)
<1>1. Alive(conn[c])' = FALSE
  BY DEF Alive
<1>2. Owed(conn'[c]) = <<>>
  BY DEF Owed
<1>3. W(c)!ServerClose
  BY <1>1, <1>2 DEF W!ServerClose
<1> QED
  BY <1>3 DEF Serves, WireStep

LEMMA WireSays ==
    ASSUME NEW c \in Conns, NEW cmd \in config.menu \cup {Text}, Alive(conn[c]), Alive(conn'[c]),
           Owed(conn'[c]) = Append(Owed(conn[c]), Line(cmd)), conn'[c].out = conn[c].out
    PROVE  Serves(c)
<1>1. Alive(conn'[c]) = Alive(conn[c])
  BY DEF Alive
<1>2. W(c)!WriteCmd(cmd)
  BY DEF W!WriteCmd, Line
<1> QED
  BY <1>1, <1>2 DEF Serves, WireStep

LEMMA WireWrites ==
    ASSUME NEW c \in Conns, NEW p, Alive(conn[c]), Alive(conn'[c]), Wrote(conn[c], conn'[c], p),
           p \in Kinds'
    PROVE  Serves(c)
<1>1. Alive(conn'[c]) = Alive(conn[c])
  BY DEF Alive
<1>2. W(c)!SendPart(Kinds', BodyCodes(Head(Owed(conn[c])).for))
  BY <1>1 DEF W!SendPart, Wrote
<1> QED
  BY <1>2 DEF Serves, WireStep

LEMMA KindsOfMore ==
    ASSUME NEW c \in Conns, conn'[c] \in Session, conn[c] \in Session, NEW r,
           conn'[c].out = Append(conn[c].out, r), r \in Reply
    PROVE  r.kind \in Kinds'
<1>1. conn[c].out \in Seq(Reply)
  BY SessionFacts
<1> DEFINE i == Len(conn[c].out) + 1
<1>2. conn'[c].out[i] = r /\ i \in DOMAIN conn'[c].out
  BY <1>1, AppendProperties
<1>3. r.kind \in {p.kind : p \in {conn'[c].out[j] : j \in DOMAIN conn'[c].out}}
  BY <1>2
<1> QED
  BY <1>3 DEF Kinds

LEMMA ServeStep ==
    ASSUME TypeOK, SoundInv, FitInv, SoundInv', TypeOK', [Next]_vars, NEW x \in Conns
    PROVE  Serves(x)
<1> DEFINE o == conn[x]
           h == conn'[x]
<1>1. o \in Session /\ h \in Session /\ Sound(o) /\ Sound(h) /\ Fitting(o)
  BY DEF TypeOK, SoundInv, FitInv
<1> HIDE DEF o, h
<1>2. CASE h = o
  BY <1>2, WireSame DEF o, h
<1>3. ASSUME NEW c \in Conns, NEW k \in Codes, Becomes(c, conn'[c]), Answered(conn[c], conn'[c], k)
      PROVE  Serves(x)
  <2>1. CASE x # c
    BY <1>2, <1>3, <2>1 DEF Becomes, o, h
  <2>2. CASE x = c
    <3>1. Owed(h) = Owed(o)
      BY <1>1, <1>3, <2>2, OwedAnswered DEF o, h
    <3>2. h.out = o.out /\ Alive(h) /\ Alive(o)
      BY <1>3, <2>2 DEF Answered, Alive, o, h
    <3> QED
      BY <3>1, <3>2, WireSame DEF o, h
  <2> QED
    BY <2>1, <2>2
<1>4. ASSUME NEW c \in Conns, NEW k, Commanded(c, k)
      PROVE  Serves(x)
  BY <1>3, <1>4 DEF Commanded
<1>5. ASSUME NEW c \in Conns, Plain(c)
      PROVE  Serves(x)
  <2>1. CASE x # c
    BY <1>2, <1>5, <2>1 DEF Plain, Becomes, o, h
  <2>2. CASE x = c /\ o.at = "none" /\ Begun(h)
    <3>1. Begun(o) /\ ~Alive(o)
      BY <1>1, <2>2 DEF Sound, Quiet, Alive
    <3>2. o.out = <<>> /\ h.out = <<>> /\ Owed(o) = <<>>
      BY <2>2, <3>1 DEF Begun, Owed
    <3>3. CASE ~Alive(h)
      <4>1. Owed(h) = <<>>
        BY <3>3 DEF Owed
      <4> QED
        BY <3>1, <3>2, <3>3, <4>1, WireSame DEF o, h
    <3>4. CASE Alive(h)
      <4>1. h.hung = FALSE /\ h.cmd.verb = "-" /\ h.inbox = <<>>
        BY <2>2 DEF Begun, NoCmd
      <4>2. Owed(h) = Lines(<<>>)
        BY <3>4, <4>1, OwedIs
      <4>3. Lines(<<>>) = <<>>
        <5>1. <<>> \in Seq(Cmds) /\ Len(<<>>) = 0
          OBVIOUS
        <5>2. Lines(<<>>) \in Seq(Dues) /\ Len(Lines(<<>>)) = 0
          BY <5>1, LinesAre
        <5> QED
          BY <5>2, EmptySeq
      <4> QED
        BY <3>2, <3>4, <4>2, <4>3, WireOpens DEF o, h
    <3> QED
      BY <3>3, <3>4
  <2>3. ASSUME x = c, NEW cmd \in config.menu \cup {Text}, Said(o, h, cmd)
        PROVE  Serves(x)
    <3>1. cmd \in Cmds
      BY ConfigFacts DEF TypeOK, Cmds
    <3>2. Owed(h) = Append(Owed(o), Line(cmd))
      BY <1>1, <2>3, <3>1, OwedSaid
    <3>3. Alive(o) /\ Alive(h) /\ h.out = o.out
      BY <2>3 DEF Said, Alive
    <3> QED
      BY <3>2, <3>3, WireSays DEF o, h
  <2>4. CASE x = c /\ Same(o, h)
    <3>1. Owed(h) = Owed(o) /\ h.out = o.out /\ (Alive(h) <=> Alive(o))
      BY <2>4 DEF Same, Kept, Owed, Alive
    <3> QED
      BY <3>1, WireSame DEF o, h
  <2>5. CASE \E k : Commanded(c, k)
    BY <1>4, <2>5
  <2>6. CASE x = c /\ Passed(o, h)
    <3>1. Alive(o) /\ Alive(h)
      BY <2>6 DEF Passed, Alive
    <3>2. CASE Owed(h) = Owed(o) /\ h.out = o.out
      BY <3>1, <3>2, WireSame DEF o, h
    <3>3. CASE ~(Owed(h) = Owed(o) /\ h.out = o.out)
      <4> DEFINE p == Head(o.pending)
                 r == [for |-> o.cmd, kind |-> p]
      <4>1. Wrote(o, h, p)
        BY <1>1, <2>6, <3>3, OwedPassed
      <4>2. o.pending # <<>> /\ (h.out = o.out \/ h.out = Append(o.out, r))
        BY <2>6 DEF Passed
      <4>3. r \in Reply /\ r.kind = p
        <5>1. o.pending \in Seq(Parts) /\ o.cmd \in Cmds
          BY <1>1, SessionFacts
        <5>2. p \in Parts
          BY <4>2, <5>1, HeadTailProperties
        <5> QED
          BY <5>1, <5>2 DEF Reply
      <4> HIDE DEF p, r
      <4>4. h.out # o.out
        <5>1. h.out = Append(o.out, [for |-> Head(Owed(o)).for, kind |-> p])
          BY <4>1 DEF Wrote
        <5>2. o.out \in Seq(Reply) /\ h.out \in Seq(Reply)
          BY <1>1, SessionFacts
        <5>3. Len(h.out) = Len(o.out) + 1 /\ Len(o.out) \in Nat
          BY <5>1, <5>2
        <5> QED
          BY <5>3
      <4>5. p \in Kinds'
        BY <1>1, <4>2, <4>3, <4>4, KindsOfMore DEF o, h
      <4> QED
        BY <3>1, <4>1, <4>5, WireWrites DEF o, h
    <3> QED
      BY <3>2, <3>3
  <2>7. CASE x = c /\ Gone(o, h)
    <3>1. Alive(o) /\ ~Alive(h) /\ h.out = o.out
      BY <2>7 DEF Gone, Alive
    <3> QED
      BY <3>1, WireCloses DEF o, h
  <2> QED
    BY <1>5, <2>1, <2>2, <2>3, <2>4, <2>5, <2>6, <2>7 DEF Plain, o, h
<1>6. ASSUME NEW c \in Conns, ArticleSequenced(c)
      PROVE  Serves(x)
  BY <1>4, <1>6, SequencedStep
<1>7. ASSUME NEW c \in Conns, Captured(c)
      PROVE  Serves(x)
  <2>1. "240" \in Codes /\ Becomes(c, conn'[c]) /\ Answered(conn[c], conn'[c], "240")
    BY <1>7, CapturedStep, CodeFacts
  <2> QED
    BY <1>3, <2>1
<1> QED
  BY <1>2, <1>5, <1>6, <1>7, Steps DEF o, h

(* Whatever fault the mock server injects, each of its connections takes     *)
(* only steps of Wire, with a body after exactly the code that announces one *)
(* to the client for the command answered (LIST EXTENSIONS excepted): the    *)
(* server that the models of the clients assume.                             *)
THEOREM ServesWireCorrect == Spec => ServesWire
<1>1. TypeOK /\ SoundInv /\ FitInv /\ SoundInv' /\ TypeOK' /\ [Next]_vars =>
          [\A c \in Conns :
               \/ UNCHANGED <<Owed(conn[c]), conn[c].out, Alive(conn[c])>>
               \/ WireStep(c)]_vars
  BY ServeStep DEF Serves
<1> QED
  BY <1>1, MockTypeCorrect, SoundInit, SoundStep, FitInit, FitStep, PTL DEF Spec, ServesWire

-----------------------------------------------------------------------------
(* One-shot answers                                                         *)

LEMMA CmdIs ==
    ASSUME NEW cmd \in Cmds
    PROVE  cmd = [verb |-> cmd.verb, arg |-> cmd.arg]
<1>1. CASE cmd \in {NoCmd, Text}
  BY <1>1 DEF NoCmd, Text
<1>2. ASSUME NEW f \in Configs, cmd \in f.menu
      PROVE  cmd = [verb |-> cmd.verb, arg |-> cmd.arg]
  BY <1>2, ConfigsAssumption
<1> QED
  BY <1>1, <1>2 DEF Cmds

Article(m) == [verb |-> "ARTICLE", arg |-> m]

\* What became of the answer e in the session g that took it: it is written at
\* its place, or due, or lost with a session that hung or closed.
ItemAt(e, g) ==
    /\ e.place \in 1..(Len(g.out) + 1)
    /\ e.place <= Len(g.out) => g.out[e.place] = [for |-> Article(e.mid), kind |-> e.code]
    /\ e.place = Len(g.out) + 1 =>
          \/ g.at = "closed" \/ g.hung = TRUE
          \/ g.at = "open" /\ g.pending = <<e.code>> /\ g.cmd = Article(e.mid)

Lost(e, g) == e.place = Len(g.out) + 1 /\ (g.at = "closed" \/ g.hung = TRUE)

LEMMA ItemPassed ==
    ASSUME NEW o \in Session, NEW h \in Session, Sound(o), Passed(o, h),
           NEW e, e.code \in Injected, ItemAt(e, o)
    PROVE  ItemAt(e, h)
<1> DEFINE p == Head(o.pending)
           r == [for |-> o.cmd, kind |-> p]
<1>1. /\ o.at = "open" /\ o.pending # <<>> /\ h.hung = o.hung /\ h.cmd = o.cmd
      /\ h.out = IF o.hung \/ p = "banner" THEN o.out ELSE Append(o.out, r)
  BY DEF Passed, Kept
<1>2. o.out \in Seq(Reply) /\ o.hung \in BOOLEAN /\ Len(o.out) \in Nat
  BY SessionFacts
<1>3. r \in Reply
  <2>1. o.pending \in Seq(Parts) /\ o.cmd \in Cmds
    BY SessionFacts
  <2>2. p \in Parts
    BY <1>1, <2>1, HeadTailProperties
  <2> QED
    BY <2>1, <2>2 DEF Reply
<1>4. e.place = Len(o.out) + 1 /\ o.hung = FALSE => p = e.code /\ o.cmd = Article(e.mid) /\ p # "banner"
  <2> SUFFICES ASSUME e.place = Len(o.out) + 1, o.hung = FALSE
               PROVE  p = e.code /\ o.cmd = Article(e.mid) /\ p # "banner"
    OBVIOUS
  <2>1. o.pending = <<e.code>> /\ o.cmd = Article(e.mid)
    BY <1>1 DEF ItemAt
  <2>2. e.code # "banner"
    BY InjectedAssumption
  <2> QED
    BY <2>1, <2>2, Tuples
<1>5. CASE o.hung = TRUE
  BY <1>1, <1>5 DEF ItemAt
<1>6. CASE o.hung = FALSE /\ p = "banner"
  <2>1. h.out = o.out /\ e.place # Len(o.out) + 1
    BY <1>1, <1>4, <1>6
  <2> QED
    BY <2>1 DEF ItemAt
<1>7. CASE o.hung = FALSE /\ p # "banner"
  <2>1. h.out = Append(o.out, r)
    BY <1>1, <1>7
  <2>2. /\ Len(h.out) = Len(o.out) + 1 /\ h.out[Len(o.out) + 1] = r
        /\ \A i \in 1..Len(o.out) : h.out[i] = o.out[i]
    BY <1>2, <1>3, <2>1, AppendProperties
  <2>3. e.place \in 1..(Len(o.out) + 1)
    BY DEF ItemAt
  <2>4. CASE e.place = Len(o.out) + 1
    <3>1. r = [for |-> Article(e.mid), kind |-> e.code]
      BY <1>4, <1>7, <2>4
    <3> HIDE DEF r
    <3> QED
      BY <1>2, <2>2, <2>3, <2>4, <3>1 DEF ItemAt
  <2>5. CASE e.place # Len(o.out) + 1
    <3>1. e.place \in 1..Len(o.out)
      BY <1>2, <2>3, <2>5
    <3> HIDE DEF r
    <3> QED
      BY <1>2, <2>2, <2>3, <3>1 DEF ItemAt
  <2> QED
    BY <2>4, <2>5
<1> QED
  BY <1>2, <1>5, <1>6, <1>7

LEMMA ItemMove ==
    ASSUME NEW o \in Session, NEW h \in Session, Sound(o), Move(o, h),
           NEW e, e.code \in Injected, ItemAt(e, o)
    PROVE  ItemAt(e, h)
<1>1. CASE o.at = "none" /\ Begun(h)
  <2>1. o.out = <<>> /\ o.hung = FALSE /\ o.at = "none"
    BY <1>1 DEF Sound, Quiet, Begun
  <2>2. e.place = Len(o.out) + 1
    <3>1. e.place \in 1..(Len(o.out) + 1) /\ Len(o.out) = 0
      BY <2>1 DEF ItemAt
    <3> QED
      BY <3>1
  <2> QED
    BY <2>1, <2>2 DEF ItemAt
<1>2. CASE \E cmd \in Cmds : Said(o, h, cmd) /\ Heard(o, cmd)
  BY <1>2 DEF Said, Kept, ItemAt
<1>3. CASE Same(o, h)
  BY <1>3 DEF Same, Kept, ItemAt
<1>4. ASSUME NEW k, Answered(o, h, k)
      PROVE  ItemAt(e, h)
  <2>1. o.pending = <<>> /\ o.at = "open" /\ h.out = o.out /\ (o.hung = TRUE => h.hung = TRUE)
    <3>1. h.hung \in BOOLEAN
      BY SessionFacts
    <3> QED
      BY <1>4, <3>1 DEF Answered
  <2>2. e.place = Len(o.out) + 1 => o.hung = TRUE
    BY <2>1, Tuples DEF ItemAt
  <2> QED
    BY <2>1, <2>2 DEF ItemAt
<1>5. CASE Passed(o, h)
  BY <1>5, ItemPassed
<1>6. CASE Gone(o, h)
  BY <1>6 DEF Gone, Kept, ItemAt
<1> QED
  BY <1>1, <1>2, <1>3, <1>4, <1>5, <1>6 DEF Move

LEMMA LostMove ==
    ASSUME NEW o \in Session, NEW h \in Session, Sound(o), Move(o, h), NEW e, Lost(e, o)
    PROVE  Lost(e, h)
<1>1. CASE o.at = "none" /\ Begun(h)
  <2>1. o.hung = FALSE
    BY <1>1 DEF Sound, Quiet, Begun
  <2> QED
    BY <1>1, <2>1 DEF Lost
<1>2. CASE \E cmd \in Cmds : Said(o, h, cmd) /\ Heard(o, cmd)
  BY <1>2 DEF Said, Kept, Lost
<1>3. CASE Same(o, h)
  BY <1>3 DEF Same, Kept, Lost
<1>4. ASSUME NEW k, Answered(o, h, k)
      PROVE  Lost(e, h)
  <2>1. h.hung \in BOOLEAN
    BY SessionFacts
  <2> QED
    BY <1>4, <2>1 DEF Answered, Lost
<1>5. CASE Passed(o, h)
  <2>1. o.hung = TRUE
    BY <1>5 DEF Passed, Lost
  <2> QED
    BY <1>5, <2>1 DEF Passed, Kept, Lost
<1>6. CASE Gone(o, h)
  BY <1>6 DEF Gone, Kept, Lost
<1> QED
  BY <1>1, <1>2, <1>3, <1>4, <1>5, <1>6 DEF Move

LEMMA ItemStays ==
    ASSUME TypeOK, SoundInv, TypeOK', [Next]_vars, NEW x \in Conns, NEW e, e.code \in Injected
    PROVE  /\ ItemAt(e, conn[x]) => ItemAt(e, conn'[x])
           /\ Lost(e, conn[x]) => Lost(e, conn'[x])
<1>1. conn[x] \in Session /\ conn'[x] \in Session /\ Sound(conn[x])
  BY DEF TypeOK, SoundInv
<1>2. conn'[x] = conn[x] \/ Move(conn[x], conn'[x])
  BY Moves DEF Becomes
<1>3. CASE conn'[x] = conn[x]
  BY <1>3
<1>4. CASE Move(conn[x], conn'[x])
  BY <1>1, <1>4, ItemMove, LostMove
<1> QED
  BY <1>2, <1>3, <1>4

ItemOf(i) == ItemAt(scripted[i], conn[scripted[i].conn])

Twin(i, j) ==
    i # j /\ scripted[i].conn = scripted[j].conn /\ scripted[i].place = scripted[j].place

\* Two answers are not for one reply, unless it is never given.
ItemInv ==
    /\ \A i \in DOMAIN scripted : ItemOf(i)
    /\ \A i, j \in DOMAIN scripted :
          Twin(i, j) => Lost(scripted[i], conn[scripted[i].conn])

LEMMA ScriptedFacts ==
    ASSUME TypeOK
    PROVE  /\ scripted \in Seq(Item) /\ Len(scripted) \in Nat /\ DOMAIN scripted = 1..Len(scripted)
           /\ \A i \in DOMAIN scripted :
                 /\ scripted[i] \in Item /\ scripted[i].conn \in Conns /\ scripted[i].code \in Injected
                 /\ scripted[i].mid \in DOMAIN config.script
<1>1. scripted \in Seq(Item)
  BY DEF TypeOK
<1>2. \A i \in DOMAIN scripted : scripted[i] \in Item
  BY <1>1
<1> QED
  BY <1>1, <1>2 DEF Item

\* The answer that is taken, at its place.
LEMMA TakenItem ==
    ASSUME TypeOK, SoundInv, NEW c \in Conns, ArticleSequenced(c)
    PROVE  \E e \in Item :
              /\ scripted' = Append(scripted, e) /\ e.conn = c /\ e.place = Len(conn[c].out) + 1
              /\ e.mid = Head(conn[c].inbox).arg /\ e.code = Head(script[e.mid]) /\ e.code \in Injected
              /\ ItemAt(e, conn'[c])
              /\ Answered(conn[c], conn'[c], e.code) /\ Becomes(c, conn'[c])
<1>1. PICK e \in Item :
         /\ scripted' = Append(scripted, e)
         /\ e.conn = c /\ e.place = Len(conn[c].out) + 1
         /\ e.mid = Head(conn[c].inbox).arg /\ e.mid \in DOMAIN script
         /\ e.code = Head(script[e.mid])
  BY TakenStep
<1>2. e.code \in Injected /\ Head(conn[c].inbox).verb = "ARTICLE" /\ Commanded(c, e.code)
  BY <1>1, SequencedStep
<1> DEFINE o == conn[c]
           h == conn'[c]
<1>3. /\ o \in Session /\ Becomes(c, h) /\ Answered(o, h, e.code)
  BY <1>2 DEF Commanded, TypeOK
<1>4. h.cmd = Article(e.mid)
  <2>1. o.inbox \in Seq(Cmds) /\ o.inbox # <<>> /\ h.cmd = Head(o.inbox)
    BY <1>3, SessionFacts DEF Answered
  <2>2. Head(o.inbox) \in Cmds
    BY <2>1, HeadTailProperties
  <2>3. Head(o.inbox) = [verb |-> Head(o.inbox).verb, arg |-> Head(o.inbox).arg]
    BY <2>2, CmdIs
  <2> QED
    BY <1>1, <1>2, <2>1, <2>3 DEF Article
<1>5. h.pending = <<e.code>> /\ h.out = o.out /\ h.at = "open"
  <2>1. e.code \notin Multi
    BY <1>2, InjectedAssumption
  <2> QED
    BY <1>3, <2>1 DEF Answered
<1>6. Len(o.out) \in Nat
  BY <1>3, SessionFacts
<1>7. ItemAt(e, h)
  BY <1>1, <1>4, <1>5, <1>6 DEF ItemAt
<1> QED
  BY <1>1, <1>2, <1>3, <1>7

LEMMA ItemStep == TypeOK /\ TypeOK' /\ SoundInv /\ ItemInv /\ [Next]_vars => ItemInv'
<1> SUFFICES ASSUME TypeOK, TypeOK', SoundInv, ItemInv, [Next]_vars PROVE ItemInv'
  OBVIOUS
<1> DEFINE n == Len(scripted)
<1>1. /\ scripted \in Seq(Item) /\ n \in Nat /\ DOMAIN scripted = 1..n
      /\ \A i \in 1..n : scripted[i] \in Item /\ scripted[i].conn \in Conns /\ scripted[i].code \in Injected
  BY ScriptedFacts
<1>2. ASSUME NEW i \in 1..n
      PROVE  /\ ItemAt(scripted[i], conn'[scripted[i].conn])
             /\ Lost(scripted[i], conn[scripted[i].conn]) => Lost(scripted[i], conn'[scripted[i].conn])
  <2>1. ItemAt(scripted[i], conn[scripted[i].conn])
    BY <1>1 DEF ItemInv, ItemOf
  <2>2. scripted[i].conn \in Conns /\ scripted[i].code \in Injected
    BY <1>1
  <2> QED
    BY <2>1, <2>2, ItemStays
<1>3. \A i, j \in 1..n : Twin(i, j) => Lost(scripted[i], conn[scripted[i].conn])
  BY <1>1 DEF ItemInv
<1>4. CASE scripted' = scripted
  BY <1>1, <1>2, <1>3, <1>4 DEF ItemInv, ItemOf, Twin
<1>5. ASSUME NEW c \in Conns, ArticleSequenced(c)
      PROVE  ItemInv'
  <2>1. PICK e \in Item :
           /\ scripted' = Append(scripted, e) /\ e.conn = c /\ e.place = Len(conn[c].out) + 1
           /\ e.code \in Injected /\ ItemAt(e, conn'[c])
           /\ Answered(conn[c], conn'[c], e.code)
    BY <1>5, TakenItem
  <2>2. /\ DOMAIN scripted' = 1..(n + 1) /\ scripted'[n + 1] = e
        /\ \A i \in 1..n : scripted'[i] = scripted[i]
    BY <1>1, <2>1, AppendProperties
  <2>3. ASSUME NEW i \in 1..(n + 1)
        PROVE  ItemAt(scripted'[i], conn'[scripted'[i].conn])
    <3>1. CASE i = n + 1
      BY <2>1, <2>2, <3>1
    <3>2. CASE i # n + 1
      <4>1. i \in 1..n
        BY <1>1, <3>2
      <4> QED
        BY <1>2, <2>2, <4>1
    <3> QED
      BY <3>1, <3>2
  <2>4. conn[c].hung = TRUE => conn'[c].hung = TRUE
    <3>1. conn'[c].hung \in BOOLEAN
      BY SessionFacts DEF TypeOK
    <3> QED
      BY <2>1, <3>1 DEF Answered
  <2>5. ASSUME NEW i \in 1..n, scripted[i].conn = c, scripted[i].place = e.place
        PROVE  Lost(e, conn'[c]) /\ Lost(scripted[i], conn'[c])
    <3>1. conn[c].pending = <<>> /\ conn[c].at = "open" /\ conn'[c].out = conn[c].out
      BY <2>1 DEF Answered
    <3>2. ItemAt(scripted[i], conn[c])
      BY <1>1, <2>5 DEF ItemInv, ItemOf
    <3>3. conn[c].hung = TRUE
      BY <2>1, <2>5, <3>1, <3>2, Tuples DEF ItemAt
    <3> QED
      BY <2>1, <2>4, <2>5, <3>1, <3>3 DEF Lost
  <2>6. ASSUME NEW i \in 1..(n + 1), NEW j \in 1..(n + 1), i # j,
               scripted'[i].conn = scripted'[j].conn, scripted'[i].place = scripted'[j].place
        PROVE  Lost(scripted'[i], conn'[scripted'[i].conn])
    <3>1. CASE i \in 1..n /\ j \in 1..n
      <4>1. Twin(i, j)
        BY <2>2, <2>6, <3>1 DEF Twin
      <4>2. Lost(scripted[i], conn[scripted[i].conn])
        BY <1>3, <3>1, <4>1
      <4> QED
        BY <1>2, <2>2, <3>1, <4>2
    <3>2. CASE i = n + 1 /\ j \in 1..n
      BY <2>1, <2>2, <2>5, <2>6, <3>2
    <3>3. CASE j = n + 1 /\ i \in 1..n
      BY <2>1, <2>2, <2>5, <2>6, <3>3
    <3> QED
      BY <1>1, <2>6, <3>1, <3>2, <3>3
  <2> QED
    BY <2>2, <2>3, <2>6 DEF ItemInv, ItemOf, Twin
<1> QED
  BY <1>4, <1>5, Leaves

LEMMA GivenIs == TypeOK /\ ItemInv => GivenOnce
<1> SUFFICES ASSUME TypeOK, ItemInv, NEW i \in DOMAIN scripted
             PROVE  LET e == scripted[i]
                        g == conn[e.conn]
                    IN  IF e.place \in DOMAIN g.out
                        THEN /\ g.out[e.place] = [for |-> [verb |-> "ARTICLE", arg |-> e.mid], kind |-> e.code]
                             /\ \A j \in DOMAIN scripted :
                                   scripted[j].conn = e.conn /\ scripted[j].place = e.place => j = i
                        ELSE g.pending # <<>> \/ g.hung \/ g.at = "closed"
  BY DEF GivenOnce
<1> DEFINE e == scripted[i]
           g == conn[e.conn]
<1>1. g \in Session
  BY ScriptedFacts DEF TypeOK
<1>2. Len(g.out) \in Nat /\ DOMAIN g.out = 1..Len(g.out)
  BY <1>1, SessionFacts
<1>3. ItemAt(e, g)
  BY DEF ItemInv, ItemOf
<1>4. \A j \in DOMAIN scripted :
         j # i /\ scripted[j].conn = e.conn /\ scripted[j].place = e.place => Lost(e, g)
  BY DEF ItemInv, Twin
<1> HIDE DEF e, g
<1>5. CASE e.place \in DOMAIN g.out
  <2>1. e.place <= Len(g.out) /\ e.place # Len(g.out) + 1
    BY <1>2, <1>5
  <2>2. g.out[e.place] = [for |-> [verb |-> "ARTICLE", arg |-> e.mid], kind |-> e.code]
    BY <1>3, <2>1 DEF ItemAt, Article
  <2>3. ~Lost(e, g)
    BY <2>1 DEF Lost
  <2> QED
    BY <1>4, <1>5, <2>2, <2>3 DEF e, g
<1>6. CASE e.place \notin DOMAIN g.out
  <2>1. e.place = Len(g.out) + 1
    <3>1. e.place \in 1..(Len(g.out) + 1)
      BY <1>3 DEF ItemAt
    <3> QED
      BY <1>2, <1>6, <3>1
  <2>2. g.pending # <<>> \/ g.hung = TRUE \/ g.at = "closed"
    BY <1>3, <2>1, Tuples DEF ItemAt
  <2> QED
    BY <1>6, <2>2 DEF e, g
<1> QED
  BY <1>5, <1>6

\* The i-th answer of the history is the one that the script has at its turn.
InTurn(s, i, cs) ==
    s[i].code = cs[s[i].mid][Cardinality({j \in DOMAIN s : s[j].mid = s[i].mid /\ j <= i})]

TakenOf(s, m) == {i \in DOMAIN s : s[i].mid = m}

OrderInv ==
    /\ \A m \in DOMAIN script :
          script[m] = SubSeq(config.script[m], Cardinality(TakenOf(scripted, m)) + 1, Len(config.script[m]))
    /\ \A i \in DOMAIN scripted : InTurn(scripted, i, config.script)

LEMMA TakenOfMore ==
    ASSUME NEW S, NEW s \in Seq(S), NEW e \in S, NEW m
    PROVE  /\ Cardinality(TakenOf(s, m)) \in Nat
           /\ Cardinality(TakenOf(Append(s, e), m)) =
                 Cardinality(TakenOf(s, m)) + (IF e.mid = m THEN 1 ELSE 0)
<1>1. Len(s) \in Nat /\ DOMAIN s = 1..Len(s)
  OBVIOUS
<1>2. /\ DOMAIN Append(s, e) = 1..(Len(s) + 1) /\ Append(s, e)[Len(s) + 1] = e
      /\ \A i \in 1..Len(s) : Append(s, e)[i] = s[i]
  BY <1>1, AppendProperties
<1>3. TakenOf(s, m) \subseteq 1..Len(s)
  BY <1>1 DEF TakenOf
<1>4. TakenOf(Append(s, e), m) = IF e.mid = m THEN TakenOf(s, m) \cup {Len(s) + 1} ELSE TakenOf(s, m)
  <2>1. \A i : i \in 1..(Len(s) + 1) <=> i \in 1..Len(s) \/ i = Len(s) + 1
    BY <1>1
  <2>2. Len(s) + 1 \notin 1..Len(s)
    BY <1>1
  <2>3. CASE e.mid = m
    BY <1>1, <1>2, <2>1, <2>2, <2>3 DEF TakenOf
  <2>4. CASE e.mid # m
    BY <1>1, <1>2, <2>1, <2>2, <2>4 DEF TakenOf
  <2> QED
    BY <2>3, <2>4
<1>5. /\ Cardinality(TakenOf(s, m)) \in Nat
      /\ Cardinality(TakenOf(s, m) \cup {Len(s) + 1}) = Cardinality(TakenOf(s, m)) + 1
  BY <1>1, <1>3, OneMore
<1> QED
  BY <1>4, <1>5

\* The first of what is left of a sequence, and what is left then.
LEMMA RestIs ==
    ASSUME NEW S, NEW s \in Seq(S), NEW k \in Nat, SubSeq(s, k + 1, Len(s)) # <<>>
    PROVE  /\ Head(SubSeq(s, k + 1, Len(s))) = s[k + 1]
           /\ Tail(SubSeq(s, k + 1, Len(s))) = SubSeq(s, k + 2, Len(s))
<1>1. Len(s) \in Nat /\ \A i \in 1..Len(s) : s[i] \in S
  OBVIOUS
<1>2. k + 1 <= Len(s)
  <2>1. Len(s) < k + 1 => SubSeq(s, k + 1, Len(s)) = <<>>
    BY <1>1, SubSeqEmpty
  <2> QED
    BY <1>1, <2>1
<1> DEFINE r == SubSeq(s, k + 1, Len(s))
           t == SubSeq(s, k + 2, Len(s))
<1>3. r \in Seq(S) /\ Len(r) = Len(s) - k /\ \A i \in 1..(Len(s) - k) : r[i] = s[k + i]
  <2>1. \A i \in (k + 1)..Len(s) : s[i] \in S
    BY <1>1
  <2>2. /\ r \in Seq(S) /\ Len(r) = IF k + 1 <= Len(s) THEN Len(s) - (k + 1) + 1 ELSE 0
        /\ \A i \in 1..(Len(s) - (k + 1) + 1) : r[i] = s[k + 1 + i - 1]
    BY <1>1, <2>1, SubSeqProperties
  <2>3. Len(s) - (k + 1) + 1 = Len(s) - k /\ \A i \in 1..(Len(s) - k) : k + 1 + i - 1 = k + i
    BY <1>1
  <2> QED
    BY <1>2, <2>2, <2>3
<1>4. t \in Seq(S) /\ Len(t) = Len(s) - k - 1 /\ \A i \in 1..(Len(s) - k - 1) : t[i] = s[k + 1 + i]
  <2>1. \A i \in (k + 2)..Len(s) : s[i] \in S
    BY <1>1
  <2>2. /\ t \in Seq(S) /\ Len(t) = IF k + 2 <= Len(s) THEN Len(s) - (k + 2) + 1 ELSE 0
        /\ \A i \in 1..(Len(s) - (k + 2) + 1) : t[i] = s[k + 2 + i - 1]
    BY <1>1, <2>1, SubSeqProperties
  <2> HIDE DEF t
  <2>3. Len(t) = Len(s) - k - 1
    BY <1>1, <1>2, <2>2
  <2>4. ASSUME NEW i \in 1..(Len(s) - k - 1)
        PROVE  t[i] = s[k + 1 + i]
    <3>1. i \in 1..(Len(s) - (k + 2) + 1) /\ k + 2 + i - 1 = k + 1 + i
      BY <1>1
    <3> QED
      BY <2>2, <3>1
  <2> QED
    BY <2>2, <2>3, <2>4
<1> HIDE DEF r, t
<1>5. /\ r # <<>> /\ Head(r) = r[1] /\ Tail(r) \in Seq(S) /\ Len(Tail(r)) = Len(s) - k - 1
      /\ \A i \in 1..(Len(s) - k - 1) : Tail(r)[i] = r[i + 1]
  <2>1. r # <<>>
    BY DEF r
  <2>2. /\ Tail(r) \in Seq(S) /\ Len(Tail(r)) = Len(r) - 1
        /\ \A i \in 1..Len(Tail(r)) : Tail(r)[i] = r[i + 1]
    BY <1>3, <2>1, HeadTailProperties
  <2>3. Head(r) = r[1]
    BY <1>3, <2>1
  <2> QED
    BY <1>1, <1>3, <2>1, <2>2, <2>3
<1>6. Head(r) = s[k + 1]
  BY <1>1, <1>2, <1>3, <1>5
<1>7. \A i \in 1..Len(Tail(r)) : Tail(r)[i] = t[i]
  <2> TAKE i \in 1..Len(Tail(r))
  <2>1. i \in 1..(Len(s) - k - 1) /\ i + 1 \in 1..(Len(s) - k) /\ k + (i + 1) = k + 1 + i
    BY <1>1, <1>2, <1>5
  <2> QED
    BY <1>3, <1>4, <1>5, <2>1
<1>8. Tail(r) = t
  BY <1>4, <1>5, <1>7, SameElements
<1> QED
  BY <1>6, <1>8 DEF r, t

LEMMA OrderStep == TypeOK /\ OrderInv /\ [Next]_vars => OrderInv'
<1> SUFFICES ASSUME TypeOK, OrderInv, [Next]_vars PROVE OrderInv'
  OBVIOUS
<1> DEFINE n == Len(scripted)
           cs == config.script
<1>1. /\ scripted \in Seq(Item) /\ n \in Nat /\ DOMAIN scripted = 1..n
  BY ScriptedFacts
<1>2. /\ config' = config /\ cs \in [DOMAIN cs -> Seq(Injected)] /\ DOMAIN script = DOMAIN cs
  BY Leaves, ConfigFacts DEF TypeOK
<1>3. CASE UNCHANGED <<script, scripted>>
  BY <1>2, <1>3 DEF OrderInv
<1>4. ASSUME NEW c \in Conns, ArticleSequenced(c)
      PROVE  OrderInv'
  <2>1. PICK e \in Item :
           /\ scripted' = Append(scripted, e)
           /\ e.mid = Head(conn[c].inbox).arg /\ e.mid \in DOMAIN script
           /\ e.code = Head(script[e.mid])
    BY <1>4, TakenStep
  <2>2. script[e.mid] # <<>> /\ script' = [script EXCEPT ![e.mid] = Tail(@)]
    BY <1>4, <2>1, SequencedStep
  <2>3. /\ DOMAIN scripted' = 1..(n + 1) /\ scripted'[n + 1] = e
        /\ \A i \in 1..n : scripted'[i] = scripted[i]
    BY <1>1, <2>1, AppendProperties
  <2>4. PICK k \in Nat : k = Cardinality(TakenOf(scripted, e.mid))
    BY <1>1, <2>1, TakenOfMore
  <2>5. /\ cs[e.mid] \in Seq(Injected)
        /\ script[e.mid] = SubSeq(cs[e.mid], k + 1, Len(cs[e.mid]))
    BY <1>2, <2>1, <2>4 DEF OrderInv
  <2>6. e.code = cs[e.mid][k + 1] /\ Tail(script[e.mid]) = SubSeq(cs[e.mid], k + 2, Len(cs[e.mid]))
    <3>1. /\ Head(SubSeq(cs[e.mid], k + 1, Len(cs[e.mid]))) = cs[e.mid][k + 1]
          /\ Tail(SubSeq(cs[e.mid], k + 1, Len(cs[e.mid]))) = SubSeq(cs[e.mid], k + 2, Len(cs[e.mid]))
      BY <2>2, <2>5, RestIs
    <3> QED
      BY <2>1, <2>5, <3>1
  <2>7. Cardinality(TakenOf(scripted', e.mid)) = k + 1
    BY <1>1, <2>1, <2>4, TakenOfMore
  <2>8. ASSUME NEW m \in DOMAIN script
        PROVE  script'[m] = SubSeq(cs[m], Cardinality(TakenOf(scripted', m)) + 1, Len(cs[m]))
    <3>1. CASE m = e.mid
      <4>1. k + 1 + 1 = k + 2 /\ script'[m] = Tail(script[e.mid])
        BY <2>2, <2>8, <3>1
      <4> QED
        BY <2>6, <2>7, <3>1, <4>1
    <3>2. CASE m # e.mid
      <4>1. /\ Cardinality(TakenOf(scripted, m)) \in Nat
            /\ Cardinality(TakenOf(scripted', m)) = Cardinality(TakenOf(scripted, m)) + (IF e.mid = m THEN 1 ELSE 0)
        BY <1>1, <2>1, TakenOfMore
      <4>2. Cardinality(TakenOf(scripted', m)) = Cardinality(TakenOf(scripted, m))
        BY <3>2, <4>1
      <4>3. script'[m] = script[m]
        BY <2>2, <2>8, <3>2
      <4> QED
        BY <2>8, <4>2, <4>3 DEF OrderInv
    <3> QED
      BY <3>1, <3>2
  <2>9. ASSUME NEW i \in 1..n
        PROVE  InTurn(scripted', i, cs)
    <3> DEFINE T == {j \in DOMAIN scripted : scripted[j].mid = scripted[i].mid /\ j <= i}
               U == {j \in DOMAIN scripted' : scripted'[j].mid = scripted'[i].mid /\ j <= i}
    <3>1. \A j \in 1..(n + 1) : j <= i => j \in 1..n
      BY <1>1
    <3>2. \A j \in 1..n : j \in 1..(n + 1)
      BY <1>1
    <3>3. U = T
      BY <1>1, <2>3, <3>1, <3>2
    <3>4. scripted[i].code = cs[scripted[i].mid][Cardinality(T)]
      BY <1>1 DEF OrderInv, InTurn
    <3> HIDE DEF T
    <3> QED
      BY <2>3, <3>3, <3>4 DEF InTurn
  <2>10. InTurn(scripted', n + 1, cs)
    <3> DEFINE U == {j \in DOMAIN scripted' : scripted'[j].mid = scripted'[n + 1].mid /\ j <= n + 1}
    <3>1. U = TakenOf(scripted', e.mid)
      BY <1>1, <2>3 DEF TakenOf
    <3> HIDE DEF U
    <3>2. e.code = cs[e.mid][Cardinality(U)]
      BY <2>6, <2>7, <3>1
    <3> QED
      BY <2>3, <3>2 DEF InTurn, U
  <2>11. \A i \in DOMAIN scripted' : InTurn(scripted', i, cs)
    BY <1>1, <2>3, <2>9, <2>10
  <2>12. DOMAIN script' = DOMAIN script
    BY <2>2
  <2> QED
    BY <1>2, <2>8, <2>11, <2>12 DEF OrderInv
<1> QED
  BY <1>3, <1>4, Leaves

LEMMA OrderIs == OrderInv => ScriptInOrder
<1> SUFFICES ASSUME OrderInv, NEW m \in DOMAIN script
             PROVE  /\ script[m] = SubSeq(config.script[m], Cardinality(Taken(m)) + 1, Len(config.script[m]))
                    /\ \A i \in Taken(m) :
                          scripted[i].code =
                             config.script[m][Cardinality({j \in Taken(m) : j <= i})]
  BY DEF ScriptInOrder
<1>1. Taken(m) = TakenOf(scripted, m)
  BY DEF Taken, TakenOf
<1>2. ASSUME NEW i \in Taken(m)
      PROVE  scripted[i].code = config.script[m][Cardinality({j \in Taken(m) : j <= i})]
  <2>1. i \in DOMAIN scripted /\ scripted[i].mid = m
    BY DEF Taken
  <2>2. {j \in DOMAIN scripted : scripted[j].mid = scripted[i].mid /\ j <= i} = {j \in Taken(m) : j <= i}
    BY <2>1 DEF Taken
  <2>3. InTurn(scripted, i, config.script)
    BY <2>1 DEF OrderInv
  <2> QED
    BY <2>1, <2>2, <2>3 DEF InTurn
<1> QED
  BY <1>1, <1>2 DEF OrderInv

\* An answer to ARTICLE that is not a one-shot one; sc: the answers left.
Wanted(sc, cmd, kind) ==
    cmd.verb = "ARTICLE" /\ cmd.arg \in DOMAIN sc /\ kind \notin {"480", "body"}

\* Nothing is left for the article m, or the reply k of c was one of its answers.
Filled(sc, sd, c, k, m) ==
    \/ sc[m] = <<>>
    \/ \E i \in DOMAIN sd : sd[i].conn = c /\ sd[i].place = k

SkipDue(sc, sd, c, g) ==
    g.pending # <<>> /\ Wanted(sc, g.cmd, Head(g.pending)) =>
        Filled(sc, sd, c, Len(g.out) + 1, g.cmd.arg)

SkipOut(sc, sd, c, g) ==
    \A k \in DOMAIN g.out :
        Wanted(sc, g.out[k].for, g.out[k].kind) => Filled(sc, sd, c, k, g.out[k].for.arg)

SkipInv ==
    \A c \in Conns : SkipDue(script, scripted, c, conn[c]) /\ SkipOut(script, scripted, c, conn[c])

\* What is filled stays so.
Grows(sc, sd, sn, sm) ==
    /\ DOMAIN sn = DOMAIN sc
    /\ \A m \in DOMAIN sc : \A c, k : Filled(sc, sd, c, k, m) => Filled(sn, sm, c, k, m)

LEMMA FilledStays ==
    ASSUME TypeOK, [Next]_vars
    PROVE  Grows(script, scripted, script', scripted')
<1>1. CASE UNCHANGED <<script, scripted>>
  BY <1>1 DEF Filled, Grows
<1>2. ASSUME NEW x \in Conns, ArticleSequenced(x)
      PROVE  Grows(script, scripted, script', scripted')
  <2> DEFINE a == Head(conn[x].inbox).arg
  <2>1. script[a] # <<>> /\ script' = [script EXCEPT ![a] = Tail(@)]
    BY <1>2, SequencedStep
  <2>2. PICK e \in Item : scripted' = Append(scripted, e)
    BY <1>2, TakenStep
  <2>3. /\ scripted \in Seq(Item) /\ Len(scripted) \in Nat /\ DOMAIN scripted = 1..Len(scripted)
    BY ScriptedFacts
  <2>4. /\ DOMAIN scripted' = 1..(Len(scripted) + 1)
        /\ \A i \in 1..Len(scripted) : scripted'[i] = scripted[i]
    BY <2>2, <2>3, AppendProperties
  <2> HIDE DEF a
  <2>5. \A i \in DOMAIN scripted : i \in DOMAIN scripted' /\ scripted'[i] = scripted[i]
    BY <2>3, <2>4
  <2>6. \A m \in DOMAIN script : script[m] = <<>> => script'[m] = <<>>
    BY <2>1
  <2>7. DOMAIN script' = DOMAIN script
    BY <2>1
  <2> QED
    BY <2>5, <2>6, <2>7 DEF Filled, Grows
<1> QED
  BY <1>1, <1>2, Leaves

LEMMA SkipOutStays ==
    ASSUME NEW sc, NEW sd, NEW sn, NEW sm, NEW c, NEW o, NEW h, Grows(sc, sd, sn, sm),
           SkipOut(sc, sd, c, o), h.out = o.out
    PROVE  SkipOut(sn, sm, c, h)
<1> SUFFICES ASSUME NEW k \in DOMAIN o.out, Wanted(sn, o.out[k].for, o.out[k].kind)
             PROVE  Filled(sn, sm, c, k, o.out[k].for.arg)
  BY DEF SkipOut
<1>1. Wanted(sc, o.out[k].for, o.out[k].kind) /\ o.out[k].for.arg \in DOMAIN sc
  BY DEF Wanted, Grows
<1>2. Filled(sc, sd, c, k, o.out[k].for.arg)
  BY <1>1 DEF SkipOut
<1> QED
  BY <1>1, <1>2 DEF Grows

LEMMA SkipDueStays ==
    ASSUME NEW sc, NEW sd, NEW sn, NEW sm, NEW c, NEW o, NEW h, Grows(sc, sd, sn, sm),
           SkipDue(sc, sd, c, o), h.out = o.out, h.cmd = o.cmd, h.pending = o.pending
    PROVE  SkipDue(sn, sm, c, h)
<1> SUFFICES ASSUME o.pending # <<>>, Wanted(sn, o.cmd, Head(o.pending))
             PROVE  Filled(sn, sm, c, Len(o.out) + 1, o.cmd.arg)
  BY DEF SkipDue
<1>1. Wanted(sc, o.cmd, Head(o.pending)) /\ o.cmd.arg \in DOMAIN sc
  BY DEF Wanted, Grows
<1>2. Filled(sc, sd, c, Len(o.out) + 1, o.cmd.arg)
  BY <1>1 DEF SkipDue
<1> QED
  BY <1>1, <1>2 DEF Grows

LEMMA SkipPassed ==
    ASSUME NEW sc, NEW sd, NEW sn, NEW sm, NEW c, NEW o \in Session, NEW h \in Session,
           Grows(sc, sd, sn, sm), SkipOut(sc, sd, c, o), SkipDue(sc, sd, c, o),
           Sound(o), Passed(o, h)
    PROVE  SkipOut(sn, sm, c, h) /\ SkipDue(sn, sm, c, h)
<1> DEFINE p == Head(o.pending)
           r == [for |-> o.cmd, kind |-> p]
<1>1. /\ o.pending # <<>> /\ h.cmd = o.cmd
      /\ h.pending = IF p = "banner" \/ ~(Len(o.pending) > 1) THEN <<>> ELSE Tail(o.pending)
      /\ h.out = IF o.hung \/ p = "banner" THEN o.out ELSE Append(o.out, r)
  BY DEF Passed, Kept
<1>2. \/ ~(Len(o.pending) > 1)
      \/ Tail(o.pending) = <<"body">>
  BY <1>1, DueIs DEF Sound
<1>3. r \in Reply /\ r.for = o.cmd /\ r.kind = p
  <2>1. o.pending \in Seq(Parts) /\ o.cmd \in Cmds
    BY SessionFacts
  <2>2. p \in Parts
    BY <1>1, <2>1, HeadTailProperties
  <2> QED
    BY <2>1, <2>2 DEF Reply
<1>4. o.out \in Seq(Reply) /\ Len(o.out) \in Nat /\ DOMAIN o.out = 1..Len(o.out)
  BY SessionFacts
<1>5. o.pending # <<>> /\ Wanted(sc, o.cmd, p) => Filled(sc, sd, c, Len(o.out) + 1, o.cmd.arg)
  BY DEF SkipDue
<1> HIDE DEF p, r
<1>6. SkipDue(sn, sm, c, h)
  <2>1. h.pending = <<>> \/ h.pending = <<"body">>
    BY <1>1, <1>2
  <2>2. h.pending = <<>> \/ Head(h.pending) = "body"
    BY <2>1, Tuples
  <2> QED
    BY <2>2 DEF SkipDue, Wanted
<1>7. SkipOut(sn, sm, c, h)
  <2>1. CASE h.out = o.out
    BY <2>1, SkipOutStays
  <2>2. CASE h.out # o.out
    <3>1. h.out = Append(o.out, r)
      BY <1>1, <2>2
    <3>2. /\ DOMAIN h.out = 1..(Len(o.out) + 1) /\ h.out[Len(o.out) + 1] = r
          /\ \A i \in 1..Len(o.out) : h.out[i] = o.out[i]
      BY <1>3, <1>4, <3>1, AppendProperties
    <3>3. SkipOut(sn, sm, c, o)
      BY SkipOutStays
    <3>4. ASSUME NEW k \in DOMAIN h.out, Wanted(sn, h.out[k].for, h.out[k].kind)
          PROVE  Filled(sn, sm, c, k, h.out[k].for.arg)
      <4>1. CASE k = Len(o.out) + 1
        <5>1. h.out[k] = r
          BY <3>2, <4>1
        <5>2. Wanted(sc, o.cmd, p) /\ o.cmd.arg \in DOMAIN sc
          BY <1>3, <3>4, <5>1 DEF Wanted, Grows
        <5>3. Filled(sc, sd, c, k, o.cmd.arg)
          BY <1>1, <1>5, <4>1, <5>2
        <5>4. Filled(sn, sm, c, k, o.cmd.arg)
          BY <5>2, <5>3 DEF Grows
        <5> QED
          BY <1>3, <5>1, <5>4
      <4>2. CASE k # Len(o.out) + 1
        <5>1. k \in DOMAIN o.out /\ h.out[k] = o.out[k]
          BY <1>4, <3>2, <3>4, <4>2
        <5>2. Wanted(sn, o.out[k].for, o.out[k].kind)
          BY <3>4, <5>1
        <5>3. Filled(sn, sm, c, k, o.out[k].for.arg)
          BY <3>3, <5>1, <5>2 DEF SkipOut
        <5> QED
          BY <5>1, <5>3
      <4> QED
        BY <4>1, <4>2
    <3> QED
      BY <3>4 DEF SkipOut
  <2> QED
    BY <2>1, <2>2
<1> QED
  BY <1>6, <1>7

LEMMA SkipStep ==
    ASSUME TypeOK, TypeOK', SoundInv, SkipInv, [Next]_vars
    PROVE  SkipInv'
<1> SUFFICES ASSUME NEW x \in Conns
             PROVE  SkipDue(script', scripted', x, conn'[x]) /\ SkipOut(script', scripted', x, conn'[x])
  BY DEF SkipInv
<1> DEFINE o == conn[x]
           h == conn'[x]
           Goal == SkipDue(script', scripted', x, h) /\ SkipOut(script', scripted', x, h)
<1>1. o \in Session /\ h \in Session /\ Sound(o)
  BY DEF TypeOK, SoundInv
<1>2. SkipDue(script, scripted, x, o) /\ SkipOut(script, scripted, x, o)
  BY DEF SkipInv
<1>3. Grows(script, scripted, script', scripted')
  BY FilledStays
<1> HIDE DEF o, h
<1>4. ASSUME h.out = o.out
      PROVE  SkipOut(script', scripted', x, h)
  BY <1>2, <1>3, <1>4, SkipOutStays
<1>5. ASSUME h.out = o.out, h.cmd = o.cmd, h.pending = o.pending
      PROVE  Goal
  BY <1>2, <1>3, <1>4, <1>5, SkipDueStays
<1>6. ASSUME h = o
      PROVE  Goal
  BY <1>5, <1>6
<1>7. ASSUME NEW c \in Conns, Plain(c)
      PROVE  Goal
  <2>1. CASE x # c
    BY <1>6, <1>7, <2>1 DEF Plain, Becomes, o, h
  <2>2. CASE x = c /\ o.at = "none" /\ Begun(h)
    <3>1. o.out = <<>> /\ h.out = <<>> /\ h.cmd = NoCmd
      BY <1>1, <2>2 DEF Sound, Quiet, Begun
    <3>2. SkipDue(script', scripted', x, h)
      BY <3>1 DEF SkipDue, Wanted, NoCmd
    <3> QED
      BY <1>4, <3>1, <3>2
  <2>3. CASE x = c /\ \E cmd \in config.menu \cup {Text} : Said(o, h, cmd) /\ Heard(o, cmd)
    BY <1>5, <2>3 DEF Said, Kept
  <2>4. CASE x = c /\ Same(o, h)
    BY <1>5, <2>4 DEF Same, Kept
  <2>5. ASSUME x = c, NEW k, Commanded(c, k), Unscripted(c, k)
        PROVE  Goal
    <3>1. Answered(o, h, k) /\ k \in Codes
      BY <2>5 DEF Commanded, o, h
    <3>2. /\ h.out = o.out /\ h.cmd = Head(o.inbox)
          /\ h.pending = IF k \in Multi THEN <<k, "body">> ELSE <<k>>
      BY <3>1 DEF Answered
    <3>3. Head(h.pending) = k
      BY <3>2, Tuples
    <3>4. UNCHANGED <<script, scripted>>
      BY <1>7 DEF Plain
    <3>5. h.cmd.verb = "ARTICLE" => k = "480" \/ ~Sequenced(h.cmd)
      BY <2>5, <3>2 DEF Unscripted, o
    <3>6. SkipDue(script', scripted', x, h)
      BY <3>3, <3>4, <3>5 DEF SkipDue, Wanted, Filled, Sequenced
    <3> QED
      BY <1>4, <3>2, <3>6
  <2>6. CASE x = c /\ Passed(o, h)
    BY <1>1, <1>2, <1>3, <2>6, SkipPassed
  <2>7. CASE x = c /\ Gone(o, h)
    <3>1. h.out = o.out /\ h.pending = <<>>
      BY <2>7 DEF Gone
    <3>2. SkipDue(script', scripted', x, h)
      BY <3>1 DEF SkipDue
    <3> QED
      BY <1>4, <3>1, <3>2
  <2> HIDE DEF Goal
  <2>8. CASE x = c
    <3>1. ASSUME NEW k, Commanded(c, k), Unscripted(c, k)
          PROVE  Goal
      BY <2>5, <2>8, <3>1
    <3> QED
      BY <1>7, <2>2, <2>3, <2>4, <2>6, <2>7, <2>8, <3>1 DEF Plain, o, h
  <2> QED
    BY <2>1, <2>8
<1>8. ASSUME NEW c \in Conns, ArticleSequenced(c)
      PROVE  Goal
  <2>1. PICK e \in Item :
           /\ scripted' = Append(scripted, e) /\ e.conn = c /\ e.place = Len(conn[c].out) + 1
           /\ Answered(conn[c], conn'[c], e.code) /\ Becomes(c, conn'[c])
    BY <1>8, TakenItem
  <2>2. CASE x # c
    BY <1>6, <2>1, <2>2 DEF Becomes, o, h
  <2>3. CASE x = c
    <3>1. h.out = o.out
      BY <2>1, <2>3 DEF Answered, o, h
    <3>2. scripted \in Seq(Item)
      BY ScriptedFacts
    <3>3. Len(scripted) + 1 \in DOMAIN scripted' /\ scripted'[Len(scripted) + 1] = e
      BY <2>1, <3>2, AppendProperties
    <3>4. \A m : Filled(script', scripted', x, Len(h.out) + 1, m)
      BY <2>1, <2>3, <3>1, <3>3 DEF Filled, o
    <3>5. SkipDue(script', scripted', x, h)
      BY <3>4 DEF SkipDue
    <3> QED
      BY <1>4, <3>1, <3>5
  <2> QED
    BY <2>2, <2>3
<1>9. ASSUME NEW c \in Conns, Captured(c)
      PROVE  Goal
  <2>1. Becomes(c, conn'[c]) /\ Answered(conn[c], conn'[c], "240") /\ conn[c].posting = TRUE
    BY <1>9, CapturedStep
  <2>2. CASE x # c
    BY <1>6, <2>1, <2>2 DEF Becomes, o, h
  <2>3. CASE x = c
    <3>1. h.out = o.out /\ o.inbox # <<>> /\ h.cmd = Head(o.inbox)
      BY <2>1, <2>3 DEF Answered, o, h
    <3>2. o.inbox = <<Text>>
      BY <1>1, <2>1, <2>3, <3>1 DEF Sound, Posting, o
    <3>3. h.cmd = Text
      BY <3>1, <3>2, Tuples
    <3>4. SkipDue(script', scripted', x, h)
      BY <3>3 DEF SkipDue, Wanted, Text
    <3> QED
      BY <1>4, <3>1, <3>4
  <2> QED
    BY <2>2, <2>3
<1> HIDE DEF Goal
<1>10. Goal
  BY <1>6, <1>7, <1>8, <1>9, Steps DEF o, h
<1> QED
  BY <1>10 DEF Goal, o, h

LEMMA SkipIs == SkipInv => NoneSkipped
<1> SUFFICES ASSUME SkipInv, NEW c \in Conns, NEW k \in DOMAIN conn[c].out,
                    conn[c].out[k].for.verb = "ARTICLE", conn[c].out[k].for.arg \in DOMAIN script,
                    conn[c].out[k].kind \notin {"480", "body"}
             PROVE  \/ script[conn[c].out[k].for.arg] = <<>>
                    \/ \E i \in DOMAIN scripted : scripted[i].conn = c /\ scripted[i].place = k
  BY DEF NoneSkipped
<1>1. SkipOut(script, scripted, c, conn[c])
  BY DEF SkipInv
<1> QED
  BY <1>1 DEF SkipOut, Wanted, Filled

LEMMA ScriptInit == Init => ItemInv /\ OrderInv /\ SkipInv
<1> SUFFICES ASSUME Init PROVE ItemInv /\ OrderInv /\ SkipInv
  OBVIOUS
<1>1. /\ scripted = <<>> /\ script = config.script /\ config \in Configs
      /\ conn = [c \in Conns |-> Fresh("none")]
  BY DEF Init
<1>2. DOMAIN scripted = {}
  BY <1>1
<1>3. ItemInv
  BY <1>2 DEF ItemInv
<1>4. OrderInv
  <2>1. config.script \in [DOMAIN config.script -> Seq(Injected)]
    BY <1>1, ConfigFacts
  <2>2. ASSUME NEW m \in DOMAIN script
        PROVE  script[m] = SubSeq(config.script[m], Cardinality(TakenOf(scripted, m)) + 1, Len(config.script[m]))
    <3>1. TakenOf(scripted, m) = {}
      BY <1>2 DEF TakenOf
    <3>2. Cardinality(TakenOf(scripted, m)) = 0
      BY <3>1, FS_EmptySet
    <3>3. \A s \in Seq(Injected) : s = SubSeq(s, 0 + 1, Len(s))
      OBVIOUS
    <3> QED
      BY <1>1, <2>1, <2>2, <3>2, <3>3
  <2> QED
    BY <1>2, <2>2 DEF OrderInv
<1>5. SkipInv
  <2>1. ASSUME NEW c \in Conns
        PROVE  conn[c].out = <<>> /\ conn[c].pending = <<>>
    BY <1>1, FreshIs
  <2>2. ASSUME NEW c \in Conns
        PROVE  DOMAIN conn[c].out = {}
    BY <2>1
  <2> QED
    BY <2>1, <2>2 DEF SkipInv, SkipDue, SkipOut
<1> QED
  BY <1>3, <1>4, <1>5

(* The one-shot answers of an article are given in their order, each to one  *)
(* request; the reply at its place is that answer, or its session hung or    *)
(* closed; and no other answer is given for the article while some are left. *)
THEOREM ScriptCorrect == Spec => []ScriptOnce
<1>1. TypeOK /\ TypeOK' /\ SoundInv /\ SkipInv /\ [Next]_vars => SkipInv'
  BY SkipStep
<1>2. TypeOK /\ ItemInv /\ OrderInv /\ SkipInv => ScriptOnce
  BY GivenIs, OrderIs, SkipIs DEF ScriptOnce
<1> QED
  BY <1>1, <1>2, ScriptInit, ItemStep, OrderStep, SoundInit, SoundStep, MockTypeCorrect, PTL DEF Spec
=============================================================================
