---------------------------- MODULE MCMockServer ----------------------------
(* Configurations of the mock server, each with the commands clients send.  *)
EXTENDS MockServer, TLC

Cmd(v, a) == [verb |-> v, arg |-> a]

NoScript == [m \in {} |-> <<>>]

\* MockConfig::default() with one article, a group and entries.
Default ==
    [auth_required |-> FALSE, fail_auth |-> FALSE, valid_credentials |-> FALSE,
     service_unavailable |-> FALSE, auth_rate_limit |-> FALSE,
     groups |-> "g" :> [first |-> 10, last |-> 20], articles |-> {"m"},
     range |-> ("in" :> [start |-> 20, end |-> 30]) @@ ("out" :> [start |-> 21, end |-> 30]),
     entries |-> {"XOVER", "HEAD", "XHDR", "XPAT"}, xover_423 |-> FALSE,
     unsupported |-> {}, post_not_permitted |-> FALSE,
     overrides |-> [m \in {} |-> "430"], script |-> NoScript,
     silent_close_after_bytes |-> 99, hang_after_command |-> "none",
     close_after_n_commands |-> 99, menu |-> {}, clients |-> 1, sends |-> 3]

\* Authentication with the limiter, and a limiter alone.
Auth == [Default EXCEPT !.auth_required = TRUE, !.valid_credentials = TRUE,
            !.auth_rate_limit = TRUE, !.clients = 2, !.sends = 2,
            !.menu = {Cmd("PASS", "good"), Cmd("PASS", "bad"), Cmd("ARTICLE", "m")}]

\* Readers; the group and the capabilities of old servers.
Reader == [Default EXCEPT !.xover_423 = TRUE, !.close_after_n_commands = 2,
              !.menu = {Cmd("GROUP", "g"), Cmd("XOVER", "in"), Cmd("XOVER", "out"),
                        Cmd("HEAD", "1"), Cmd("XHDR", "h"), Cmd("XPAT", "p"), Cmd("QUIT", "-")}]
Bare == [Default EXCEPT !.auth_required = TRUE, !.fail_auth = TRUE, !.entries = {},
            !.unsupported = {"CAPABILITIES", "XPAT"}, !.hang_after_command = "XPAT",
            !.menu = {Cmd("CAPABILITIES", "-"), Cmd("USER", "u"), Cmd("XPAT", "p"), Cmd("LIST", "ACTIVE"),
                     Cmd("LIST", "EXTENSIONS")}]

\* One-shot answers, an override, and a server that hangs or cuts.
Scripted == [Default EXCEPT !.script = "m" :> <<"400", "503">>, !.overrides = "x" :> "430",
                !.clients = 2, !.sends = 2,
                !.menu = {Cmd("ARTICLE", "m"), Cmd("BODY", "m"), Cmd("STAT", "x")}]
Hangs == [Scripted EXCEPT !.hang_after_command = "BODY"]
Cuts  == [Scripted EXCEPT !.silent_close_after_bytes = 5]

\* Posting.
Posts == [Default EXCEPT !.close_after_n_commands = 2, !.silent_close_after_bytes = 7,
             !.clients = 2, !.sends = 2,
             !.menu = {Cmd("POST", "-"), Cmd("MODE", "READER"), Cmd("QUIT", "-")}]

Down == [Default EXCEPT !.service_unavailable = TRUE]

Symmetry == Permutations(Conns)

MCConfigs == {Auth, Reader, Bare, Scripted, Hangs, Cuts, Posts, Down}
=============================================================================
