-------------------------- MODULE MCNntpConnection --------------------------
(***************************************************************************)
(* Small instances of NntpConnection: a code of every kind the tables tell *)
(* apart, and configurations with and without credentials.                 *)
(***************************************************************************)
EXTENDS NntpConnection

SomeCodes ==
    {"101", "111", "200", "202", "222", "223", "224", "240", "281", "290", "340", "381", "400", "430", "480"}

Config(u, p, c) == [username |-> u, password |-> p, compress |-> c]
SomeConfigs == {Config(TRUE, TRUE, TRUE), Config(TRUE, FALSE, FALSE), Config(FALSE, FALSE, FALSE)}

SomeLists == {{}, {"READER", "POST"}, {"MODE-READER", "IHAVE"}}
=============================================================================
