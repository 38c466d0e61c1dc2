---------------------------- MODULE MCDownloader ----------------------------
(***************************************************************************)
(* Small instances of Downloader.  The servers are listed out of priority  *)
(* order, with one disabled, so that the order new() makes matters.        *)
(***************************************************************************)
EXTENDS Downloader, TLC

Server(p, e, c) == [priority |-> p, enabled |-> e, connections |-> c]

TwoServers   == <<Server(1, TRUE, 1), Server(0, FALSE, 1), Server(0, TRUE, 1)>>
OneServer == <<Server(0, TRUE, 1)>>

CONSTANTS d1, d2

OneAndTwo == (d1 :> 1) @@ (d2 :> 2)
OneEach   == (d1 :> 1) @@ (d2 :> 1)

NothingTried == {<<>>}
MaybeTried   == {<<>>, <<1>>}
=============================================================================
