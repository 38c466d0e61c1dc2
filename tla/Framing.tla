------------------------------ MODULE Framing ------------------------------
(***************************************************************************)
(* The lines of multi-line blocks: how src/connection.rs posts articles    *)
(* (post_article, post_article_bytes) and reads bodies                     *)
(* (read_multiline_body_into_bounded, read_multiline_body_prefix), and how *)
(* src/testutil.rs does the other side (write_multiline_body,              *)
(* read_posted_article).  One side writes articles one after the other on  *)
(* a stream that may break at any byte; the other reads them with the      *)
(* reader of its operation.                                                *)
(*                                                                         *)
(* A script is all that will be written: the lines of articles, split at   *)
(* LF, an "end" after each article; a "last" line is a last line without   *)
(* LF.  TCP keeps the order, so what is on its way is the part of the      *)
(* script that is sent and not taken.                                      *)
(***************************************************************************)
EXTENDS Integers, Sequences

CONSTANTS
    Scripts,  \* what a writer may write
    Writers,  \* of "post", "postbytes" (the client) and "server"
    Bounds,   \* byte bounds the callers of bounded readers give
    MaxLine   \* longest line of a prefix, 16 * 1024 bytes

Dot == 46
CR  == 13
LF  == 10

Bytes == 0..255
Text  == Seq(Bytes \ {LF})
Item  == [kind : {"line", "last", "end"}, text : Text]

ASSUME ScriptsAssumption == Scripts \subseteq Seq(Item)
ASSUME WritersAssumption == Writers \subseteq {"post", "postbytes", "server"}
ASSUME BoundsAssumption == Bounds \subseteq Nat \ {0} /\ MaxLine \in Nat

VARIABLES
    script, writer,
    sent,     \* items written in full
    closed,   \* the stream is over
    partial,  \* what arrived of the item that was being written when it broke
    reader,   \* "body", "bounded", "prefix" (the client) or "posted" (testutil)
    bound,    \* the bound of a bounded reader
    start,    \* items taken before this block
    taken,    \* items taken; sent + 1: the partial one too
    got,      \* lines of this block so far; the code appends them to one buffer
    size,     \* the length of that buffer
    outcome   \* "reading", "complete", "cut", "large" or "failed"

writeVars == <<script, writer, sent, closed, partial>>
readVars  == <<reader, bound, start, taken, got, size, outcome>>
vars == <<writeVars, readVars>>

-----------------------------------------------------------------------------
(* Lines                                                                    *)

WithoutLast(s) == SubSeq(s, 1, Len(s) - 1)

EndsWith(s, b) == s # <<>> /\ s[Len(s)] = b

\* str::lines() keeps the CR of a last line without LF, the loops over bytes do not.
Trimmed(item) ==
    IF EndsWith(item.text, CR) /\ ~(writer = "post" /\ item.kind = "last")
    THEN WithoutLast(item.text) ELSE item.text

Stuffed_Never(s) == s

Stuffed(s) == IF s # <<>> /\ s[1] = Dot THEN <<Dot>> \o s ELSE s

Unstuffed(s) == IF Len(s) >= 2 /\ s[1] = Dot /\ s[2] = Dot THEN Tail(s) ELSE s

\* What goes over the wire for an item.
WireLine(item) ==
    IF item.kind = "end" THEN <<Dot, CR, LF>> ELSE Stuffed(Trimmed(item)) \o <<CR, LF>>

\* read_posted_article() drops LF, then CR.
Chomped(s) ==
    LET t == IF EndsWith(s, LF) THEN WithoutLast(s) ELSE s
    IN  IF EndsWith(t, CR) THEN WithoutLast(t) ELSE t

IsEnd(l) ==
    IF reader = "posted" THEN Chomped(l) = <<Dot>>
    ELSE l \in {<<Dot, CR, LF>>, <<Dot, LF>>}

Data(l) ==
    IF reader = "posted" THEN Unstuffed(Chomped(l)) \o <<CR, LF>> ELSE Unstuffed(l)

-----------------------------------------------------------------------------
\* Bodies are read from a server, posted articles by one.
ReadersOf(w) == IF w = "server" THEN {"body", "bounded", "prefix"} ELSE {"posted"}

\* write_multiline_body() writes an empty article as one empty line: its scripts
\* have that line.
NoEmptyArticle(s) ==
    \A i \in 1..Len(s) : s[i].kind = "end" => i > 1 /\ s[i - 1].kind # "end"

Init ==
    /\ script \in Scripts /\ writer \in Writers
    /\ writer = "server" => NoEmptyArticle(script)
    /\ sent = 0 /\ closed = FALSE /\ partial = <<>>
    /\ reader \in ReadersOf(writer) /\ bound \in Bounds
    /\ start = 0 /\ taken = 0 /\ got = <<>> /\ size = 0
    /\ outcome = "reading"

Write ==
    /\ ~closed /\ sent < Len(script)
    /\ sent' = sent + 1
    /\ UNCHANGED <<script, writer, closed, partial, readVars>>

\* The writer's side ends, anywhere in a line.
Break ==
    /\ ~closed
    /\ closed' = TRUE
    /\ \/ partial' = <<>>
       \/ /\ sent < Len(script)
          /\ \E n \in 1..(Len(WireLine(script[sent + 1])) - 1) :
                partial' = SubSeq(WireLine(script[sent + 1]), 1, n)
    /\ UNCHANGED <<script, writer, sent, readVars>>

\* read_until(LF) returns a whole line, or at the end of the stream what is left.
Available == taken < sent \/ (taken = sent /\ closed /\ partial # <<>>)

NextLine == IF taken < sent THEN WireLine(script[taken + 1]) ELSE partial

Reading ==
    /\ outcome = "reading" /\ Available
    /\ taken' = taken + 1
    /\ UNCHANGED <<writeVars, reader, bound, start>>

Terminated ==
    /\ Reading
    /\ IsEnd(NextLine)
    /\ outcome' = "complete"
    /\ UNCHANGED <<got, size>>

\* The bound counts the bytes as they are returned.
TooLarge(l) ==
    \/ reader = "bounded" /\ size + Len(Data(l)) > bound
    \/ reader = "prefix" /\ Len(l) > MaxLine

ReadTooLarge ==
    /\ Reading
    /\ ~IsEnd(NextLine) /\ TooLarge(NextLine)
    /\ outcome' = "large"
    /\ UNCHANGED <<got, size>>

KeptOf_Whole(d) == d

\* A prefix takes no more of a line than there is room for.
KeptOf(d) == IF reader = "prefix" /\ Len(d) > bound - size THEN SubSeq(d, 1, bound - size) ELSE d

\* A prefix that has all the bytes asked for is cut, even if the terminator is next.
KeepLine ==
    /\ Reading
    /\ ~IsEnd(NextLine) /\ ~TooLarge(NextLine)
    /\ got' = Append(got, KeptOf(Data(NextLine)))
    /\ size' = size + Len(KeptOf(Data(NextLine)))
    /\ outcome' = IF reader = "prefix" /\ (Len(Data(NextLine)) > bound - size \/ size' = bound)
                  THEN "cut" ELSE "reading"

\* The end of the stream, or the timeout.
ReadFails ==
    /\ outcome = "reading" /\ ~Available
    /\ outcome' = "failed"
    /\ UNCHANGED <<writeVars, reader, bound, start, taken, got, size>>

\* A complete block leaves the stream where the next one begins.
NextBlock ==
    /\ outcome = "complete"
    /\ outcome' = "reading"
    /\ start' = taken /\ got' = <<>> /\ size' = 0
    /\ reader' \in ReadersOf(writer) /\ bound' \in Bounds
    /\ UNCHANGED <<writeVars, taken>>

Next == Write \/ Break \/ Terminated \/ ReadTooLarge \/ KeepLine \/ ReadFails \/ NextBlock

Spec == Init /\ [][Next]_vars

-----------------------------------------------------------------------------
(* Properties                                                               *)

\* A line of the article as it must arrive: with CRLF, whatever it ended with.
LineOf(item) == Trimmed(item) \o <<CR, LF>>

Begins(s, t) == Len(s) <= Len(t) /\ s = SubSeq(t, 1, Len(s))

(* Every variable keeps its type.                                           *)
TypeOK ==
    /\ script \in Scripts /\ writer \in Writers
    /\ sent \in 0..Len(script) /\ closed \in BOOLEAN
    /\ partial \in Seq(Bytes)
    /\ reader \in ReadersOf(writer) /\ bound \in Bounds
    /\ taken \in 0..(sent + 1) /\ start \in 0..taken
    /\ got \in Seq(Seq(Bytes)) /\ size \in Nat
    /\ outcome \in {"reading", "complete", "cut", "large", "failed"}

\* The block read is exactly the article written, and the next line is the
\* first one after its terminator.
WholeArticle ==
    /\ taken \in 1..sent /\ script[taken].kind = "end"
    /\ Len(got) = taken - start - 1
    /\ \A i \in 1..Len(got) : /\ script[start + i].kind # "end"
                              /\ got[i] = LineOf(script[start + i])

(* A body that is reported complete is the article that was sent, line by   *)
(* line, whatever its lines are: no line of it is taken for the terminator, *)
(* no dot is lost or added, no truncated article is taken for a whole one,  *)
(* and the stream is left where the next reply begins.  A test server's     *)
(* reader promises it only on a stream that did not break.                  *)
Delivered ==
    outcome = "complete" /\ (reader = "posted" => taken <= sent) => WholeArticle

(* A body prefix that was cut has exactly the bytes asked for, and they are *)
(* the first bytes of the body; whether they are all of it is left open     *)
(* (`complete` is false although the terminator may come next).  What is    *)
(* read in an unbounded line at the end of a broken stream is left out.     *)
PrefixExact ==
    outcome = "cut" /\ taken <= sent =>
        /\ size = bound
        /\ Len(got) = taken - start
        /\ \A i \in 1..Len(got) :
              /\ script[start + i].kind # "end"
              /\ IF i < Len(got) THEN got[i] = LineOf(script[start + i])
                 ELSE Begins(got[i], LineOf(script[start + i]))

=============================================================================
