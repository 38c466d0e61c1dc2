----------------------------- MODULE MCOverview -----------------------------
(* Small scripts: every block of lines that could be mistaken for something *)
(* else, and every mixture of rows.                                         *)
EXTENDS Overview

Line(t) == [kind |-> "line", text |-> t]
LastLine(t) == [kind |-> "last", text |-> t]
End == [kind |-> "end", text |-> <<>>]

\* "", ".", "..", ".CR", "CR" and a plain line.
Dots == {<<>>, <<Dot>>, <<Dot, Dot>>, <<Dot, CR>>, <<CR>>, <<65>>}

\* Articles of one or two lines, the last with or without LF, and what follows.
DotScripts ==
    LET Ls == {Line(t) : t \in Dots}
        As == {<<l>> : l \in Ls} \cup {<<l, LastLine(t)>> : l \in Ls, t \in Dots}
    IN  {a \o <<End>> \o b : a \in As \cup {<<>>}, b \in {<<>>, <<Line(<<65>>), End>>, <<Line(<<Dot>>), End>>}}

\* Rows of a format with two fields: 1 and 2 in the range, 9 out of it, 99 too
\* large, +1 and x no numbers, 1 with a field too few.
Rows ==
    {<<49, 9, 9>>, <<50, 9, 9>>, <<49, 9>>, <<57, 9, 9>>, <<57, 57, 9, 9>>, <<43, 49, 9, 9>>, <<120, 9, 9>>}

RowScripts == {<<Line(a), Line(b), Line(c), End>> : a \in Rows, b \in Rows, c \in Rows \cup {<<>>}}

MCScripts == DotScripts \cup RowScripts

MCRanges == {[first |-> 1, last |-> 2]}
=============================================================================
