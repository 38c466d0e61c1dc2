------------------------------ MODULE Overview ------------------------------
(***************************************************************************)
(* XOVER from the server's rows to the caller: a block read as in Framing  *)
(* and, when it is complete, parsed by parse_lossless_overview_rows of     *)
(* src/overview.rs.  parse_xover_data of src/connection.rs, which xover()  *)
(* applies to the same bytes, stands beside it.                            *)
(*                                                                         *)
(* A row is its bytes: a number, and fields that each follow a tab.        *)
(***************************************************************************)
EXTENDS Framing, SequencesExt

CONSTANTS
    Ranges,     \* ranges of article numbers asked for, [first, last]
    Fields,     \* number of fields of the negotiated format
    MinFields,  \* number of fields that every format has: 7
    MaxNumber   \* u64::MAX

ASSUME RangesAssumption == Ranges \subseteq [first : Nat, last : Nat]
ASSUME FieldsAssumption == MinFields \in Nat \ {0} /\ Fields \in Nat /\ MinFields <= Fields

VARIABLES
    range,      \* the range of the request
    rows,       \* LosslessOverviewRows.rows, [number, line]
    defective   \* LosslessOverviewRows.defective_rows, [code, line]

overviewVars == <<range, rows, defective>>

Tab  == 9
Plus == 43
Digits == 48..57

-----------------------------------------------------------------------------
FirstTab(l) == SelectInSeq(l, LAMBDA b : b = Tab)

NumberBytes(l) == IF FirstTab(l) = 0 THEN l ELSE SubSeq(l, 1, FirstTab(l) - 1)

FieldCount(l) == Len(SelectSeq(l, LAMBDA b : b = Tab))

Value(digits) ==
    LET value[k \in 0..Len(digits)] == IF k = 0 THEN 0 ELSE 10 * value[k - 1] + (digits[k] - 48)
    IN  value[Len(digits)]

\* parse_ascii_u64; -1: none.
AsciiU64(bs) ==
    IF bs # <<>> /\ ToSet(bs) \subseteq Digits /\ Value(bs) <= MaxNumber THEN Value(bs) ELSE -1

\* str::parse, with 0 for what is no number: it also takes a sign.
LossyU64(bs) ==
    LET digits == IF bs # <<>> /\ bs[1] = Plus THEN Tail(bs) ELSE bs
    IN  IF AsciiU64(digits) = -1 THEN 0 ELSE AsciiU64(digits)

\* The failure code of a row of the range asked for; the order of the checks
\* decides which row of a number is its row.
Code(l, seen, asked) ==
    LET n == AsciiU64(NumberBytes(l))
    IN  IF n = -1 THEN "article_number_invalid"
        ELSE IF n < asked.first \/ n > asked.last THEN "article_number_out_of_range"
        ELSE IF FieldCount(l) # Fields THEN "field_count_invalid"
        ELSE IF n \in seen THEN "duplicate_article_number"
        ELSE "none"

ParseLine_AlwaysSeen(r, l, asked) ==
    LET code == Code(l, r.seen, asked)
        n == AsciiU64(NumberBytes(l))
    IN  IF l = <<>> THEN r
        ELSE IF code = "none"
        THEN [r EXCEPT !.rows = Append(@, [number |-> n, line |-> l]), !.seen = @ \cup {n}]
        ELSE [r EXCEPT !.defective = Append(@, [code |-> code, line |-> l]), !.seen = @ \cup {n}]

\* One line of the loop; empty ones are skipped, and `seen.insert` happens only
\* where the last check is reached.
ParseLine(r, l, asked) ==
    LET code == Code(l, r.seen, asked)
        n == AsciiU64(NumberBytes(l))
    IN  IF l = <<>> THEN r
        ELSE IF code = "none"
        THEN [r EXCEPT !.rows = Append(@, [number |-> n, line |-> l]), !.seen = @ \cup {n}]
        ELSE [r EXCEPT !.defective = Append(@, [code |-> code, line |-> l])]

\* parse_lossless_overview_rows, line after line.
Parsed(lines, asked) ==
    LET parsed[k \in 0..Len(lines)] ==
            IF k = 0 THEN [rows |-> <<>>, defective |-> <<>>, seen |-> {}]
            ELSE ParseLine(parsed[k - 1], Chomped(lines[k]), asked)
    IN  parsed[Len(lines)]

\* parse_xover_data: the number of the entry for a line, if it has one.
AddEntry_OneMore(es, l) ==
    IF FieldCount(l) > MinFields THEN Append(es, LossyU64(NumberBytes(l))) ELSE es

AddEntry(es, l) ==
    IF FieldCount(l) >= MinFields THEN Append(es, LossyU64(NumberBytes(l))) ELSE es

Entries(lines) ==
    LET entries[k \in 0..Len(lines)] ==
            IF k = 0 THEN <<>> ELSE AddEntry(entries[k - 1], Chomped(lines[k]))
    IN  entries[Len(lines)]

-----------------------------------------------------------------------------
OverviewInit == Init /\ range \in Ranges /\ rows = <<>> /\ defective = <<>>

\* xover_lossless() and xover_lossless_bounded() read a block and parse it when
\* it is complete; another request may follow.
Parse ==
    /\ Terminated
    /\ IF reader \in {"body", "bounded"}
       THEN rows' = Parsed(got, range).rows /\ defective' = Parsed(got, range).defective
       ELSE UNCHANGED <<rows, defective>>
    /\ range' = range

NextRequest ==
    /\ NextBlock
    /\ range' \in Ranges /\ rows' = <<>> /\ defective' = <<>>

OverviewNext ==
    \/ Parse
    \/ NextRequest
    \/ (Write \/ Break \/ ReadTooLarge \/ KeepLine \/ ReadFails) /\ UNCHANGED overviewVars

OverviewSpec == OverviewInit /\ [][OverviewNext]_<<vars, overviewVars>>

-----------------------------------------------------------------------------
(* Properties                                                               *)

\* What the server sent in this block: the places of its lines in the script.
Sent == {i \in (start + 1)..(taken - 1) : Trimmed(script[i]) # <<>>}

TextAt(i) == Trimmed(script[i])
NumberAt(i) == AsciiU64(NumberBytes(TextAt(i)))

\* A row that can be the row of its number, and the first such.
Sound(i) ==
    FieldCount(TextAt(i)) = Fields /\ NumberAt(i) \in range.first..range.last
First(i) == Sound(i) /\ \A j \in Sent : j < i /\ Sound(j) => NumberAt(j) # NumberAt(i)

\* s holds the values of the function f in the order of its domain.
Lists(s, f) ==
    \E place \in [DOMAIN s -> DOMAIN f] :
        /\ \A i, j \in DOMAIN s : i < j => place[i] < place[j]
        /\ \A d \in DOMAIN f : \E i \in DOMAIN s : place[i] = d
        /\ \A i \in DOMAIN s : s[i] = f[place[i]]

(* xover_lossless(), "malformed rows remain exact and typed": each line that *)
(* is not empty is either a row or a defective row, byte for byte and in    *)
(* the server's order; the rows are the first sound line of each number in  *)
(* the range: a malformed line never takes the place of a later sound one.  *)
RowsExact ==
    outcome = "complete" /\ reader \in {"body", "bounded"} =>
        /\ Lists(rows, [i \in {i \in Sent : First(i)} |-> [number |-> NumberAt(i), line |-> TextAt(i)]])
        /\ Lists([i \in DOMAIN defective |-> defective[i].line],
                 [i \in {i \in Sent : ~First(i)} |-> TextAt(i)])

(* xover() and xover_lossless() agree on the bytes they both accept: each   *)
(* row of the one is an entry of the other, with the same number and in the *)
(* same order.                                                              *)
RowsAreEntries ==
    outcome = "complete" /\ reader \in {"body", "bounded"} =>
        LET entries == Entries(got)
        IN  \E f \in [DOMAIN rows -> DOMAIN entries] :
              /\ \A i \in DOMAIN rows : entries[f[i]] = rows[i].number
              /\ \A i, j \in DOMAIN rows : i < j => f[i] < f[j]
=============================================================================
