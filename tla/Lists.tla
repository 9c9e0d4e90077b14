------------------------------- MODULE Lists --------------------------------
(***************************************************************************)
(* What several modules do to a table and to a list.                       *)
(***************************************************************************)
EXTENDS Integers, Sequences

\* A row goes into a table, in place of the one of this key.
Put(table, key, row) ==
    [k \in DOMAIN table \cup {key} |-> IF k = key THEN row ELSE table[k]]

\* The members of a sequence that are in a set, in their order.  (SelectSeq, in a form
\* that can be reasoned about.)
Selected(seq, set) ==
    LET got[i \in 0 .. Len(seq)] ==
            IF i = 0 THEN <<>>
            ELSE IF seq[i] \in set THEN Append(got[i - 1], seq[i]) ELSE got[i - 1]
    IN  got[Len(seq)]
=============================================================================
