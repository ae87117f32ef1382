------------------------------- MODULE MCTail -------------------------------
EXTENDS Tail

Contents(n) == [1..n -> Byte]
Ends(s) == s[Len(s)] = "nl"

(* Every file of up to one buffer and a half; files of two buffers, and of *)
(* two and a half, that end in a newline; files with a length at which an  *)
(* offset of gftail is -1 as an int, one with newlines in four buffers.    *)
MCStartData ==
    UNION {Contents(n) : n \in 0..3}
        \cup {s \in Contents(4) : Ends(s)}
        \cup {s \in Contents(5) : Ends(s) /\ s[1] = "x" /\ s[2] = "x"}
        \cup {[k \in 1..7 |-> "nl"], [k \in 1..9 |-> "x"]}

MCNewData == {<<"nl">>}
=============================================================================
