------------------------------ MODULE MCReader ------------------------------
(* The reader on streams of short messages, with data that look like a
   separator or an end. *)
EXTENDS Reader

Message(version, records) == [version |-> version, records |-> records, end |-> EOM]

ShortMessages ==
    {Message(v, r) : v \in 1..2,
                     r \in {<< << >> >>, << <<128, 0>> >>, << <<144>>, <<7>> >>, << << >>, <<0>> >>}}

(* A version that is not known, and messages that do not end where they should. *)
BrokenMessages ==
    {Message(3, << <<7>> >>)}
    \cup {[Message(v, << <<7>> >>) EXCEPT !.end = 9] : v \in 1..2}

AllMessages == ShortMessages \cup BrokenMessages
=============================================================================
