--------------------------- MODULE CommitLedger ---------------------------
(* What Kepaxos promises of the commits its leaders announce, as long as no
   replica restarts: a ledger that grows by one commit at a time, each under a
   ballot of its leader, above all the leader has used before.  A replica may
   therefore tell the commands apart, and order those of one leader, by their
   ballots alone. *)
EXTENDS Integers

VARIABLE commits

IssuedBy(n, b) == b % 256 = n

Init == commits = {}

Record(c) ==
    /\ IssuedBy(c.leader, c.ballot)
    /\ \A d \in commits : d.leader = c.leader => d.ballot < c.ballot
    /\ commits' = commits \cup {c}

Next == \E c \in commits' : Record(c)

Spec == Init /\ [][Next]_commits
=============================================================================
