------------------------------ MODULE Kepaxos ------------------------------
(* Key-based Egalitarian Paxos (src/kepaxos.c), for one key.

   Every replica n holds the ballot ke->ballot, the entry of the key in the
   table ke->commands, the seq and ballot the log keeps for the key, and the
   value its commit callback applied last.  A command is named by the value it
   carries; kepaxos_run_command is called at most once per value, so the name
   also identifies the kepaxos_cmd_t object a caller waits on.  An entry that
   a peer's PRE_ACCEPT or ACCEPT created carries no value (NoVal).

   ke->lock makes each handler one step.  Three windows remain, and are steps
   of their own: the leader commits after it has released ke->lock; a caller
   finds its command in the table before it marks itself waiting, and the
   expirer, which does not take ke->lock, can run in between; and
   update_ballot runs before ke->lock is taken.

   The network loses, delays and reorders.  A message holds, besides the
   protocol's fields, the command whose connection carries it, so that two
   requests in flight stay two messages. *)
EXTENDS Integers, Sequences, FiniteSets

CONSTANTS
    N,          \* ke->num_peers
    Values,     \* the commands that may be run
    NoVal,      \* type 0, data NULL
    Leaders,    \* the replicas kepaxos_run_command is called on
    Faults,     \* which of "lose", "expire", "crash" and "fail" may happen
    MaxValue,   \* bound on the ballot values proposed
    MaxSeq      \* bound on the sequence numbers proposed

ASSUME NAssumption == N \in 2..256
ASSUME ValuesAssumption == NoVal \notin Values
ASSUME LeadersAssumption == Leaders \subseteq 0 .. N - 1
ASSUME BoundsAssumption == MaxValue \in Nat /\ MaxSeq \in Nat

VARIABLES
    ballot,      \* ballot[n]: ke->ballot
    cmds,        \* cmds[n]: the key's entry in ke->commands, or NoCmd
    log,         \* log[n]: what kepaxos_last_seq_for_key reads
    store,       \* store[n]: the value the commit callback applied last
    committing,  \* committing[n]: the command in kepaxos_commit, and how far
    recovery,    \* recovery[n]: the item kepaxos_recover queued, or NoItem
    run,         \* run[v]: the call kepaxos_run_command(v)
    msgs,        \* messages in flight
    commits      \* history: the commits the leaders have recorded

vars == <<ballot, cmds, log, store, committing, recovery, run, msgs, commits>>

Nodes == 0 .. N - 1
Quorum_others == (N - 1) \div 2
Quorum == N \div 2
Larger(a, b) == IF a >= b THEN a ELSE b
-----------------------------------------------------------------------------
(* Ballots: (value << 8) | my_index *)
MkBallot(v, n) == v * 256 + n
BALLOT_VALUE(b) == b \div 256
BALLOT2NODE_value(b) == b \div 256
BALLOT2NODE(b) == b % 256
IS_MY_BALLOT(n, b) == BALLOT2NODE(b) = n

update_ballot_equal(n, cur, b) ==
    IF BALLOT_VALUE(b) = 0 THEN cur ELSE Larger(cur, MkBallot(BALLOT_VALUE(b), n))

(* The ballot of replica n, now at cur, after it has seen ballot b. *)
update_ballot(n, cur, b) ==
    IF BALLOT_VALUE(b) = 0
    THEN cur
    ELSE Larger(cur, MkBallot(BALLOT_VALUE(b) + 1, n))

InitialBallot(n) == MkBallot(1, n)
-----------------------------------------------------------------------------
NoCmd == [val |-> NoVal, seq |-> 0, ballot |-> 0, status |-> "absent",
          votes |-> << >>, max_seq |-> 0, max_seq_committed |-> FALSE]

(* The zeroed structure calloc returns. *)
ZeroCmd == [NoCmd EXCEPT !.status = "NONE"]

NoItem == [peer |-> 0, seq |-> 0, ballot |-> 0]

Present(n) == cmds[n].status # "absent"

Idle == [cmd |-> NoCmd, pc |-> "none"]

(* ke->lock is held across two steps only by a caller that has found its
   command in the table and is about to wait on it. *)
LockFree(n) == \A v \in Values : ~ (run[v].node = n /\ run[v].pc = "checked")

Destroyed_silent(r, e) == r

(* kepaxos_command_destroy: wakes the caller waiting on entry e.  A caller
   that has not set waiting yet overwrites the flag later. *)
Destroyed(r, e) ==
    [v \in Values |-> IF e.status # "absent" /\ e.val = v /\ r[v].pc = "waiting"
                      THEN [r[v] EXCEPT !.pc = "woken"]
                      ELSE r[v]]

Message(type, n, p, b, s, committed, v) ==
    [type |-> type, from |-> n, to |-> p, ballot |-> b, seq |-> s,
     committed |-> committed, val |-> v, closed |-> FALSE]

(* The answer to request m, unless its sender has died. *)
Reply(type, m, b, s, committed) ==
    IF m.closed THEN {} ELSE {Message(type, m.to, m.from, b, s, committed, m.val)}

ToOthers(type, n, b, s, committed, v) ==
    {Message(type, n, p, b, s, committed, v) : p \in Nodes \ {n}}

-----------------------------------------------------------------------------
Init ==
    /\ ballot = [n \in Nodes |-> InitialBallot(n)]
    /\ cmds = [n \in Nodes |-> NoCmd]
    /\ log = [n \in Nodes |-> [seq |-> 0, ballot |-> 0, max |-> 0]]
    /\ store = [n \in Nodes |-> NoVal]
    /\ committing = [n \in Nodes |-> Idle]
    /\ recovery = [n \in Nodes |-> NoItem]
    /\ run = [v \in Values |-> [node |-> 0, pc |-> "idle", seq |-> 0, ok |-> FALSE]]
    /\ msgs = {}
    /\ commits = {}

(* kepaxos_set_last_seq_for_key *)
Logged(n, b, s) ==
    [log EXCEPT ![n] = [seq |-> s, ballot |-> b, max |-> Larger(b, log[n].max)]]

-----------------------------------------------------------------------------
(* kepaxos_run_command: the entry of the key is replaced, whoever waits on the
   previous command is woken, and PRE_ACCEPT goes to the others. *)
RunCommand(n, v) ==
    LET prev == cmds[n]
        seq == IF Present(n) THEN Larger(log[n].seq + 1, prev.seq + 1)
                             ELSE log[n].seq + 1
    IN  /\ run[v].pc = "idle"
        /\ LockFree(n)
        /\ seq <= MaxSeq /\ BALLOT_VALUE(ballot[n]) <= MaxValue
        /\ cmds' = [cmds EXCEPT ![n] =
                       [ZeroCmd EXCEPT !.val = v, !.seq = seq, !.ballot = ballot[n],
                                       !.status = "PRE_ACCEPTED"]]
        /\ run' = [Destroyed(run, prev) EXCEPT ![v] =
                       [node |-> n, pc |-> "sending", seq |-> seq, ok |-> FALSE]]
        /\ recovery' = [recovery EXCEPT ![n] = NoItem]
        /\ msgs' = msgs \cup ToOthers("PRE_ACCEPT", n, ballot[n], seq, FALSE, v)
        /\ UNCHANGED <<ballot, log, store, committing, commits>>

(* The caller looks its command up again once the PRE_ACCEPTs are sent. *)
CheckCommand(v) ==
    LET n == run[v].node
    IN  /\ run[v].pc = "sending"
        /\ LockFree(n)
        /\ run' = [run EXCEPT ![v] =
                      IF Present(n) /\ cmds[n].val = v
                      THEN [@ EXCEPT !.pc = "checked"]
                      ELSE [@ EXCEPT !.pc = "returned", !.ok = log[n].seq >= run[v].seq]]
        /\ UNCHANGED <<ballot, cmds, log, store, committing, recovery, msgs, commits>>

(* waiting = 1, and pthread_cond_wait releases the locks. *)
WaitCommand(v) ==
    /\ run[v].pc = "checked"
    /\ run' = [run EXCEPT ![v].pc = "waiting"]
    /\ UNCHANGED <<ballot, cmds, log, store, committing, recovery, msgs, commits>>

(* The woken caller compares the seq it first proposed with the log. *)
ReturnCommand(v) ==
    LET n == run[v].node
    IN  /\ run[v].pc = "woken"
        /\ LockFree(n)
        /\ run' = [run EXCEPT ![v].pc = "returned", ![v].ok = log[n].seq >= run[v].seq]
        /\ UNCHANGED <<ballot, cmds, log, store, committing, recovery, msgs, commits>>

-----------------------------------------------------------------------------
(* Replica n takes message m off the wire and runs update_ballot. *)
Receive(n, m, type) ==
    /\ m \in msgs /\ m.type = type /\ m.to = n
    /\ LockFree(n)
    /\ ballot' = [ballot EXCEPT ![n] = update_ballot(n, ballot[n], m.ballot)]

(* update_ballot in a thread that has yet to take ke->lock. *)
UpdateBallotEarly(n, m) ==
    /\ m \in msgs /\ m.to = n
    /\ ballot' = [ballot EXCEPT ![n] = update_ballot(n, ballot[n], m.ballot)]
    /\ UNCHANGED <<cmds, log, store, committing, recovery, run, msgs, commits>>

(* A message that its handler ignores. *)
Ignored == UNCHANGED <<cmds, log, store, committing, recovery, run, commits>>

-----------------------------------------------------------------------------
(* kepaxos_handle_preaccept *)
PreAcceptIgnored(n, m) ==
    \/ log[n].seq = m.seq /\ log[n].ballot = m.ballot
    \/ Present(n) /\ m.ballot < cmds[n].ballot

HandlePreAccept(n, m) ==
    LET interfering_seq == Larger(log[n].seq, cmds[n].seq)
        max_seq == Larger(m.seq, interfering_seq)
        cmd == IF Present(n)
               THEN [cmds[n] EXCEPT !.ballot = m.ballot]
               ELSE [ZeroCmd EXCEPT !.seq = m.seq, !.ballot = m.ballot]
        adopt == m.seq >= interfering_seq
    IN  /\ Receive(n, m, "PRE_ACCEPT")
        /\ ~ PreAcceptIgnored(n, m)
        /\ cmds' = [cmds EXCEPT ![n] =
                       IF adopt
                       THEN [cmd EXCEPT !.status = "PRE_ACCEPTED", !.seq = interfering_seq]
                       ELSE cmd]
        /\ recovery' =
              IF adopt /\ cmd.status = "ACCEPTED" /\ ~ IS_MY_BALLOT(n, cmd.ballot)
              THEN [recovery EXCEPT ![n] = [peer |-> BALLOT2NODE(cmd.ballot),
                                            seq |-> cmd.seq, ballot |-> cmd.ballot]]
              ELSE recovery
        /\ msgs' = (msgs \ {m}) \cup
              Reply("PRE_ACCEPT_RESPONSE", m, cmd.ballot, max_seq, max_seq = log[n].seq)
        /\ UNCHANGED <<log, store, committing, run, commits>>

IgnorePreAccept(n, m) ==
    /\ Receive(n, m, "PRE_ACCEPT")
    /\ PreAcceptIgnored(n, m)
    /\ msgs' = msgs \ {m}
    /\ Ignored

-----------------------------------------------------------------------------
(* The asynchronous I/O thread of a replica handles the responses one at a
   time, the commits they lead to included. *)
ReceiveResponse(n, m, type) ==
    /\ Receive(n, m, type)
    /\ committing[n].pc = "none"

ResponseIgnored_anyballot(n, m, status) == ~ Present(n) \/ cmds[n].status # status

ResponseIgnored(n, m, status) ==
    \/ ~ Present(n)
    \/ m.ballot < cmds[n].ballot
    \/ cmds[n].status # status

IgnoreResponse(n, m) ==
    /\ \/ /\ ReceiveResponse(n, m, "PRE_ACCEPT_RESPONSE")
          /\ ResponseIgnored(n, m, "PRE_ACCEPTED")
       \/ /\ ReceiveResponse(n, m, "ACCEPT_RESPONSE")
          /\ ResponseIgnored(n, m, "ACCEPTED")
    /\ msgs' = msgs \ {m}
    /\ Ignored

Vote(m) == [seq |-> m.seq, ballot |-> m.ballot, peer |-> m.from]

(* The entry is taken out of the table and handed to kepaxos_commit. *)
StartCommit(n, m, cmd) ==
    /\ cmds' = [cmds EXCEPT ![n] = NoCmd]
    /\ committing' = [committing EXCEPT ![n] = [cmd |-> cmd, pc |-> "apply"]]
    /\ msgs' = msgs \ {m}
    /\ UNCHANGED <<log, store, recovery, run, commits>>

(* A new accept round for entry cmd, under the replica's ballot and seq s. *)
StartAccept(n, m, cmd, s) ==
    /\ s <= MaxSeq /\ BALLOT_VALUE(ballot'[n]) <= MaxValue
    /\ cmds' = [cmds EXCEPT ![n] =
                   [cmd EXCEPT !.votes = << >>, !.max_seq = 0, !.seq = s,
                               !.ballot = ballot'[n], !.status = "ACCEPTED"]]
    /\ msgs' = (msgs \ {m}) \cup ToOthers("ACCEPT", n, ballot'[n], s, FALSE, cmd.val)
    /\ UNCHANGED <<log, store, committing, recovery, run, commits>>

-----------------------------------------------------------------------------
(* kepaxos_handle_preaccept_response *)
PreAcceptVoted(n, m) ==
    LET max_seq == Larger(cmds[n].max_seq, m.seq)
    IN  [cmds[n] EXCEPT
            !.votes = Append(@, Vote(m)),
            !.max_seq = max_seq,
            !.max_seq_committed = IF m.seq # cmds[n].max_seq
                                  THEN m.committed /\ max_seq = m.seq
                                  ELSE @ \/ m.committed]

ShortPathOpen(cmd) ==
    \/ cmd.seq > cmd.max_seq
    \/ cmd.seq = cmd.max_seq /\ ~ cmd.max_seq_committed

HandlePreAcceptResponse(n, m) ==
    LET cmd == PreAcceptVoted(n, m)
    IN  /\ ReceiveResponse(n, m, "PRE_ACCEPT_RESPONSE")
        /\ ~ ResponseIgnored(n, m, "PRE_ACCEPTED")
        /\ \/ /\ Len(cmd.votes) < Quorum
              /\ cmds' = [cmds EXCEPT ![n] = cmd]
              /\ msgs' = msgs \ {m}
              /\ UNCHANGED <<log, store, committing, recovery, run, commits>>
           \/ /\ Len(cmd.votes) >= Quorum /\ ShortPathOpen(cmd)
              /\ StartCommit(n, m, cmd)
           \/ /\ Len(cmd.votes) >= Quorum /\ ~ ShortPathOpen(cmd)
              /\ StartAccept(n, m, cmd, cmd.max_seq + 1)

-----------------------------------------------------------------------------
(* kepaxos_handle_accept *)
HandleAccept(n, m) ==
    LET adopt == m.seq >= cmds[n].seq
        cmd == IF Present(n) THEN cmds[n] ELSE ZeroCmd
        accepted == IF adopt
                    THEN [cmd EXCEPT !.seq = m.seq, !.ballot = m.ballot, !.status = "ACCEPTED"]
                    ELSE cmd
    IN  /\ Receive(n, m, "ACCEPT")
        /\ m.ballot >= cmds[n].ballot
        /\ cmds' = [cmds EXCEPT ![n] = accepted]
        /\ msgs' = (msgs \ {m}) \cup
              Reply("ACCEPT_RESPONSE", m, accepted.ballot, accepted.seq, accepted.seq = log[n].seq)
        /\ UNCHANGED <<log, store, committing, recovery, run, commits>>

IgnoreAccept(n, m) ==
    /\ Receive(n, m, "ACCEPT")
    /\ m.ballot < cmds[n].ballot
    /\ msgs' = msgs \ {m}
    /\ Ignored

-----------------------------------------------------------------------------
(* kepaxos_handle_accept_response *)
AcceptVoted(n, m) ==
    [cmds[n] EXCEPT !.votes = Append(@, Vote(m)), !.max_seq = Larger(@, m.seq)]

count_ok(cmd, m) ==
    Cardinality({i \in 1 .. Len(cmd.votes) :
                    cmd.votes[i].seq = m.seq /\ cmd.votes[i].ballot = m.ballot})

HandleAcceptResponse(n, m) ==
    LET cmd == AcceptVoted(n, m)
        taken == cmd.seq = m.seq /\ m.committed
        retry == taken \/ (count_ok(cmd, m) < Quorum /\ Len(cmd.votes) >= Quorum)
    IN  /\ ReceiveResponse(n, m, "ACCEPT_RESPONSE")
        /\ ~ ResponseIgnored(n, m, "ACCEPTED")
        /\ \/ /\ retry
              /\ StartAccept(n, m, cmd, IF taken \/ cmd.seq <= cmd.max_seq
                                        THEN cmd.seq + 1 ELSE cmd.seq)
           \/ /\ ~ retry /\ count_ok(cmd, m) < Quorum
              /\ cmds' = [cmds EXCEPT ![n] = cmd]
              /\ msgs' = msgs \ {m}
              /\ UNCHANGED <<log, store, committing, recovery, run, commits>>
           \/ /\ ~ retry /\ count_ok(cmd, m) >= Quorum
              /\ StartCommit(n, m, cmd)

-----------------------------------------------------------------------------
(* kepaxos_commit, without ke->lock: the commit callback.  A command without
   a type, one that only a peer's message put in the table, is refused. *)
CommitApply(n) ==
    /\ committing[n].pc = "apply"
    /\ recovery' = [recovery EXCEPT ![n] = NoItem]
    /\ \/ /\ committing[n].cmd.val # NoVal
          /\ store' = [store EXCEPT ![n] = committing[n].cmd.val]
          /\ committing' = [committing EXCEPT ![n].pc = "record"]
          /\ UNCHANGED run
       \/ /\ committing[n].cmd.val = NoVal \/ "fail" \in Faults
          /\ committing' = [committing EXCEPT ![n] = Idle]
          /\ run' = Destroyed(run, committing[n].cmd)
          /\ UNCHANGED store
    /\ UNCHANGED <<ballot, cmds, log, msgs, commits>>

(* The leader records the command, whatever the log holds by now, announces
   it and wakes the caller. *)
CommitRecord(n) ==
    LET cmd == committing[n].cmd
    IN  /\ committing[n].pc = "record"
        /\ LockFree(n)
        /\ log' = Logged(n, cmd.ballot, cmd.seq)
        /\ msgs' = msgs \cup ToOthers("COMMIT", n, cmd.ballot, cmd.seq, TRUE, cmd.val)
        /\ committing' = [committing EXCEPT ![n] = Idle]
        /\ run' = Destroyed(run, cmd)
        /\ commits' = commits \cup
              {[leader |-> n, ballot |-> cmd.ballot, seq |-> cmd.seq, val |-> cmd.val]}
        /\ UNCHANGED <<ballot, cmds, store, recovery>>

CommitIgnored_seen(n, m) == m.ballot < ballot[n] \/ m.seq < log[n].seq

(* kepaxos_handle_commit *)
CommitIgnored(n, m) ==
    \/ Present(n) /\ cmds[n].seq = m.seq /\ cmds[n].ballot > m.ballot
    \/ m.seq < log[n].seq

HandleCommit(n, m) ==
    /\ Receive(n, m, "COMMIT")
    /\ ~ CommitIgnored(n, m)
    /\ \/ store' = [store EXCEPT ![n] = m.val]
       \/ "fail" \in Faults /\ UNCHANGED store
    /\ recovery' = [recovery EXCEPT ![n] = NoItem]
    /\ log' = Logged(n, m.ballot, m.seq)
    /\ IF Present(n) /\ cmds[n].seq <= m.seq
       THEN /\ cmds' = [cmds EXCEPT ![n] = NoCmd]
            /\ run' = Destroyed(run, cmds[n])
       ELSE UNCHANGED <<cmds, run>>
    /\ msgs' = msgs \ {m}
    /\ UNCHANGED <<committing, commits>>

IgnoreCommit(n, m) ==
    /\ Receive(n, m, "COMMIT")
    /\ CommitIgnored(n, m)
    /\ msgs' = msgs \ {m}
    /\ Ignored

-----------------------------------------------------------------------------
(* kepaxos_expire_command: the expirer does not take ke->lock. *)
Expire(n) ==
    /\ "expire" \in Faults
    /\ Present(n)
    /\ cmds' = [cmds EXCEPT ![n] = NoCmd]
    /\ run' = Destroyed(run, cmds[n])
    /\ recovery' =
          IF cmds[n].status # "NONE" /\ ~ IS_MY_BALLOT(n, cmds[n].ballot)
          THEN [recovery EXCEPT ![n] = [peer |-> BALLOT2NODE(cmds[n].ballot),
                                        seq |-> cmds[n].seq, ballot |-> cmds[n].ballot]]
          ELSE recovery
    /\ UNCHANGED <<ballot, log, store, committing, msgs, commits>>

(* kepaxos_send skips a peer it cannot reach; a connection can break. *)
Lose(m) ==
    /\ "lose" \in Faults
    /\ m \in msgs
    /\ msgs' = msgs \ {m}
    /\ UNCHANGED <<ballot, cmds, log, store, committing, recovery, run, commits>>

(* Replica n dies and kepaxos_context_create runs again over its log.  The
   file with the highest ballot is buffered and may have missed the disk. *)
Restart(n) ==
    /\ "crash" \in Faults
    /\ \E max \in {0, log[n].max} :
          /\ log' = [log EXCEPT ![n].max = max]
          /\ ballot' = [ballot EXCEPT ![n] =
                           update_ballot(n, InitialBallot(n), BALLOT_VALUE(max) + 1)]
    /\ cmds' = [cmds EXCEPT ![n] = NoCmd]
    /\ committing' = [committing EXCEPT ![n] = Idle]
    /\ recovery' = [recovery EXCEPT ![n] = NoItem]
    /\ run' = [v \in Values |->
                  IF run[v].node = n /\ run[v].pc \notin {"idle", "returned"}
                  THEN [run[v] EXCEPT !.pc = "dead"]
                  ELSE run[v]]
    /\ msgs' = {[m EXCEPT !.closed = @ \/ m.from = n] : m \in {x \in msgs : x.to # n}}
    /\ UNCHANGED <<store, commits>>

-----------------------------------------------------------------------------
Handle(n, m) ==
    \/ HandlePreAccept(n, m) \/ IgnorePreAccept(n, m)
    \/ HandleAccept(n, m) \/ IgnoreAccept(n, m)
    \/ HandleCommit(n, m) \/ IgnoreCommit(n, m)
    \/ HandlePreAcceptResponse(n, m) \/ HandleAcceptResponse(n, m)
    \/ IgnoreResponse(n, m)

Caller(v) == CheckCommand(v) \/ WaitCommand(v) \/ ReturnCommand(v)

Committer(n) == CommitApply(n) \/ CommitRecord(n)

Next ==
    \/ \E n \in Leaders, v \in Values : RunCommand(n, v)
    \/ \E v \in Values : Caller(v)
    \/ \E n \in Nodes : Committer(n) \/ Expire(n) \/ Restart(n)
    \/ \E m \in msgs : Handle(m.to, m) \/ UpdateBallotEarly(m.to, m) \/ Lose(m)

Spec == Init /\ [][Next]_vars

-----------------------------------------------------------------------------
Ballot == {b \in Nat : BALLOT2NODE(b) \in Nodes}

Cmd == [val : Values \cup {NoVal}, seq : Nat, ballot : Ballot,
        status : {"absent", "NONE", "PRE_ACCEPTED", "ACCEPTED"},
        votes : Seq([seq : Nat, ballot : Ballot, peer : Nodes]),
        max_seq : Nat, max_seq_committed : BOOLEAN]

MsgType == {"PRE_ACCEPT", "PRE_ACCEPT_RESPONSE", "ACCEPT", "ACCEPT_RESPONSE", "COMMIT"}

Msg == [type : MsgType, from : Nodes, to : Nodes, ballot : Ballot, seq : Nat,
        committed : BOOLEAN, val : Values \cup {NoVal}, closed : BOOLEAN]

LogItem == [seq : Nat, ballot : Ballot, max : Ballot]
RecoveryItem == [peer : Nodes, seq : Nat, ballot : Ballot]
Committing == {c \in [cmd : Cmd, pc : {"none", "apply", "record"}] :
                  c.pc = "record" => c.cmd.val # NoVal}
Call == [node : Nodes, seq : Nat, ok : BOOLEAN,
         pc : {"idle", "sending", "checked", "waiting", "woken", "returned", "dead"}]
Commit == [leader : Nodes, ballot : Ballot, seq : Nat, val : Values]

(* The variables hold what the C structures can hold, and every ballot names
   a replica, so that BALLOT2NODE never indexes past ke->peers. *)
TypeOK ==
    /\ ballot \in [Nodes -> Ballot]
    /\ cmds \in [Nodes -> Cmd]
    /\ log \in [Nodes -> LogItem]
    /\ store \in [Nodes -> Values \cup {NoVal}]
    /\ committing \in [Nodes -> Committing]
    /\ recovery \in [Nodes -> RecoveryItem]
    /\ run \in [Values -> Call]
    /\ msgs \subseteq Msg
    /\ commits \subseteq Commit

-----------------------------------------------------------------------------
(* What the leaders announce *)

(* A ballot names one command: no two commits that leaders record, on whatever
   replicas and however commands replace each other in the table, share a
   ballot.  update_ballot, run before every handler, is what ensures it. *)
OneCommandPerBallot == \A c, d \in commits : c.ballot = d.ballot => c = d

(* The ballot a COMMIT carries is one its sender issued, although PRE_ACCEPT
   and ACCEPT of the peers raise the ballot of the sender's own entry. *)
CommitsUnderOwnBallot == \A c \in commits : IS_MY_BALLOT(c.leader, c.ballot)

(* The inductive invariant behind the two. *)
IsRequest(m) == m.type \in {"PRE_ACCEPT", "ACCEPT"}
IsResponse(m) == m.type \in {"PRE_ACCEPT_RESPONSE", "ACCEPT_RESPONSE"}
Own(n) == Present(n) /\ cmds[n].val # NoVal
OwnCommit(n) == committing[n].pc # "none" /\ committing[n].cmd.val # NoVal

IssuedBallots ==
    \A n \in Nodes : /\ IS_MY_BALLOT(n, ballot[n]) /\ BALLOT_VALUE(ballot[n]) >= 1
                     /\ IF Present(n) THEN BALLOT_VALUE(cmds[n].ballot) >= 1
                                      ELSE cmds[n] = NoCmd

MessageBallots ==
    \A m \in msgs :
        /\ m.from # m.to
        /\ m.type # "COMMIT" => BALLOT_VALUE(m.ballot) >= 1
        /\ IsRequest(m) => IS_MY_BALLOT(m.from, m.ballot) /\ m.ballot <= ballot[m.from]
        /\ IsResponse(m) => m.ballot <= ballot[m.to]

(* A replica's own entry is at the ballot of its latest request, or at a
   peer's higher one; then no answer to the replica can reach it. *)
OwnEntryOutbids ==
    \A n \in Nodes : Own(n) =>
        /\ cmds[n].ballot <= ballot[n]
        /\ \A m \in msgs :
              \/ IsRequest(m) /\ m.from = n
              \/ IsResponse(m) /\ m.to = n
              => \/ m.ballot < cmds[n].ballot
                 \/ m.ballot = cmds[n].ballot /\ IS_MY_BALLOT(n, cmds[n].ballot)

CommitsIncrease ==
    /\ CommitsUnderOwnBallot
    /\ \A c \in commits :
          /\ c.ballot < ballot[c.leader]
          /\ Own(c.leader) => c.ballot < cmds[c.leader].ballot
          /\ OwnCommit(c.leader) => c.ballot < committing[c.leader].cmd.ballot
    /\ \A n \in Nodes : OwnCommit(n) =>
          /\ IS_MY_BALLOT(n, committing[n].cmd.ballot)
          /\ committing[n].cmd.ballot < ballot[n]
          /\ Own(n) => committing[n].cmd.ballot < cmds[n].ballot
    /\ OneCommandPerBallot

(* As long as no replica restarts, every ballot a replica proposes outbids
   what it has seen, and its commits carry ever higher ballots of its own. *)
BallotInv == IssuedBallots /\ MessageBallots /\ OwnEntryOutbids /\ CommitsIncrease

(* The ledger's commits are the ones the leaders have recorded. *)
Ledger == INSTANCE CommitLedger WITH commits <- commits

(* Kepaxos implements the ledger of commits. *)
ImplementsLedger == Ledger!Spec

-----------------------------------------------------------------------------
(* Callers *)

(* Unless the expirer steps in, a caller that waits has its command in the
   table or in kepaxos_commit, so that somebody is left to wake it. *)
CallerNotStranded ==
    \A v \in Values : run[v].pc \in {"checked", "waiting"} =>
        LET n == run[v].node
        IN  \/ Present(n) /\ cmds[n].val = v
            \/ committing[n].pc # "none" /\ committing[n].cmd.val = v /\ run[v].pc = "waiting"

(* Every call of kepaxos_run_command comes back, be it with a failure. *)
EveryCallReturns ==
    \A v \in Values : run[v].pc = "sending" ~> run[v].pc = "returned"

(* The threads of a replica keep running: callers, the thread that commits,
   the expirer, and the ones that handle what arrives. *)
Fairness ==
    /\ \A v \in Values : WF_vars(Caller(v))
    /\ \A n \in Nodes : WF_vars(Committer(n)) /\ WF_vars(Expire(n))
    /\ WF_vars(\E m \in msgs : Handle(m.to, m))

-----------------------------------------------------------------------------
(* Replicas *)

(* A leader commits only with the votes of enough distinct peers to make, with
   its own, a majority. *)
CommitHasQuorum ==
    \A n \in Nodes : OwnCommit(n) =>
        LET votes == committing[n].cmd.votes
        IN  2 * (Cardinality({votes[i].peer : i \in 1 .. Len(votes)}) + 1) > N

Quiet ==
    /\ msgs = {}
    /\ \A n \in Nodes : committing[n].pc = "none"
    /\ \A v \in Values : run[v].pc \in {"idle", "returned", "dead"}

(* Once everything sent has been handled, the logs hold the same seq and
   ballot and the stores the same value: what test/kepaxos_test.c checks after
   each of its commands. *)
Aligned ==
    Quiet => \A n, p \in Nodes : /\ log[n].seq = log[p].seq
                                 /\ log[n].ballot = log[p].ballot
                                 /\ store[n] = store[p]

(* The environment of the test's first part: a command is issued when the
   previous one is over and its messages have been handled. *)
SequentialNext ==
    /\ Next
    /\ (\E v \in Values : run[v].pc = "idle" /\ run'[v].pc # "idle") => Quiet

SequentialSpec == Init /\ [][SequentialNext]_vars
FairSequentialSpec == SequentialSpec /\ Fairness
=============================================================================
