--------------------------- MODULE KepaxosProofs ---------------------------
(* Proofs about Kepaxos, for any number of replicas and any commands. *)
EXTENDS Kepaxos, TLAPS

-----------------------------------------------------------------------------
(* Ballots *)

LEMMA NodesFacts == /\ Nodes \subseteq Nat
                    /\ \A n \in Nodes : n < 256
                    /\ 0 \in Nodes
  BY NAssumption DEF Nodes

LEMMA LargerFacts ==
  ASSUME NEW a \in Nat, NEW b \in Nat
  PROVE  /\ Larger(a, b) \in {a, b}
         /\ Larger(a, b) >= a
         /\ Larger(a, b) >= b
  BY DEF Larger

(* A ballot is made of its value and the index of its replica. *)
LEMMA MkBallotFacts ==
  ASSUME NEW n \in Nodes, NEW v \in Nat
  PROVE  /\ MkBallot(v, n) \in Ballot
         /\ BALLOT_VALUE(MkBallot(v, n)) = v
         /\ IS_MY_BALLOT(n, MkBallot(v, n))
<1>1. n \in 0 .. 255
  BY NodesFacts
<1>2. /\ v * 256 + n \in Nat
      /\ (v * 256 + n) % 256 = n
      /\ (v * 256 + n) \div 256 = v
  BY <1>1, SMT
<1> QED
  BY <1>2, Zenon DEF MkBallot, Ballot, BALLOT_VALUE, BALLOT2NODE, IS_MY_BALLOT

(* update_ballot keeps the replica's index, never lowers the ballot, and ends
   above any proper ballot it is shown. *)
LEMMA UpdateBallotFacts ==
  ASSUME NEW n \in Nodes, NEW cur \in Ballot, NEW b \in Nat
  PROVE  /\ update_ballot(n, cur, b) \in Ballot
         /\ update_ballot(n, cur, b) >= cur
         /\ IS_MY_BALLOT(n, cur) => IS_MY_BALLOT(n, update_ballot(n, cur, b))
         /\ BALLOT_VALUE(b) >= 1 => update_ballot(n, cur, b) > b
<1> DEFINE new == MkBallot(BALLOT_VALUE(b) + 1, n)
<1>1. BALLOT_VALUE(b) \in Nat
  BY SMT DEF BALLOT_VALUE
<1>2. new \in Ballot /\ IS_MY_BALLOT(n, new)
  BY <1>1, MkBallotFacts
<1>3. new > b
  <2>1. n \in 0 .. 255
    BY NodesFacts
  <2>2. (b \div 256 + 1) * 256 + n > b
    BY <2>1, SMT
  <2> QED
    BY <2>2, Zenon DEF MkBallot, BALLOT_VALUE
<1>4. cur \in Nat /\ new \in Nat
  BY <1>2, Zenon DEF Ballot
<1>5. CASE BALLOT_VALUE(b) = 0
  BY <1>4, <1>5 DEF update_ballot
<1>6. CASE BALLOT_VALUE(b) # 0
  <2>1. update_ballot(n, cur, b) = Larger(cur, new)
    BY <1>6, Zenon DEF update_ballot
  <2> HIDE DEF new
  <2> QED
    BY <2>1, <1>2, <1>3, <1>4, LargerFacts
<1> QED
  BY <1>5, <1>6, Zenon

-----------------------------------------------------------------------------
(* Types *)

LEMMA CmdTypes == NoCmd \in Cmd /\ ZeroCmd \in Cmd
<1>1. 0 \in Ballot
  BY NodesFacts, SMT DEF Ballot, BALLOT2NODE
<1>2. << >> \in Seq([seq : Nat, ballot : Ballot, peer : Nodes])
  OBVIOUS
<1>3. 0 \in Nat
  BY Zenon
<1>4. NoCmd \in Cmd
  BY <1>1, <1>2, <1>3, Zenon DEF NoCmd, Cmd
<1> QED
  BY <1>4, Zenon DEF ZeroCmd, Cmd

LEMMA NoItemType == NoItem \in RecoveryItem
  BY NodesFacts, CmdTypes, Zenon DEF NoItem, NoCmd, Cmd, RecoveryItem

LEMMA DestroyedType ==
  ASSUME run \in [Values -> Call], NEW e
  PROVE  Destroyed(run, e) \in [Values -> Call]
<1>1. ASSUME NEW v \in Values PROVE [run[v] EXCEPT !.pc = "woken"] \in Call
  BY Zenon DEF Call
<1> QED
  BY <1>1, Zenon DEF Destroyed

LEMMA ToOthersType ==
  ASSUME NEW type \in MsgType, NEW n \in Nodes, NEW b \in Ballot, NEW s \in Nat,
         NEW c \in BOOLEAN, NEW v \in Values \cup {NoVal}
  PROVE  ToOthers(type, n, b, s, c, v) \subseteq Msg
  <1>1. \A p \in Nodes : Message(type, n, p, b, s, c, v) \in Msg
    BY Zenon DEF Message, Msg
  <1> QED
    BY <1>1, Zenon DEF ToOthers

LEMMA ReplyType ==
  ASSUME NEW type \in MsgType, NEW m \in Msg, NEW b \in Ballot, NEW s \in Nat,
         NEW c \in BOOLEAN
  PROVE  Reply(type, m, b, s, c) \subseteq Msg
  <1>1. Message(type, m.to, m.from, b, s, c, m.val) \in Msg
    BY Zenon DEF Message, Msg
  <1> QED
    BY <1>1, Zenon DEF Reply

LEMMA InitType == Init => TypeOK
<1> SUFFICES ASSUME Init PROVE TypeOK
  BY Zenon
<1>1. ballot \in [Nodes -> Ballot]
  BY MkBallotFacts, Zenon DEF Init, InitialBallot
<1>2. 0 \in Ballot
  BY CmdTypes, Zenon DEF NoCmd, Cmd
<1>3. /\ cmds \in [Nodes -> Cmd]
      /\ committing \in [Nodes -> Committing]
  BY CmdTypes, Zenon DEF Init, Idle, Committing
<1>4. /\ log \in [Nodes -> LogItem]
      /\ recovery \in [Nodes -> RecoveryItem]
      /\ store \in [Nodes -> Values \cup {NoVal}]
  BY <1>2, NodesFacts, Zenon DEF Init, NoItem, LogItem, RecoveryItem
<1>5. run \in [Values -> Call]
  BY NodesFacts, Zenon DEF Init, Call
<1> QED
  BY <1>1, <1>3, <1>4, <1>5, Zenon DEF Init, TypeOK

(* The fields of the state of one replica. *)
LEMMA Fields ==
  ASSUME TypeOK, NEW n \in Nodes
  PROVE  /\ ballot[n] \in Ballot /\ ballot[n] \in Nat
         /\ cmds[n] \in Cmd
         /\ cmds[n].val \in Values \cup {NoVal}
         /\ cmds[n].seq \in Nat
         /\ cmds[n].ballot \in Ballot /\ cmds[n].ballot \in Nat
         /\ cmds[n].max_seq \in Nat
         /\ cmds[n].max_seq_committed \in BOOLEAN
         /\ cmds[n].votes \in Seq([seq : Nat, ballot : Ballot, peer : Nodes])
         /\ log[n].seq \in Nat
         /\ log[n].ballot \in Ballot
         /\ log[n].max \in Ballot
         /\ committing[n].cmd \in Cmd
<1>1. cmds[n] \in Cmd /\ log[n] \in LogItem /\ committing[n] \in Committing
  BY Zenon DEF TypeOK
<1>2. ballot[n] \in Ballot /\ ballot[n] \in Nat
  BY Zenon DEF TypeOK, Ballot
<1>3. cmds[n].ballot \in Ballot
  BY <1>1, Zenon DEF Cmd
<1>4. cmds[n].ballot \in Nat
  BY <1>3, Zenon DEF Ballot
<1> QED
  BY <1>1, <1>2, <1>3, <1>4, Zenon DEF Cmd, LogItem, Committing

LEMMA MsgFields ==
  ASSUME NEW m \in Msg
  PROVE  /\ m.from \in Nodes /\ m.to \in Nodes
         /\ m.ballot \in Ballot /\ m.ballot \in Nat
         /\ m.seq \in Nat
         /\ m.committed \in BOOLEAN /\ m.closed \in BOOLEAN
         /\ m.val \in Values \cup {NoVal}
<1>1. m.ballot \in Ballot
  BY Zenon DEF Msg
<1>2. m.ballot \in Nat
  BY <1>1, Zenon DEF Ballot
<1> QED
  BY <1>1, <1>2, Zenon DEF Msg

LEMMA RunCommandType ==
  ASSUME TypeOK, NEW n \in Nodes, NEW v \in Values, RunCommand(n, v)
  PROVE  TypeOK'
<1> DEFINE seq == IF Present(n) THEN Larger(log[n].seq + 1, cmds[n].seq + 1)
                                ELSE log[n].seq + 1
           new == [ZeroCmd EXCEPT !.val = v, !.seq = seq, !.ballot = ballot[n],
                                  !.status = "PRE_ACCEPTED"]
           call == [node |-> n, pc |-> "sending", seq |-> seq, ok |-> FALSE]
<1>1. seq \in Nat
  BY Fields DEF Larger
<1>2. /\ cmds' = [cmds EXCEPT ![n] = new]
      /\ run' = [Destroyed(run, cmds[n]) EXCEPT ![v] = call]
      /\ msgs' = msgs \cup ToOthers("PRE_ACCEPT", n, ballot[n], seq, FALSE, v)
      /\ recovery' = [recovery EXCEPT ![n] = NoItem]
      /\ UNCHANGED <<ballot, log, store, committing, commits>>
  BY Zenon DEF RunCommand
<1> HIDE DEF seq
<1>3. new \in Cmd
  BY <1>1, CmdTypes, Fields, Zenon DEF Cmd
<1>4. call \in Call
  BY <1>1, Zenon DEF Call
<1>5. ToOthers("PRE_ACCEPT", n, ballot[n], seq, FALSE, v) \subseteq Msg
  BY <1>1, ToOthersType, Fields, Zenon DEF MsgType
<1>6. Destroyed(run, cmds[n]) \in [Values -> Call]
  BY DestroyedType, Zenon DEF TypeOK
<1> HIDE DEF new, call
<1> QED
  BY <1>2, <1>3, <1>4, <1>5, <1>6, NoItemType, Zenon DEF TypeOK

LEMMA CallerType ==
  ASSUME TypeOK, NEW v \in Values, Caller(v)
  PROVE  TypeOK'
<1>1. run[v] \in Call
  BY Zenon DEF TypeOK
<1>4. (log[run[v].node].seq >= run[v].seq) \in BOOLEAN
  OBVIOUS
<1>2. run' \in [Values -> Call]
  <2>1. CASE CheckCommand(v)
    <3> DEFINE n == run[v].node
               c == IF Present(n) /\ cmds[n].val = v
                    THEN [run[v] EXCEPT !.pc = "checked"]
                    ELSE [run[v] EXCEPT !.pc = "returned", !.ok = log[n].seq >= run[v].seq]
    <3>1. run' = [run EXCEPT ![v] = c]
      BY <2>1, Zenon DEF CheckCommand
    <3>2. c \in Call
      BY <1>1, <1>4, Zenon DEF Call
    <3> HIDE DEF c
    <3> QED
      BY <3>1, <3>2, Zenon DEF TypeOK
  <2>2. CASE WaitCommand(v)
    <3>1. [run[v] EXCEPT !.pc = "waiting"] \in Call
      BY <1>1, Zenon DEF Call
    <3> QED
      BY <2>2, <3>1, Zenon DEF WaitCommand, TypeOK
  <2>3. CASE ReturnCommand(v)
    <3> DEFINE c == [run[v] EXCEPT !.pc = "returned",
                                   !.ok = log[run[v].node].seq >= run[v].seq]
    <3>1. run' = [run EXCEPT ![v] = c]
      BY <2>3, Zenon DEF ReturnCommand
    <3>2. c \in Call
      BY <1>1, <1>4, Zenon DEF Call
    <3> HIDE DEF c
    <3> QED
      BY <3>1, <3>2, Zenon DEF TypeOK
  <2> QED
    BY <2>1, <2>2, <2>3, Zenon DEF Caller
<1>3. UNCHANGED <<ballot, cmds, log, store, committing, recovery, msgs, commits>>
  BY Zenon DEF Caller, CheckCommand, WaitCommand, ReturnCommand
<1> QED
  BY <1>2, <1>3, Zenon DEF TypeOK

LEMMA ReceiveType ==
  ASSUME TypeOK, NEW n, NEW m, m \in msgs, m.to = n,
         ballot' = [ballot EXCEPT ![n] = update_ballot(n, ballot[n], m.ballot)]
  PROVE  /\ m \in Msg /\ n \in Nodes
         /\ ballot' \in [Nodes -> Ballot]
         /\ ballot'[n] = update_ballot(n, ballot[n], m.ballot)
<1>1. m \in Msg
  BY Zenon DEF TypeOK
<1>2. n \in Nodes /\ m.ballot \in Nat
  BY <1>1, MsgFields, Zenon
<1>3. ballot[n] \in Ballot /\ ballot \in [Nodes -> Ballot]
  BY <1>2, Zenon DEF TypeOK
<1>4. update_ballot(n, ballot[n], m.ballot) \in Ballot
  BY <1>2, <1>3, UpdateBallotFacts, Zenon
<1> QED
  BY <1>1, <1>2, <1>3, <1>4, Zenon

LEMMA HandlePreAcceptType ==
  ASSUME TypeOK, NEW n, NEW m, HandlePreAccept(n, m)
  PROVE  TypeOK'
<1> DEFINE interfering_seq == Larger(log[n].seq, cmds[n].seq)
           max_seq == Larger(m.seq, interfering_seq)
           cmd == IF Present(n)
                  THEN [cmds[n] EXCEPT !.ballot = m.ballot]
                  ELSE [ZeroCmd EXCEPT !.seq = m.seq, !.ballot = m.ballot]
           adopt == m.seq >= interfering_seq
           item == [peer |-> BALLOT2NODE(cmd.ballot), seq |-> cmd.seq, ballot |-> cmd.ballot]
           new == IF adopt
                  THEN [cmd EXCEPT !.status = "PRE_ACCEPTED", !.seq = interfering_seq]
                  ELSE cmd
           reply == Reply("PRE_ACCEPT_RESPONSE", m, cmd.ballot, max_seq, max_seq = log[n].seq)
<1>1. m \in Msg /\ n \in Nodes /\ ballot' \in [Nodes -> Ballot]
  BY ReceiveType, Zenon DEF HandlePreAccept, Receive
<1>2. interfering_seq \in Nat /\ max_seq \in Nat
  BY <1>1, Fields, MsgFields, Zenon DEF Larger
<1>3. cmd \in Cmd
  BY <1>1, Fields, MsgFields, CmdTypes, Zenon DEF Cmd
<1>4. /\ cmds' = [cmds EXCEPT ![n] = new]
      /\ recovery' \in {recovery, [recovery EXCEPT ![n] = item]}
      /\ msgs' = (msgs \ {m}) \cup reply
      /\ UNCHANGED <<log, store, committing, run, commits>>
  BY Zenon DEF HandlePreAccept
<1> HIDE DEF interfering_seq, max_seq, cmd, adopt
<1>5. new \in Cmd
  BY <1>2, <1>3, Zenon DEF Cmd
<1>6. item \in RecoveryItem
  <2>1. cmd.ballot \in Ballot /\ cmd.seq \in Nat
    BY <1>3, Zenon DEF Cmd
  <2> QED
    BY <2>1, Zenon DEF RecoveryItem, Ballot
<1>7. reply \subseteq Msg
  <2>1. cmd.ballot \in Ballot /\ (max_seq = log[n].seq) \in BOOLEAN
    BY <1>3, Zenon DEF Cmd
  <2> QED
    BY <2>1, <1>1, <1>2, ReplyType, Zenon DEF MsgType
<1> HIDE DEF new, item, reply
<1> QED
  BY <1>1, <1>4, <1>5, <1>6, <1>7, Zenon DEF TypeOK

LEMMA HandleAcceptType ==
  ASSUME TypeOK, NEW n, NEW m, HandleAccept(n, m)
  PROVE  TypeOK'
<1> DEFINE cmd == IF Present(n) THEN cmds[n] ELSE ZeroCmd
           accepted == IF m.seq >= cmds[n].seq
                       THEN [cmd EXCEPT !.seq = m.seq, !.ballot = m.ballot, !.status = "ACCEPTED"]
                       ELSE cmd
           reply == Reply("ACCEPT_RESPONSE", m, accepted.ballot, accepted.seq,
                          accepted.seq = log[n].seq)
<1>1. m \in Msg /\ n \in Nodes /\ ballot' \in [Nodes -> Ballot]
  BY ReceiveType, Zenon DEF HandleAccept, Receive
<1>2. cmd \in Cmd
  BY <1>1, Fields, CmdTypes, Zenon
<1>3. accepted \in Cmd
  BY <1>1, <1>2, MsgFields, Zenon DEF Cmd
<1>4. /\ cmds' = [cmds EXCEPT ![n] = accepted]
      /\ msgs' = (msgs \ {m}) \cup reply
      /\ UNCHANGED <<log, store, committing, recovery, run, commits>>
  BY Zenon DEF HandleAccept
<1> HIDE DEF accepted
<1>5. reply \subseteq Msg
  <2>1. accepted.ballot \in Ballot /\ accepted.seq \in Nat
    BY <1>3, Zenon DEF Cmd
  <2> QED
    BY <2>1, <1>1, ReplyType, Zenon DEF MsgType
<1> HIDE DEF reply
<1> QED
  BY <1>1, <1>3, <1>4, <1>5, Zenon DEF TypeOK

LEMMA StartCommitType ==
  ASSUME TypeOK, NEW n \in Nodes, NEW m, NEW cmd \in Cmd,
         ballot' \in [Nodes -> Ballot], StartCommit(n, m, cmd)
  PROVE  TypeOK'
<1>1. [cmd |-> cmd, pc |-> "apply"] \in Committing
  BY Zenon DEF Committing
<1> QED
  BY <1>1, CmdTypes, Zenon DEF StartCommit, TypeOK

LEMMA StartAcceptType ==
  ASSUME TypeOK, NEW n \in Nodes, NEW m, NEW cmd \in Cmd, NEW s \in Nat,
         ballot' \in [Nodes -> Ballot], StartAccept(n, m, cmd, s)
  PROVE  TypeOK'
<1> DEFINE new == [cmd EXCEPT !.votes = << >>, !.max_seq = 0, !.seq = s,
                              !.ballot = ballot'[n], !.status = "ACCEPTED"]
           sent == ToOthers("ACCEPT", n, ballot'[n], s, FALSE, cmd.val)
<1>1. << >> \in Seq([seq : Nat, ballot : Ballot, peer : Nodes]) /\ 0 \in Nat
  OBVIOUS
<1>2. new \in Cmd
  BY <1>1, Zenon DEF Cmd
<1>3. cmd.val \in Values \cup {NoVal}
  BY Zenon DEF Cmd
<1>4. sent \subseteq Msg
  BY <1>3, ToOthersType, Zenon DEF MsgType
<1>5. /\ cmds' = [cmds EXCEPT ![n] = new]
      /\ msgs' = (msgs \ {m}) \cup sent
      /\ UNCHANGED <<log, store, committing, recovery, run, commits>>
  BY Zenon DEF StartAccept
<1> HIDE DEF new, sent
<1> QED
  BY <1>2, <1>4, <1>5, Zenon DEF TypeOK

LEMMA AppendType ==
  ASSUME NEW S, NEW s \in Seq(S), NEW e \in S
  PROVE  Append(s, e) \in Seq(S)
  OBVIOUS

(* The vote of a response goes into the entry it is an answer for. *)
LEMMA VotedType ==
  ASSUME TypeOK, NEW n \in Nodes, NEW m \in Msg
  PROVE  PreAcceptVoted(n, m) \in Cmd /\ AcceptVoted(n, m) \in Cmd
<1> DEFINE max_seq == Larger(cmds[n].max_seq, m.seq)
           votes == Append(cmds[n].votes, Vote(m))
           committed == IF m.seq # cmds[n].max_seq
                        THEN m.committed /\ max_seq = m.seq
                        ELSE cmds[n].max_seq_committed \/ m.committed
<1>1. max_seq \in Nat
  BY Fields, MsgFields, Zenon DEF Larger
<1>2. Vote(m) \in [seq : Nat, ballot : Ballot, peer : Nodes]
  BY MsgFields, Zenon DEF Vote
<1>3. votes \in Seq([seq : Nat, ballot : Ballot, peer : Nodes])
  BY <1>2, AppendType, Fields, Zenon
<1>4. committed \in BOOLEAN
  BY Zenon
<1> HIDE DEF committed
<1>5. /\ PreAcceptVoted(n, m) = [cmds[n] EXCEPT !.votes = votes, !.max_seq = max_seq,
                                                !.max_seq_committed = committed]
      /\ AcceptVoted(n, m) = [cmds[n] EXCEPT !.votes = votes, !.max_seq = max_seq]
  BY Zenon DEF PreAcceptVoted, AcceptVoted, committed
<1> HIDE DEF max_seq, votes
<1> QED
  BY <1>1, <1>3, <1>4, <1>5, Fields, Zenon DEF Cmd

LEMMA HandlePreAcceptResponseType ==
  ASSUME TypeOK, NEW n, NEW m, HandlePreAcceptResponse(n, m)
  PROVE  TypeOK'
<1> DEFINE cmd == PreAcceptVoted(n, m)
<1>1. m \in Msg /\ n \in Nodes /\ ballot' \in [Nodes -> Ballot]
  BY ReceiveType, Zenon DEF HandlePreAcceptResponse, ReceiveResponse, Receive
<1>2. cmd \in Cmd
  BY <1>1, VotedType, Zenon
<1>3. cmd.max_seq + 1 \in Nat
  <2>1. cmd.max_seq \in Nat
    BY <1>2, Zenon DEF Cmd
  <2> QED
    BY <2>1
<1>4. \/ /\ cmds' = [cmds EXCEPT ![n] = cmd]
         /\ msgs' = msgs \ {m}
         /\ UNCHANGED <<log, store, committing, recovery, run, commits>>
      \/ StartCommit(n, m, cmd)
      \/ StartAccept(n, m, cmd, cmd.max_seq + 1)
  BY Zenon DEF HandlePreAcceptResponse
<1> HIDE DEF cmd
<1>5. CASE /\ cmds' = [cmds EXCEPT ![n] = cmd]
           /\ msgs' = msgs \ {m}
           /\ UNCHANGED <<log, store, committing, recovery, run, commits>>
  BY <1>1, <1>2, <1>5, Zenon DEF TypeOK
<1> QED
  BY <1>1, <1>2, <1>3, <1>4, <1>5, StartCommitType, StartAcceptType, Zenon

LEMMA HandleAcceptResponseType ==
  ASSUME TypeOK, NEW n, NEW m, HandleAcceptResponse(n, m)
  PROVE  TypeOK'
<1> DEFINE cmd == AcceptVoted(n, m)
<1>1. m \in Msg /\ n \in Nodes /\ ballot' \in [Nodes -> Ballot]
  BY ReceiveType, Zenon DEF HandleAcceptResponse, ReceiveResponse, Receive
<1>2. cmd \in Cmd
  BY <1>1, VotedType, Zenon
<1>3. cmd.seq \in Nat /\ cmd.seq + 1 \in Nat
  <2>1. cmd.seq \in Nat
    BY <1>2, Zenon DEF Cmd
  <2> QED
    BY <2>1
<1>4. \/ /\ cmds' = [cmds EXCEPT ![n] = cmd]
         /\ msgs' = msgs \ {m}
         /\ UNCHANGED <<log, store, committing, recovery, run, commits>>
      \/ StartCommit(n, m, cmd)
      \/ StartAccept(n, m, cmd, cmd.seq)
      \/ StartAccept(n, m, cmd, cmd.seq + 1)
  BY Zenon DEF HandleAcceptResponse
<1> HIDE DEF cmd
<1>5. CASE /\ cmds' = [cmds EXCEPT ![n] = cmd]
           /\ msgs' = msgs \ {m}
           /\ UNCHANGED <<log, store, committing, recovery, run, commits>>
  BY <1>1, <1>2, <1>5, Zenon DEF TypeOK
<1> QED
  BY <1>1, <1>2, <1>3, <1>4, <1>5, StartCommitType, StartAcceptType, Zenon

LEMMA CommitterType ==
  ASSUME TypeOK, NEW n \in Nodes, Committer(n)
  PROVE  TypeOK'
<1> DEFINE cmd == committing[n].cmd
<1>1. cmd \in Cmd /\ cmd.val \in Values \cup {NoVal} /\ cmd.seq \in Nat /\ cmd.ballot \in Ballot
  BY Fields, Zenon DEF Cmd
<1>2. committing[n] \in Committing /\ log[n] \in LogItem
  BY Zenon DEF TypeOK
<1>3. Destroyed(run, cmd) \in [Values -> Call]
  BY DestroyedType, Zenon DEF TypeOK
<1>4. Idle \in Committing
  BY CmdTypes, Zenon DEF Idle, Committing
<1>5. CASE CommitApply(n)
  <2>1. ASSUME cmd.val # NoVal PROVE [committing[n] EXCEPT !.pc = "record"] \in Committing
    BY <1>2, <2>1, Zenon DEF Committing
  <2> QED
    BY <1>1, <1>3, <1>4, <1>5, <2>1, NoItemType, Zenon DEF CommitApply, TypeOK
<1>6. CASE CommitRecord(n)
  <2> DEFINE item == [seq |-> cmd.seq, ballot |-> cmd.ballot, max |-> Larger(cmd.ballot, log[n].max)]
             sent == ToOthers("COMMIT", n, cmd.ballot, cmd.seq, TRUE, cmd.val)
             new == [leader |-> n, ballot |-> cmd.ballot, seq |-> cmd.seq, val |-> cmd.val]
  <2>1. item \in LogItem
    BY <1>1, Fields, Zenon DEF LogItem, Larger
  <2>2. sent \subseteq Msg
    BY <1>1, ToOthersType, Zenon DEF MsgType
  <2>3. new \in Commit
    BY <1>1, <1>2, <1>6, Zenon DEF CommitRecord, Committing, Commit
  <2>4. /\ log' = [log EXCEPT ![n] = item]
        /\ msgs' = msgs \cup sent
        /\ committing' = [committing EXCEPT ![n] = Idle]
        /\ run' = Destroyed(run, cmd)
        /\ commits' = commits \cup {new}
        /\ UNCHANGED <<ballot, cmds, store, recovery>>
    BY <1>6, Zenon DEF CommitRecord, Logged
  <2> HIDE DEF item, sent, new
  <2> QED
    BY <1>3, <1>4, <2>1, <2>2, <2>3, <2>4, Zenon DEF TypeOK
<1> QED
  BY <1>5, <1>6, Zenon DEF Committer

LEMMA HandleCommitType ==
  ASSUME TypeOK, NEW n, NEW m, HandleCommit(n, m)
  PROVE  TypeOK'
<1> DEFINE item == [seq |-> m.seq, ballot |-> m.ballot, max |-> Larger(m.ballot, log[n].max)]
<1>1. m \in Msg /\ n \in Nodes /\ ballot' \in [Nodes -> Ballot]
  BY ReceiveType, Zenon DEF HandleCommit, Receive
<1>2. item \in LogItem
  BY <1>1, Fields, MsgFields, Zenon DEF LogItem, Larger
<1>3. m.val \in Values \cup {NoVal}
  BY <1>1, MsgFields, Zenon
<1>4. Destroyed(run, cmds[n]) \in [Values -> Call]
  BY DestroyedType, Zenon DEF TypeOK
<1>5. /\ log' = [log EXCEPT ![n] = item]
      /\ store' \in {store, [store EXCEPT ![n] = m.val]}
      /\ recovery' = [recovery EXCEPT ![n] = NoItem]
      /\ cmds' \in {cmds, [cmds EXCEPT ![n] = NoCmd]}
      /\ run' \in {run, Destroyed(run, cmds[n])}
      /\ msgs' = msgs \ {m}
      /\ UNCHANGED <<committing, commits>>
  BY Zenon DEF HandleCommit, Logged
<1> HIDE DEF item
<1> QED
  BY <1>1, <1>2, <1>3, <1>4, <1>5, CmdTypes, NoItemType, Zenon DEF TypeOK

LEMMA ExpireType ==
  ASSUME TypeOK, NEW n \in Nodes, Expire(n)
  PROVE  TypeOK'
<1> DEFINE item == [peer |-> BALLOT2NODE(cmds[n].ballot), seq |-> cmds[n].seq,
                    ballot |-> cmds[n].ballot]
<1>1. item \in RecoveryItem
  BY Fields, Zenon DEF RecoveryItem, Ballot
<1>2. Destroyed(run, cmds[n]) \in [Values -> Call]
  BY DestroyedType, Zenon DEF TypeOK
<1>3. /\ cmds' = [cmds EXCEPT ![n] = NoCmd]
      /\ run' = Destroyed(run, cmds[n])
      /\ recovery' \in {recovery, [recovery EXCEPT ![n] = item]}
      /\ UNCHANGED <<ballot, log, store, committing, msgs, commits>>
  BY Zenon DEF Expire
<1> HIDE DEF item
<1> QED
  BY <1>1, <1>2, <1>3, CmdTypes, Zenon DEF TypeOK

LEMMA RestartType ==
  ASSUME TypeOK, NEW n \in Nodes, Restart(n)
  PROVE  TypeOK'
<1>1. PICK max \in {0, log[n].max} :
         /\ log' = [log EXCEPT ![n].max = max]
         /\ ballot' = [ballot EXCEPT ![n] =
                          update_ballot(n, InitialBallot(n), BALLOT_VALUE(max) + 1)]
  BY Zenon DEF Restart
<1>2. max \in Ballot
  BY Fields, CmdTypes, ZenonT(60) DEF NoCmd, Cmd
<1>3. log' \in [Nodes -> LogItem]
  <2>1. [log[n] EXCEPT !.max = max] \in LogItem
    BY <1>2, Zenon DEF TypeOK, LogItem
  <2> QED
    BY <1>1, <2>1, Zenon DEF TypeOK
<1>4. ballot' \in [Nodes -> Ballot]
  <2>1. BALLOT_VALUE(max) + 1 \in Nat
    BY <1>2, SMT DEF Ballot, BALLOT_VALUE
  <2>2. update_ballot(n, InitialBallot(n), BALLOT_VALUE(max) + 1) \in Ballot
    BY <2>1, MkBallotFacts, UpdateBallotFacts, Zenon DEF InitialBallot
  <2> QED
    BY <1>1, <2>2, Zenon DEF TypeOK
<1>5. run' \in [Values -> Call]
  <2>1. ASSUME NEW v \in Values PROVE [run[v] EXCEPT !.pc = "dead"] \in Call
    BY Zenon DEF TypeOK, Call
  <2> QED
    BY <2>1, Zenon DEF Restart, TypeOK
<1>6. msgs' \subseteq Msg
  <2>1. ASSUME NEW m \in msgs PROVE [m EXCEPT !.closed = m.closed \/ m.from = n] \in Msg
    BY Zenon DEF TypeOK, Msg
  <2> QED
    BY <2>1, ZenonT(60) DEF Restart
<1>7. Idle \in Committing
  BY CmdTypes, Zenon DEF Idle, Committing
<1> QED
  BY <1>3, <1>4, <1>5, <1>6, <1>7, CmdTypes, NoItemType, Zenon DEF Restart, TypeOK

LEMMA OtherMessageType ==
  ASSUME TypeOK, NEW n, NEW m,
         \/ IgnorePreAccept(n, m) \/ IgnoreAccept(n, m) \/ IgnoreCommit(n, m)
         \/ IgnoreResponse(n, m) \/ UpdateBallotEarly(n, m) \/ Lose(m)
  PROVE  TypeOK'
<1>1. ballot' \in [Nodes -> Ballot]
  <2>1. CASE Lose(m)
    BY <2>1, Zenon DEF Lose, TypeOK
  <2>2. CASE ~ Lose(m)
    BY <2>2, ReceiveType, Zenon DEF IgnorePreAccept, IgnoreAccept, IgnoreCommit, IgnoreResponse,
                             UpdateBallotEarly, ReceiveResponse, Receive
  <2> QED
    BY <2>1, <2>2, Zenon
<1>2. /\ msgs' \subseteq msgs
      /\ UNCHANGED <<cmds, log, store, committing, recovery, run, commits>>
  BY Zenon DEF IgnorePreAccept, IgnoreAccept, IgnoreCommit, IgnoreResponse, Ignored,
               UpdateBallotEarly, Lose
<1> QED
  BY <1>1, <1>2, Zenon DEF TypeOK

LEMMA NextType == TypeOK /\ [Next]_vars => TypeOK'
<1> SUFFICES ASSUME TypeOK, [Next]_vars PROVE TypeOK'
  BY Zenon
<1>1. ASSUME NEW n \in Leaders, NEW v \in Values, RunCommand(n, v) PROVE TypeOK'
  BY <1>1, RunCommandType, LeadersAssumption, Zenon DEF Nodes
<1>2. ASSUME NEW m \in msgs, Handle(m.to, m) PROVE TypeOK'
  BY <1>2, HandlePreAcceptType, HandleAcceptType, HandleCommitType, OtherMessageType,
     HandlePreAcceptResponseType, HandleAcceptResponseType, Zenon DEF Handle
<1>3. CASE UNCHANGED vars
  BY <1>3, Zenon DEF vars, TypeOK
<1> QED
  BY <1>1, <1>2, <1>3, CallerType, CommitterType, ExpireType, RestartType, OtherMessageType,
     Zenon DEF Next

(* Whatever the replicas do, crashes, losses and expirations included, the
   variables keep their types; in particular every ballot that is stored or
   sent names a replica, so ke->peers[BALLOT2NODE(b)] is always a peer. *)
THEOREM TypeCorrect == Spec => []TypeOK
<1>1. Init => TypeOK
  BY InitType, Zenon
<1>2. TypeOK /\ [Next]_vars => TypeOK'
  BY NextType, Zenon
<1> QED
  BY <1>1, <1>2, PTL DEF Spec

-----------------------------------------------------------------------------
(* Ballots *)

(* A request whose sender is still in the life it was sent in. *)
Live(m) == IsRequest(m) /\ ~ m.closed

LiveMessages ==
  \A m \in msgs :
     /\ m.from # m.to
     /\ m.type # "COMMIT" => BALLOT_VALUE(m.ballot) >= 1
     /\ IsRequest(m) => IS_MY_BALLOT(m.from, m.ballot)
     /\ Live(m) => m.ballot <= ballot[m.from]
     /\ IsResponse(m) => m.ballot <= ballot[m.to]

LiveOutbids ==
  \A n \in Nodes : Own(n) =>
     /\ cmds[n].ballot <= ballot[n]
     /\ \A m \in msgs :
           \/ Live(m) /\ m.from = n
           \/ IsResponse(m) /\ m.to = n
           => \/ m.ballot < cmds[n].ballot
              \/ m.ballot = cmds[n].ballot /\ IS_MY_BALLOT(n, cmds[n].ballot)

OwnCommits ==
  /\ CommitsUnderOwnBallot
  /\ \A n \in Nodes : OwnCommit(n) => IS_MY_BALLOT(n, committing[n].cmd.ballot)

(* What LifeInv says of one life of a replica, which restarts do not disturb:
   what is left of earlier lives gets no answer. *)
LifeInv == IssuedBallots /\ LiveMessages /\ LiveOutbids /\ OwnCommits

(* A step that keeps LifeInv and, unless it is a restart, CommitsIncrease. *)
Kept == LifeInv' /\ (CommitsIncrease => CommitsIncrease')

Numeric ==
  /\ \A n \in Nodes : /\ ballot[n] \in Nat /\ cmds[n].ballot \in Nat
                      /\ committing[n].cmd.ballot \in Nat
  /\ \A m \in msgs : m.from \in Nodes /\ m.to \in Nodes /\ m.ballot \in Nat
  /\ \A c \in commits : c.leader \in Nodes /\ c.ballot \in Nat

LEMMA NumericFacts == TypeOK => Numeric
<1> SUFFICES ASSUME TypeOK PROVE Numeric
  BY Zenon
<1>1. ASSUME NEW n \in Nodes
      PROVE  /\ ballot[n] \in Nat /\ cmds[n].ballot \in Nat
             /\ committing[n].cmd.ballot \in Nat
  <2>1. committing[n].cmd.ballot \in Ballot
    BY Fields, Zenon DEF Cmd
  <2> QED
    BY <2>1, Fields, Zenon DEF Ballot
<1>2. ASSUME NEW m \in msgs PROVE m.from \in Nodes /\ m.to \in Nodes /\ m.ballot \in Nat
  BY MsgFields, Zenon DEF TypeOK
<1>3. ASSUME NEW c \in commits PROVE c.leader \in Nodes /\ c.ballot \in Nat
  <2>1. c.leader \in Nodes /\ c.ballot \in Ballot
    BY Zenon DEF TypeOK, Commit
  <2> QED
    BY <2>1, Zenon DEF Ballot
<1> QED
  BY <1>1, <1>2, <1>3, Zenon DEF Numeric

LEMMA OneOwner ==
  ASSUME NEW n, NEW p, NEW b, IS_MY_BALLOT(n, b), IS_MY_BALLOT(p, b)
  PROVE  n = p
  BY Zenon DEF IS_MY_BALLOT

(* The ballots of the replicas only grow, and stay theirs. *)
Grows == \A p \in Nodes : /\ ballot[p] <= ballot'[p]
                          /\ IS_MY_BALLOT(p, ballot'[p])
                          /\ BALLOT_VALUE(ballot'[p]) >= 1

LEMMA Monotone ==
  ASSUME NEW a \in Nat, NEW b \in Nat, a <= b, BALLOT_VALUE(a) >= 1
  PROVE  BALLOT_VALUE(b) >= 1
  BY SMT DEF BALLOT_VALUE

LEMMA SameBallots ==
  ASSUME TypeOK, IssuedBallots, UNCHANGED ballot
  PROVE  Grows
  BY NumericFacts DEF Numeric, Grows, IssuedBallots

LEMMA ReceivedBallots ==
  ASSUME TypeOK, TypeOK', IssuedBallots, NEW n, NEW m, m \in msgs, m.to = n,
         m.type # "COMMIT" => BALLOT_VALUE(m.ballot) >= 1,
         ballot' = [ballot EXCEPT ![n] = update_ballot(n, ballot[n], m.ballot)]
  PROVE  /\ Grows
         /\ m.type # "COMMIT" => m.ballot < ballot'[n]
<1>1. m.ballot \in Nat /\ n \in Nodes
  BY NumericFacts, Zenon DEF Numeric
<1>2. ballot'[n] = update_ballot(n, ballot[n], m.ballot)
  BY ReceiveType, Zenon
<1>3. ballot[n] \in Ballot
  BY <1>1, Zenon DEF TypeOK
<1>4. /\ ballot'[n] >= ballot[n]
      /\ IS_MY_BALLOT(n, ballot'[n])
      /\ m.type # "COMMIT" => ballot'[n] > m.ballot
  BY <1>1, <1>2, <1>3, UpdateBallotFacts, Zenon DEF IssuedBallots
<1>5. \A p \in Nodes : ballot[p] \in Nat /\ ballot'[p] \in Nat
  BY Zenon DEF TypeOK, Ballot
<1>6. \A p \in Nodes : p # n => ballot'[p] = ballot[p]
  BY Zenon DEF TypeOK
<1>7. ASSUME NEW p \in Nodes
      PROVE  ballot[p] <= ballot'[p] /\ IS_MY_BALLOT(p, ballot'[p])
  BY <1>4, <1>5, <1>6 DEF IssuedBallots
<1>8. ASSUME NEW p \in Nodes PROVE BALLOT_VALUE(ballot'[p]) >= 1
  BY <1>5, <1>7, Monotone, Zenon DEF IssuedBallots
<1> QED
  BY <1>1, <1>4, <1>5, <1>7, <1>8, Zenon DEF Grows

(* Steps that send and propose nothing. *)
LEMMA PassiveStep ==
  ASSUME TypeOK, TypeOK', LifeInv, Grows,
         msgs' \subseteq msgs, commits' = commits,
         \A n \in Nodes : \/ cmds'[n] \in {cmds[n], NoCmd}
                          \/ /\ Present(n) /\ Present(n)'
                             /\ cmds'[n].val = cmds[n].val /\ cmds'[n].ballot = cmds[n].ballot,
         \A n \in Nodes : \/ committing'[n].pc = "none"
                          \/ /\ committing[n].pc # "none"
                             /\ committing'[n].cmd = committing[n].cmd
  PROVE  Kept
<1>1. Numeric /\ Numeric'
  BY NumericFacts, PTL
<1>2. NoCmd.status = "absent"
  BY Zenon DEF NoCmd
<1>3. \A n \in Nodes : Own(n)' => Own(n) /\ cmds'[n].ballot = cmds[n].ballot
  BY <1>2, Zenon DEF Own, Present
<1>4. \A n \in Nodes : OwnCommit(n)' => OwnCommit(n) /\ committing'[n].cmd = committing[n].cmd
  BY Zenon DEF OwnCommit
<1>5. IssuedBallots'
  BY <1>2, Zenon DEF LifeInv, IssuedBallots, Grows, Present
<1>6. LiveMessages'
  BY <1>1 DEF LifeInv, LiveMessages, Grows, Numeric, Live, IsRequest, IsResponse
<1>7. LiveOutbids'
  BY <1>1, <1>3 DEF LifeInv, LiveOutbids, Grows, Numeric, Live, IsRequest, IsResponse
<1>8. ASSUME CommitsIncrease PROVE CommitsIncrease'
  <2>1. CommitsUnderOwnBallot' /\ OneCommandPerBallot'
    BY <1>8, Zenon DEF CommitsIncrease, CommitsUnderOwnBallot, OneCommandPerBallot
  <2>2. ASSUME NEW c \in commits
        PROVE  /\ c.ballot < ballot'[c.leader]
               /\ Own(c.leader)' => c.ballot < cmds'[c.leader].ballot
               /\ OwnCommit(c.leader)' => c.ballot < committing'[c.leader].cmd.ballot
    BY <1>8, <1>1, <1>3, <1>4 DEF CommitsIncrease, Grows, Numeric
  <2>3. ASSUME NEW n \in Nodes, OwnCommit(n)'
        PROVE  /\ IS_MY_BALLOT(n, committing'[n].cmd.ballot)
               /\ committing'[n].cmd.ballot < ballot'[n]
               /\ Own(n)' => committing'[n].cmd.ballot < cmds'[n].ballot
    BY <1>8, <1>1, <1>3, <1>4, <2>3 DEF CommitsIncrease, Grows, Numeric
  <2> QED
    BY <1>8, <2>1, <2>2, <2>3, Zenon DEF CommitsIncrease
<1>9. OwnCommits'
  BY <1>4, Zenon DEF LifeInv, OwnCommits, CommitsUnderOwnBallot
<1> QED
  BY <1>9, <1>5, <1>6, <1>7, <1>8, Zenon DEF LifeInv, Kept

(* A replica proposes its entry under its current ballot. *)
LEMMA ProposeStep ==
  ASSUME TypeOK, TypeOK', LifeInv, Grows, NEW n \in Nodes, NEW S,
         msgs' \subseteq msgs \cup S, commits' = commits, committing' = committing,
         \A m \in S : IsRequest(m) /\ m.from = n /\ m.to # n /\ m.ballot = ballot'[n],
         \A p \in Nodes \ {n} : cmds'[p] = cmds[p],
         cmds'[n].status # "absent", cmds'[n].ballot = ballot'[n]
  PROVE  Kept
<1>1. Numeric /\ Numeric'
  BY NumericFacts, PTL
<1>2. \A p \in Nodes \ {n} : Present(p)' = Present(p) /\ Own(p)' = Own(p)
  BY Zenon DEF Own, Present
<1>3. \A p \in Nodes : OwnCommit(p)' = OwnCommit(p)
  BY Zenon DEF OwnCommit
<1>4. IssuedBallots'
  BY <1>2, Zenon DEF LifeInv, IssuedBallots, Grows, Present
<1>5. LiveMessages'
  BY <1>1 DEF LifeInv, LiveMessages, Grows, Numeric, Live, IsRequest, IsResponse
<1>6. LiveOutbids'
  <2>1. ASSUME NEW m \in msgs', \/ Live(m) /\ m.from = n
                                \/ IsResponse(m) /\ m.to = n
        PROVE  m.ballot <= ballot'[n]
    BY <1>1, <2>1 DEF LifeInv, LiveMessages, Grows, Numeric, Live, IsRequest, IsResponse
  <2>2. ASSUME NEW p \in Nodes \ {n}, Own(p)'
        PROVE  /\ cmds'[p].ballot <= ballot'[p]
               /\ \A m \in msgs' :
                     \/ Live(m) /\ m.from = p
                     \/ IsResponse(m) /\ m.to = p
                     => \/ m.ballot < cmds'[p].ballot
                        \/ m.ballot = cmds'[p].ballot /\ IS_MY_BALLOT(p, cmds'[p].ballot)
    BY <1>1, <1>2, <2>2 DEF LifeInv, LiveOutbids, Grows, Numeric, Live, IsRequest, IsResponse
  <2>3. /\ cmds'[n].ballot <= ballot'[n]
        /\ \A m \in msgs' :
              \/ Live(m) /\ m.from = n
              \/ IsResponse(m) /\ m.to = n
              => \/ m.ballot < cmds'[n].ballot
                 \/ m.ballot = cmds'[n].ballot /\ IS_MY_BALLOT(n, cmds'[n].ballot)
    <3> DEFINE own == ballot'[n]
    <3>1. own \in Nat /\ IS_MY_BALLOT(n, own) /\ cmds'[n].ballot = own
      BY <1>1, Zenon DEF Grows, Numeric
    <3>2. \A m \in msgs' : m.ballot \in Nat
      BY <1>1, Zenon DEF Numeric
    <3>3. \A m \in msgs' : \/ Live(m) /\ m.from = n
                           \/ IsResponse(m) /\ m.to = n
                           => m.ballot <= own
      BY <2>1, Zenon
    <3> HIDE DEF own
    <3> QED
      BY <3>1, <3>2, <3>3
  <2> QED
    BY <2>2, <2>3, Zenon DEF LiveOutbids
<1>7. ASSUME CommitsIncrease PROVE CommitsIncrease'
  <2>1. CommitsUnderOwnBallot' /\ OneCommandPerBallot'
    BY <1>7, Zenon DEF CommitsIncrease, CommitsUnderOwnBallot, OneCommandPerBallot
  <2>2. ASSUME NEW c \in commits
        PROVE  /\ c.ballot < ballot'[c.leader]
               /\ Own(c.leader)' => c.ballot < cmds'[c.leader].ballot
               /\ OwnCommit(c.leader)' => c.ballot < committing'[c.leader].cmd.ballot
    BY <1>7, <1>1, <1>2, <1>3 DEF CommitsIncrease, Grows, Numeric
  <2>3. ASSUME NEW p \in Nodes, OwnCommit(p)'
        PROVE  /\ IS_MY_BALLOT(p, committing'[p].cmd.ballot)
               /\ committing'[p].cmd.ballot < ballot'[p]
               /\ Own(p)' => committing'[p].cmd.ballot < cmds'[p].ballot
    BY <1>7, <1>1, <1>2, <1>3, <2>3 DEF CommitsIncrease, Grows, Numeric
  <2> QED
    BY <1>7, <2>1, <2>2, <2>3, Zenon DEF CommitsIncrease
<1>8. OwnCommits'
  BY <1>3, Zenon DEF LifeInv, OwnCommits, CommitsUnderOwnBallot
<1> QED
  BY <1>8, <1>4, <1>5, <1>6, <1>7, Zenon DEF LifeInv, Kept

(* A replica takes a peer's request m over, or keeps its entry, and answers
   with the ballot of the entry. *)
LEMMA AdoptStep ==
  ASSUME TypeOK, TypeOK', LifeInv, Grows, NEW n \in Nodes, NEW m \in msgs, NEW S,
         m.to = n, IsRequest(m), m.ballot < ballot'[n], m.ballot >= cmds[n].ballot,
         msgs' \subseteq msgs \cup S, commits' = commits, committing' = committing,
         \A r \in S : /\ ~ m.closed /\ IsResponse(r) /\ r.from = n /\ r.to = m.from
                      /\ r.ballot = cmds'[n].ballot,
         \A p \in Nodes \ {n} : cmds'[p] = cmds[p],
         cmds'[n].status # "absent",
         \/ cmds'[n].ballot = m.ballot
         \/ Present(n) /\ cmds'[n].ballot = cmds[n].ballot,
         Own(n)' => Own(n)
  PROVE  Kept
<1>1. Numeric /\ Numeric'
  BY NumericFacts, PTL
<1>2. \A p \in Nodes \ {n} : Present(p)' = Present(p) /\ Own(p)' = Own(p)
  BY Zenon DEF Own, Present
<1>3. \A p \in Nodes : OwnCommit(p)' = OwnCommit(p)
  BY Zenon DEF OwnCommit
<1>4. /\ m.from \in Nodes \ {n} /\ (~ m.closed => m.ballot <= ballot[m.from])
      /\ IS_MY_BALLOT(m.from, m.ballot)
      /\ BALLOT_VALUE(m.ballot) >= 1
  BY <1>1, Zenon DEF LifeInv, LiveMessages, Numeric, Live, IsRequest
<1>5. /\ BALLOT_VALUE(cmds'[n].ballot) >= 1
      /\ cmds'[n].ballot <= m.ballot
  BY <1>1, <1>4 DEF LifeInv, IssuedBallots, Numeric
<1>6. ASSUME Own(n)'
      PROVE  /\ cmds[n].ballot <= cmds'[n].ballot
             /\ cmds[n].ballot = cmds'[n].ballot \/ ~ IS_MY_BALLOT(n, cmds'[n].ballot)
  BY <1>1, <1>4, <1>6, OneOwner DEF Numeric
<1>7. IssuedBallots'
  BY <1>2, <1>5 DEF LifeInv, IssuedBallots, Grows, Present
<1>8. LiveMessages'
  BY <1>1, <1>4, <1>5 DEF LifeInv, LiveMessages, Grows, Numeric, Live, IsRequest, IsResponse
<1>9. LiveOutbids'
  <2>1. ASSUME NEW p \in Nodes, Own(p)'
        PROVE  cmds'[p].ballot <= ballot'[p]
    BY <1>1, <1>2, <1>5, <2>1 DEF LifeInv, LiveOutbids, Grows, Numeric
  <2>2. ASSUME NEW p \in Nodes, Own(p)', NEW x \in msgs,
               \/ Live(x) /\ x.from = p
               \/ IsResponse(x) /\ x.to = p
        PROVE  \/ x.ballot < cmds'[p].ballot
               \/ x.ballot = cmds'[p].ballot /\ IS_MY_BALLOT(p, cmds'[p].ballot)
    <3>1. \/ x.ballot < cmds[p].ballot
          \/ x.ballot = cmds[p].ballot /\ IS_MY_BALLOT(p, cmds[p].ballot)
      BY <1>2, <2>2, Zenon DEF LifeInv, LiveOutbids
    <3>2. CASE p # n
      BY <3>1, <3>2, Zenon
    <3>3. CASE p = n
      <4> DEFINE old == cmds[n].ballot
                 new == cmds'[n].ballot
      <4>1. old \in Nat /\ new \in Nat /\ x.ballot \in Nat
        BY <1>1, Zenon DEF Numeric
      <4>2. old <= new /\ (old = new \/ ~ IS_MY_BALLOT(n, new))
        BY <1>6, <2>2, <3>3, Zenon
      <4>3. x.ballot < old \/ (x.ballot = old /\ IS_MY_BALLOT(n, old))
        BY <3>1, <3>3, Zenon
      <4> HIDE DEF old, new
      <4>4. x.ballot < new \/ (x.ballot = new /\ IS_MY_BALLOT(n, new))
        BY <4>1, <4>2, <4>3
      <4> QED
        BY <3>3, <4>4, Zenon DEF new
    <3> QED
      BY <3>2, <3>3, Zenon
  <2>3. ASSUME NEW p \in Nodes, Own(p)', NEW x \in S, x \in msgs',
               \/ Live(x) /\ x.from = p
               \/ IsResponse(x) /\ x.to = p
        PROVE  \/ x.ballot < cmds'[p].ballot
               \/ x.ballot = cmds'[p].ballot /\ IS_MY_BALLOT(p, cmds'[p].ballot)
    <3>1. p = m.from /\ Live(m) /\ x.ballot <= m.ballot /\ x.ballot \in Nat
      BY <1>1, <1>5, <2>3, Zenon DEF Numeric, Live, IsRequest, IsResponse
    <3>2. \/ m.ballot < cmds'[p].ballot
          \/ m.ballot = cmds'[p].ballot /\ IS_MY_BALLOT(p, cmds'[p].ballot)
      BY <2>2, <2>3, <3>1, Zenon
    <3> DEFINE own == cmds'[p].ballot
    <3>3. own \in Nat /\ m.ballot \in Nat
      BY <1>1, Zenon DEF Numeric
    <3>4. m.ballot < own \/ (m.ballot = own /\ IS_MY_BALLOT(p, own))
      BY <3>2, Zenon
    <3> HIDE DEF own
    <3>5. x.ballot < own \/ (x.ballot = own /\ IS_MY_BALLOT(p, own))
      BY <3>1, <3>3, <3>4, SMTT(60)
    <3> QED
      BY <3>5, Zenon DEF own
  <2> QED
    BY <2>1, <2>2, <2>3, Zenon DEF LiveOutbids, Live, IsRequest, IsResponse
<1>10. ASSUME CommitsIncrease PROVE CommitsIncrease'
  <2>1. CommitsUnderOwnBallot' /\ OneCommandPerBallot'
    BY <1>10, Zenon DEF CommitsIncrease, CommitsUnderOwnBallot, OneCommandPerBallot
  <2>2. ASSUME NEW c \in commits
        PROVE  /\ c.ballot < ballot'[c.leader]
               /\ Own(c.leader)' => c.ballot < cmds'[c.leader].ballot
               /\ OwnCommit(c.leader)' => c.ballot < committing'[c.leader].cmd.ballot
    BY <1>10, <1>1, <1>2, <1>3, <1>6 DEF CommitsIncrease, Grows, Numeric
  <2>3. ASSUME NEW p \in Nodes, OwnCommit(p)'
        PROVE  /\ IS_MY_BALLOT(p, committing'[p].cmd.ballot)
               /\ committing'[p].cmd.ballot < ballot'[p]
               /\ Own(p)' => committing'[p].cmd.ballot < cmds'[p].ballot
    BY <1>10, <1>1, <1>2, <1>3, <1>6, <2>3 DEF CommitsIncrease, Grows, Numeric
  <2> QED
    BY <1>10, <2>1, <2>2, <2>3, Zenon DEF CommitsIncrease
<1>11. OwnCommits'
  BY <1>3, Zenon DEF LifeInv, OwnCommits, CommitsUnderOwnBallot
<1> QED
  BY <1>11, <1>7, <1>8, <1>9, <1>10, Zenon DEF LifeInv, Kept

(* A replica takes its entry out of the table to commit it. *)
LEMMA CommitStep ==
  ASSUME TypeOK, TypeOK', LifeInv, Grows, NEW n \in Nodes,
         Present(n), cmds[n].ballot < ballot'[n],
         Own(n) => IS_MY_BALLOT(n, cmds[n].ballot),
         msgs' \subseteq msgs, commits' = commits,
         \A p \in Nodes \ {n} : cmds'[p] = cmds[p] /\ committing'[p] = committing[p],
         cmds'[n] = NoCmd,
         committing'[n].cmd.val = cmds[n].val, committing'[n].cmd.ballot = cmds[n].ballot
  PROVE  Kept
<1>1. Numeric /\ Numeric'
  BY NumericFacts, PTL
<1>2. NoCmd.status = "absent"
  BY Zenon DEF NoCmd
<1>3. \A p \in Nodes : Own(p)' => Own(p) /\ p # n /\ cmds'[p] = cmds[p]
  BY <1>2, Zenon DEF Own, Present
<1>4. \A p \in Nodes \ {n} : OwnCommit(p)' = OwnCommit(p)
  BY Zenon DEF OwnCommit
<1>5. OwnCommit(n)' => Own(n)
  BY Zenon DEF OwnCommit, Own
<1>6. IssuedBallots'
  BY <1>2 DEF LifeInv, IssuedBallots, Grows, Present
<1>7. LiveMessages'
  BY <1>1 DEF LifeInv, LiveMessages, Grows, Numeric, Live, IsRequest, IsResponse
<1>8. LiveOutbids'
  BY <1>1, <1>3 DEF LifeInv, LiveOutbids, Grows, Numeric, Live, IsRequest, IsResponse
<1>9. ASSUME CommitsIncrease PROVE CommitsIncrease'
  <2>1. CommitsUnderOwnBallot' /\ OneCommandPerBallot'
    BY <1>9, Zenon DEF CommitsIncrease, CommitsUnderOwnBallot, OneCommandPerBallot
  <2>2. ASSUME NEW c \in commits
        PROVE  /\ c.ballot < ballot'[c.leader]
               /\ Own(c.leader)' => c.ballot < cmds'[c.leader].ballot
               /\ OwnCommit(c.leader)' => c.ballot < committing'[c.leader].cmd.ballot
    BY <1>9, <1>1, <1>3, <1>4, <1>5 DEF CommitsIncrease, Grows, Numeric
  <2>3. ASSUME NEW p \in Nodes, OwnCommit(p)'
        PROVE  /\ IS_MY_BALLOT(p, committing'[p].cmd.ballot)
               /\ committing'[p].cmd.ballot < ballot'[p]
               /\ Own(p)' => committing'[p].cmd.ballot < cmds'[p].ballot
    BY <1>9, <1>1, <1>3, <1>4, <1>5, <2>3 DEF CommitsIncrease, Grows, Numeric
  <2> QED
    BY <1>9, <2>1, <2>2, <2>3, Zenon DEF CommitsIncrease
<1>10. OwnCommits'
  BY <1>4, <1>5, Zenon DEF LifeInv, OwnCommits, CommitsUnderOwnBallot
<1> QED
  BY <1>10, <1>6, <1>7, <1>8, <1>9, Zenon DEF LifeInv, Kept

LEMMA RecordStep ==
  ASSUME TypeOK, TypeOK', LifeInv, NEW n \in Nodes, CommitRecord(n)
  PROVE  Kept
<1> DEFINE cmd == committing[n].cmd
           sent == ToOthers("COMMIT", n, cmd.ballot, cmd.seq, TRUE, cmd.val)
           new == [leader |-> n, ballot |-> cmd.ballot, seq |-> cmd.seq, val |-> cmd.val]
<1>1. Numeric /\ Numeric'
  BY NumericFacts, PTL
<1>2. /\ UNCHANGED <<ballot, cmds>>
      /\ msgs' = msgs \cup sent
      /\ commits' = commits \cup {new}
      /\ committing' = [committing EXCEPT ![n] = Idle]
  BY Zenon DEF CommitRecord
<1>3. OwnCommit(n)
  <2>1. committing[n] \in Committing /\ committing[n].pc = "record"
    BY ZenonT(60) DEF TypeOK, CommitRecord
  <2> QED
    BY <2>1, Zenon DEF Committing, OwnCommit
<1>4. /\ \A p \in Nodes \ {n} : committing'[p] = committing[p] /\ OwnCommit(p)' = OwnCommit(p)
      /\ ~ OwnCommit(n)'
  BY <1>2, Zenon DEF TypeOK, OwnCommit, Idle
<1>5. \A p \in Nodes : Present(p)' = Present(p) /\ Own(p)' = Own(p)
  BY <1>2, Zenon DEF Present, Own
<1>6. \A m \in sent : m.type = "COMMIT" /\ m.from # m.to
  BY DEF ToOthers, Message
<1>7. /\ new.leader = n /\ new.ballot = cmd.ballot
      /\ IS_MY_BALLOT(n, cmd.ballot)
      /\ CommitsIncrease =>
            /\ cmd.ballot < ballot[n]
            /\ Own(n) => cmd.ballot < cmds[n].ballot
            /\ \A c \in commits : c.leader = n => c.ballot < cmd.ballot
  BY <1>3, Zenon DEF LifeInv, OwnCommits, CommitsIncrease
<1> HIDE DEF cmd, sent, new
<1>8. IssuedBallots'
  BY <1>2, <1>5 DEF LifeInv, IssuedBallots
<1>9. LiveMessages'
  BY <1>2, <1>6, Zenon DEF LifeInv, LiveMessages, Live, IsRequest, IsResponse
<1>10. LiveOutbids'
  BY <1>2, <1>5, <1>6 DEF LifeInv, LiveOutbids, Live, IsRequest, IsResponse
<1>11. ASSUME CommitsIncrease PROVE CommitsIncrease'
  <2>1. CommitsUnderOwnBallot'
    BY <1>11, <1>2, <1>7, Zenon DEF CommitsIncrease, CommitsUnderOwnBallot
  <2>2. ASSUME NEW c \in commits'
        PROVE  /\ c.ballot < ballot'[c.leader]
               /\ Own(c.leader)' => c.ballot < cmds'[c.leader].ballot
               /\ OwnCommit(c.leader)' => c.ballot < committing'[c.leader].cmd.ballot
    BY <1>11, <1>1, <1>2, <1>4, <1>5, <1>7 DEF CommitsIncrease, Numeric
  <2>3. ASSUME NEW p \in Nodes, OwnCommit(p)'
        PROVE  /\ IS_MY_BALLOT(p, committing'[p].cmd.ballot)
               /\ committing'[p].cmd.ballot < ballot'[p]
               /\ Own(p)' => committing'[p].cmd.ballot < cmds'[p].ballot
    BY <1>11, <1>2, <1>4, <1>5, <2>3, Zenon DEF CommitsIncrease
  <2>4. ASSUME NEW c \in commits PROVE c.ballot # new.ballot
    <3>1. IS_MY_BALLOT(c.leader, c.ballot) /\ c.ballot \in Nat /\ cmd.ballot \in Nat
      BY <1>11, <1>1, Zenon DEF CommitsIncrease, CommitsUnderOwnBallot, Numeric, cmd
    <3> QED
      BY <1>7, <1>11, <3>1, OneOwner
  <2>5. OneCommandPerBallot'
    BY <1>11, <1>2, <2>4, Zenon DEF CommitsIncrease, OneCommandPerBallot
  <2> QED
    BY <1>11, <2>1, <2>2, <2>3, <2>5, Zenon DEF CommitsIncrease
<1>12. OwnCommits'
  BY <1>2, <1>3, <1>4, <1>7, Zenon DEF LifeInv, OwnCommits, CommitsUnderOwnBallot
<1> QED
  BY <1>12, <1>8, <1>9, <1>10, <1>11, Zenon DEF LifeInv, Kept

(* The parts of an entry that the votes leave alone. *)
LEMMA VotedKeeps ==
  ASSUME TypeOK, NEW n \in Nodes, NEW m, NEW cmd \in {PreAcceptVoted(n, m), AcceptVoted(n, m)}
  PROVE  cmd.val = cmds[n].val /\ cmd.ballot = cmds[n].ballot /\ cmd.status = cmds[n].status
<1>1. cmds[n] \in Cmd
  BY Fields, Zenon
<1> QED
  BY <1>1, Zenon DEF PreAcceptVoted, AcceptVoted, Cmd

LEMMA ProposeBallots ==
  ASSUME TypeOK, TypeOK', LifeInv, NEW n \in Nodes, NEW v \in Values, RunCommand(n, v)
  PROVE  Kept
<1> DEFINE seq == IF Present(n) THEN Larger(log[n].seq + 1, cmds[n].seq + 1)
                                ELSE log[n].seq + 1
           new == [ZeroCmd EXCEPT !.val = v, !.seq = seq, !.ballot = ballot[n],
                                  !.status = "PRE_ACCEPTED"]
           sent == ToOthers("PRE_ACCEPT", n, ballot[n], seq, FALSE, v)
<1>1. /\ cmds' = [cmds EXCEPT ![n] = new]
      /\ msgs' = msgs \cup sent
      /\ UNCHANGED <<ballot, committing, commits>>
  BY Zenon DEF RunCommand
<1> HIDE DEF seq
<1>2. new.status = "PRE_ACCEPTED" /\ new.ballot = ballot[n]
  BY Zenon DEF ZeroCmd, NoCmd
<1>3. \A m \in sent : IsRequest(m) /\ m.from = n /\ m.to # n /\ m.ballot = ballot[n]
  BY DEF ToOthers, Message, IsRequest
<1> HIDE DEF new, sent
<1>4. cmds'[n] = new /\ \A p \in Nodes \ {n} : cmds'[p] = cmds[p]
  BY <1>1, Zenon DEF TypeOK
<1>5. Grows
  BY <1>1, SameBallots, Zenon DEF LifeInv
<1> QED
  BY <1>1, <1>2, <1>3, <1>4, <1>5, ProposeStep

(* S has at most one message: the answer to m under ballot b. *)
Answer(m, b, S) ==
  /\ \A r \in S : ~ m.closed /\ IsResponse(r) /\ r.from = m.to /\ r.to = m.from /\ r.ballot = b
  /\ \A r, x \in S : r = x

(* Replica n answers request m with S; its entry becomes new. *)
Adopted(n, m, new, S) ==
  /\ cmds' = [cmds EXCEPT ![n] = new]
  /\ msgs' = (msgs \ {m}) \cup S
  /\ UNCHANGED <<committing, commits>>
  /\ new.status # "absent"
  /\ \/ new.ballot = m.ballot
     \/ Present(n) /\ new.ballot = cmds[n].ballot
  /\ new.val # NoVal => Present(n) /\ cmds[n].val # NoVal /\ new.votes = cmds[n].votes
  /\ Answer(m, new.ballot, S)

LEMMA ReplyFacts ==
  ASSUME NEW type \in {"PRE_ACCEPT_RESPONSE", "ACCEPT_RESPONSE"}, NEW m, NEW b, NEW s, NEW committed
  PROVE  Answer(m, b, Reply(type, m, b, s, committed))
<1> DEFINE answer == Message(type, m.to, m.from, b, s, committed, m.val)
<1>1. /\ answer.type = type /\ answer.from = m.to /\ answer.to = m.from
      /\ answer.ballot = b
  BY Zenon DEF Message
<1> HIDE DEF answer
<1>2. Reply(type, m, b, s, committed) = IF m.closed THEN {} ELSE {answer}
  BY Zenon DEF Reply, answer
<1> QED
  BY <1>1, <1>2, Zenon DEF IsResponse, Answer

LEMMA AdoptedEntry ==
  ASSUME TypeOK, IssuedBallots, NEW n, NEW m, HandlePreAccept(n, m) \/ HandleAccept(n, m)
  PROVE  \E new, S : Adopted(n, m, new, S)
<1>1. m \in msgs /\ m.to = n /\ IsRequest(m) /\ m.type # "COMMIT"
  BY Zenon DEF HandlePreAccept, HandleAccept, Receive, IsRequest
<1>2. n \in Nodes /\ m \in Msg /\ m.ballot \in Nat /\ cmds[n].ballot \in Nat /\ cmds[n] \in Cmd
  BY <1>1, MsgFields, Fields, Zenon DEF TypeOK
<1>3. NoCmd.ballot = 0 /\ NoCmd.status = "absent" /\ NoCmd.seq = 0
      /\ ZeroCmd.val = NoVal /\ ZeroCmd.status = "NONE"
  BY Zenon DEF ZeroCmd, NoCmd
<1>4. CASE HandlePreAccept(n, m)
  <2> DEFINE interfering_seq == Larger(log[n].seq, cmds[n].seq)
             max_seq == Larger(m.seq, interfering_seq)
             cmd == IF Present(n)
                    THEN [cmds[n] EXCEPT !.ballot = m.ballot]
                    ELSE [ZeroCmd EXCEPT !.seq = m.seq, !.ballot = m.ballot]
             new == IF m.seq >= interfering_seq
                    THEN [cmd EXCEPT !.status = "PRE_ACCEPTED", !.seq = interfering_seq]
                    ELSE cmd
             committed == max_seq = log[n].seq
             S == Reply("PRE_ACCEPT_RESPONSE", m, cmd.ballot, max_seq, committed)
  <2>1. /\ cmds' = [cmds EXCEPT ![n] = new]
        /\ msgs' = (msgs \ {m}) \cup S
        /\ UNCHANGED <<committing, commits>>
    BY <1>4, Zenon DEF HandlePreAccept
  <2>2. cmd \in Cmd
    BY <1>2, MsgFields, CmdTypes, Zenon DEF Cmd
  <2>3. /\ cmd.ballot = m.ballot
        /\ cmd.val # NoVal => Present(n) /\ cmds[n].val # NoVal /\ cmd.votes = cmds[n].votes
        /\ cmd.status # "absent"
    BY <1>2, <1>3, CmdTypes, Zenon DEF Cmd, Present
  <2> HIDE DEF interfering_seq, max_seq, cmd, committed
  <2>4. new.ballot = cmd.ballot /\ new.val = cmd.val /\ new.votes = cmd.votes /\ new.status # "absent"
    BY <2>2, <2>3, Zenon DEF Cmd
  <2>5. Answer(m, cmd.ballot, S)
    BY ReplyFacts, Zenon
  <2> HIDE DEF new, S
  <2> QED
    BY <2>1, <2>3, <2>4, <2>5, ZenonT(60) DEF Adopted
<1>5. CASE HandleAccept(n, m)
  <2> DEFINE cmd == IF Present(n) THEN cmds[n] ELSE ZeroCmd
             new == IF m.seq >= cmds[n].seq
                    THEN [cmd EXCEPT !.seq = m.seq, !.ballot = m.ballot, !.status = "ACCEPTED"]
                    ELSE cmd
             committed == new.seq = log[n].seq
             S == Reply("ACCEPT_RESPONSE", m, new.ballot, new.seq, committed)
  <2>1. /\ cmds' = [cmds EXCEPT ![n] = new]
        /\ msgs' = (msgs \ {m}) \cup S
        /\ UNCHANGED <<committing, commits>>
    BY <1>5, Zenon DEF HandleAccept
  <2>2. cmd \in Cmd /\ (cmd.val # NoVal => Present(n) /\ cmds[n].val # NoVal /\ cmd.votes = cmds[n].votes)
    BY <1>2, <1>3, CmdTypes, Zenon
  <2>3. CASE m.seq >= cmds[n].seq
    <3>1. new.ballot = m.ballot /\ new.val = cmd.val /\ new.votes = cmd.votes /\ new.status = "ACCEPTED"
      BY <2>2, <2>3, Zenon DEF Cmd
    <3> HIDE DEF new, cmd, committed
    <3>2. Answer(m, new.ballot, S)
      BY ReplyFacts, Zenon
    <3> HIDE DEF S
    <3>3. new.status # "absent"
      BY <3>1, Zenon
    <3> QED
      BY <2>1, <2>2, <3>1, <3>2, <3>3, Zenon DEF Adopted
  <2>4. CASE ~ (m.seq >= cmds[n].seq)
    <3>1. Present(n)
      BY <1>2, <1>3, <2>4, MsgFields DEF IssuedBallots
    <3>2. new = cmds[n]
      BY <2>4, <3>1, Zenon
    <3> HIDE DEF new, committed
    <3>3. Answer(m, new.ballot, S)
      BY ReplyFacts, Zenon
    <3> HIDE DEF S
    <3> QED
      BY <2>1, <3>1, <3>2, <3>3, Zenon DEF Adopted, Present
  <2> QED
    BY <2>3, <2>4, Zenon
<1> QED
  BY <1>4, <1>5, Zenon

(* A request that is handled is at no lower ballot than the entry. *)
LEMMA HandledOutbids ==
  ASSUME TypeOK, IssuedBallots, NEW n, NEW m, HandlePreAccept(n, m) \/ HandleAccept(n, m)
  PROVE  m.ballot >= cmds[n].ballot
<1>1. m \in msgs /\ m.to = n
  BY Zenon DEF HandlePreAccept, HandleAccept, Receive
<1>2. n \in Nodes /\ m.ballot \in Nat /\ cmds[n].ballot \in Nat
  BY <1>1, NumericFacts, Zenon DEF Numeric
<1>3. NoCmd.ballot = 0
  BY Zenon DEF NoCmd
<1>4. CASE HandlePreAccept(n, m)
  BY <1>2, <1>3, <1>4 DEF HandlePreAccept, PreAcceptIgnored, IssuedBallots, Present
<1>5. CASE HandleAccept(n, m)
  BY <1>5, Zenon DEF HandleAccept
<1> QED
  BY <1>4, <1>5, Zenon

LEMMA AdoptBallots ==
  ASSUME TypeOK, TypeOK', LifeInv, NEW n, NEW m, HandlePreAccept(n, m) \/ HandleAccept(n, m)
  PROVE  Kept
<1>1. m \in msgs /\ m.to = n /\ IsRequest(m) /\ m.type # "COMMIT"
  BY Zenon DEF HandlePreAccept, HandleAccept, Receive, IsRequest
<1>2. n \in Nodes /\ m \in Msg /\ m.ballot \in Nat /\ cmds[n].ballot \in Nat /\ cmds[n] \in Cmd
  BY <1>1, MsgFields, Fields, Zenon DEF TypeOK
<1>3. Grows /\ m.ballot < ballot'[n]
  BY <1>1, ReceivedBallots, Zenon DEF LifeInv, LiveMessages, HandlePreAccept, HandleAccept, Receive
<1>4. m.ballot >= cmds[n].ballot
  BY HandledOutbids, Zenon DEF LifeInv
<1>5. PICK new, S : Adopted(n, m, new, S)
  BY AdoptedEntry, Zenon DEF LifeInv
<1>6. cmds'[n] = new /\ \A p \in Nodes \ {n} : cmds'[p] = cmds[p]
  BY <1>2, <1>5, Zenon DEF TypeOK, Adopted
<1>7. Own(n)' => Own(n)
  BY <1>5, <1>6, Zenon DEF Adopted, Own, Present
<1> QED
  BY <1>1, <1>2, <1>3, <1>4, <1>5, <1>6, <1>7, AdoptStep DEF Adopted, Answer

(* An answer that reaches the replica's own entry finds it at the ballot the
   replica asked under. *)
LEMMA ResponseBallots ==
  ASSUME TypeOK, TypeOK', LifeInv, NEW n, NEW m,
         HandlePreAcceptResponse(n, m) \/ HandleAcceptResponse(n, m)
  PROVE  Kept
<1>1. /\ m \in msgs /\ m.to = n /\ IsResponse(m) /\ m.type # "COMMIT"
      /\ Present(n) /\ ~ (m.ballot < cmds[n].ballot)
  BY Zenon DEF HandlePreAcceptResponse, HandleAcceptResponse, ReceiveResponse, Receive, IsResponse,
         ResponseIgnored
<1>2. n \in Nodes /\ m.ballot \in Nat /\ cmds[n].ballot \in Nat /\ ballot'[n] \in Nat
  <2>1. Numeric /\ Numeric'
    BY NumericFacts, PTL
  <2> QED
    BY <1>1, <2>1, Zenon DEF Numeric
<1>3. Grows /\ m.ballot < ballot'[n]
  BY <1>1, ReceivedBallots, ZenonT(60) DEF LifeInv, LiveMessages, HandlePreAcceptResponse,
                               HandleAcceptResponse, ReceiveResponse, Receive
<1>4. Own(n) => m.ballot = cmds[n].ballot /\ IS_MY_BALLOT(n, cmds[n].ballot)
  BY <1>1, <1>2, Zenon DEF LifeInv, LiveOutbids
<1>5. PICK cmd \in {PreAcceptVoted(n, m), AcceptVoted(n, m)} :
         \/ /\ cmds' = [cmds EXCEPT ![n] = cmd]
            /\ msgs' = msgs \ {m}
            /\ UNCHANGED <<committing, commits>>
         \/ StartCommit(n, m, cmd)
         \/ \E s : StartAccept(n, m, cmd, s)
  BY Zenon DEF HandlePreAcceptResponse, HandleAcceptResponse
<1>6. cmd.val = cmds[n].val /\ cmd.ballot = cmds[n].ballot /\ cmd.status # "absent"
  <2>1. cmd.val = cmds[n].val /\ cmd.ballot = cmds[n].ballot /\ cmd.status = cmds[n].status
    BY <1>2, VotedKeeps, ZenonT(60)
  <2> QED
    BY <1>1, <2>1, Zenon DEF Present
<1>7. CASE /\ cmds' = [cmds EXCEPT ![n] = cmd]
           /\ msgs' = msgs \ {m}
           /\ UNCHANGED <<committing, commits>>
  <2>1. \A p \in Nodes : \/ cmds'[p] \in {cmds[p], NoCmd}
                         \/ /\ Present(p) /\ Present(p)'
                            /\ cmds'[p].val = cmds[p].val /\ cmds'[p].ballot = cmds[p].ballot
    BY <1>1, <1>2, <1>6, <1>7, Zenon DEF TypeOK, Present
  <2> QED
    BY <1>3, <1>7, <2>1, PassiveStep, Zenon
<1>8. CASE StartCommit(n, m, cmd)
  <2>1. /\ cmds'[n] = NoCmd /\ committing'[n].cmd = cmd
        /\ \A p \in Nodes \ {n} : cmds'[p] = cmds[p] /\ committing'[p] = committing[p]
        /\ msgs' \subseteq msgs /\ commits' = commits
    BY <1>2, <1>8, Zenon DEF StartCommit, TypeOK
  <2>2. \/ Own(n) /\ m.ballot = cmds[n].ballot
        \/ ~ Own(n)
    BY <1>4, Zenon
  <2>3. cmds[n].ballot < ballot'[n]
    BY <1>1, <1>2, <1>3
  <2> QED
    BY <1>1, <1>2, <1>3, <1>4, <1>6, <2>1, <2>3, CommitStep, Zenon
<1>9. ASSUME NEW s, StartAccept(n, m, cmd, s) PROVE Kept
  <2> DEFINE new == [cmd EXCEPT !.votes = << >>, !.max_seq = 0, !.seq = s,
                                !.ballot = ballot'[n], !.status = "ACCEPTED"]
             sent == ToOthers("ACCEPT", n, ballot'[n], s, FALSE, cmd.val)
  <2>1. /\ cmds' = [cmds EXCEPT ![n] = new]
        /\ msgs' = (msgs \ {m}) \cup sent
        /\ UNCHANGED <<committing, commits>>
    BY <1>9, ZenonT(60) DEF StartAccept
  <2>2. \A x \in sent : IsRequest(x) /\ x.from = n /\ x.to # n /\ x.ballot = ballot'[n]
    BY DEF ToOthers, Message, IsRequest
  <2>3. cmd \in Cmd
    BY <1>1, <1>2, VotedType, Zenon DEF TypeOK
  <2>4. new.ballot = ballot'[n] /\ new.status = "ACCEPTED"
    BY <2>3, Zenon DEF Cmd
  <2> HIDE DEF new, sent
  <2>5. cmds'[n] = new /\ \A p \in Nodes \ {n} : cmds'[p] = cmds[p]
    BY <1>2, <2>1, Zenon DEF TypeOK
  <2> QED
    BY <1>2, <1>3, <2>1, <2>2, <2>4, <2>5, ProposeStep
<1> QED
  BY <1>5, <1>7, <1>8, <1>9, Zenon

LEMMA PassiveBallots ==
  ASSUME TypeOK, TypeOK', LifeInv, NEW n, NEW m,
         \/ IgnorePreAccept(n, m) \/ IgnoreAccept(n, m) \/ IgnoreCommit(n, m)
         \/ IgnoreResponse(n, m) \/ UpdateBallotEarly(n, m) \/ HandleCommit(n, m)
  PROVE  Kept
<1>1. m \in msgs /\ m.to = n
  BY ZenonT(60) DEF IgnorePreAccept, IgnoreAccept, IgnoreCommit, IgnoreResponse, UpdateBallotEarly,
         HandleCommit, ReceiveResponse, Receive
<1>2. Grows
  BY <1>1, ReceivedBallots, Zenon DEF LifeInv, LiveMessages, IgnorePreAccept, IgnoreAccept,
     IgnoreCommit, IgnoreResponse, UpdateBallotEarly, HandleCommit, ReceiveResponse, Receive
<1>3. /\ msgs' \subseteq msgs /\ UNCHANGED <<committing, commits>>
      /\ cmds' \in {cmds, [cmds EXCEPT ![n] = NoCmd]}
  BY Zenon DEF IgnorePreAccept, IgnoreAccept, IgnoreCommit, IgnoreResponse, Ignored,
               UpdateBallotEarly, HandleCommit
<1>4. \A p \in Nodes : cmds'[p] \in {cmds[p], NoCmd}
  BY <1>3, Zenon DEF TypeOK
<1> QED
  BY <1>2, <1>3, <1>4, PassiveStep, Zenon

LEMMA LocalBallots ==
  ASSUME TypeOK, TypeOK', LifeInv, NEW n \in Nodes, CommitApply(n) \/ Expire(n)
  PROVE  Kept
<1>1. Grows
  BY SameBallots, Zenon DEF LifeInv, CommitApply, Expire
<1>2. \A p \in Nodes : cmds'[p] \in {cmds[p], NoCmd}
  BY Zenon DEF CommitApply, Expire, TypeOK
<1>3. \A p \in Nodes : \/ committing'[p].pc = "none"
                       \/ /\ committing[p].pc # "none"
                          /\ committing'[p].cmd = committing[p].cmd
  <2>1. CASE Expire(n)
    BY <2>1, Zenon DEF Expire, TypeOK, Committing
  <2>2. CASE CommitApply(n)
    <3>1. committing[n] \in [cmd : Cmd, pc : {"none", "apply", "record"}]
      BY Zenon DEF TypeOK, Committing
    <3>2. committing[n].pc = "apply"
      BY <2>2, Zenon DEF CommitApply
    <3>3. Idle.pc = "none"
      BY Zenon DEF Idle
    <3>4. committing' \in {[committing EXCEPT ![n].pc = "record"],
                           [committing EXCEPT ![n] = Idle]}
      BY <2>2, Zenon DEF CommitApply
    <3>5. [committing[n] EXCEPT !.pc = "record"].cmd = committing[n].cmd
      BY <3>1, Zenon
    <3>6. /\ committing'[n] \in {[committing[n] EXCEPT !.pc = "record"], Idle}
          /\ \A p \in Nodes \ {n} : committing'[p] = committing[p]
      BY <3>4, Zenon DEF TypeOK
    <3> QED
      BY <3>2, <3>3, <3>5, <3>6, Zenon
  <2> QED
    BY <2>1, <2>2, Zenon
<1>4. msgs' = msgs /\ commits' = commits
  BY Zenon DEF CommitApply, Expire
<1> QED
  BY <1>1, <1>2, <1>3, <1>4, PassiveStep, Zenon

(* What a restarted replica finds under way is of its peers, or closed. *)
LEMMA RestartBallots ==
  ASSUME TypeOK, TypeOK', LifeInv, NEW n \in Nodes, Restart(n)
  PROVE  LifeInv'
<1>1. Numeric /\ Numeric'
  BY NumericFacts, PTL
<1>2. PICK max \in {0, log[n].max} :
         ballot' = [ballot EXCEPT ![n] =
                       update_ballot(n, InitialBallot(n), BALLOT_VALUE(max) + 1)]
  BY Zenon DEF Restart
<1>3. /\ cmds' = [cmds EXCEPT ![n] = NoCmd]
      /\ committing' = [committing EXCEPT ![n] = Idle]
      /\ msgs' = {[m EXCEPT !.closed = @ \/ m.from = n] : m \in {x \in msgs : x.to # n}}
      /\ commits' = commits
  BY Zenon DEF Restart
<1>4. IS_MY_BALLOT(n, ballot'[n]) /\ BALLOT_VALUE(ballot'[n]) >= 1
  <2>1. max \in Ballot
    <3>1. log[n].max \in Ballot
      BY Fields, Zenon
    <3>2. 0 \in Ballot
      BY NodesFacts DEF Ballot, BALLOT2NODE
    <3> QED
      BY <1>2, <3>1, <3>2, Zenon
  <2>2. InitialBallot(n) \in Ballot /\ IS_MY_BALLOT(n, InitialBallot(n))
        /\ BALLOT_VALUE(InitialBallot(n)) = 1
    BY MkBallotFacts, Zenon DEF InitialBallot
  <2>3. BALLOT_VALUE(max) + 1 \in Nat
    BY <2>1 DEF Ballot, BALLOT_VALUE
  <2>4. ballot'[n] = update_ballot(n, InitialBallot(n), BALLOT_VALUE(max) + 1)
    BY <1>2, Zenon DEF TypeOK
  <2>5. ballot'[n] >= InitialBallot(n) /\ IS_MY_BALLOT(n, ballot'[n])
    BY <2>2, <2>3, <2>4, UpdateBallotFacts, Zenon
  <2> QED
    BY <1>1, <2>2, <2>5, Monotone DEF Numeric, Ballot
<1>5. /\ cmds'[n] = NoCmd /\ committing'[n] = Idle
      /\ \A p \in Nodes \ {n} : /\ ballot'[p] = ballot[p] /\ cmds'[p] = cmds[p]
                                /\ committing'[p] = committing[p]
  BY <1>2, <1>3, Zenon DEF TypeOK
<1>6. /\ ~ Present(n)' /\ ~ Own(n)' /\ ~ OwnCommit(n)'
      /\ \A p \in Nodes \ {n} : /\ Present(p)' = Present(p) /\ Own(p)' = Own(p)
                                /\ OwnCommit(p)' = OwnCommit(p)
  BY <1>5 DEF Present, Own, OwnCommit, NoCmd, Idle
<1>7. ASSUME NEW m \in msgs'
      PROVE  \E x \in msgs :
                /\ m.type = x.type /\ m.from = x.from /\ m.to = x.to /\ m.ballot = x.ballot
                /\ m.to # n /\ (~ m.closed => ~ x.closed /\ m.from # n)
  <2>1. PICK x \in msgs : x.to # n /\ m = [x EXCEPT !.closed = @ \/ x.from = n]
    BY <1>3, Zenon
  <2>2. x \in Msg
    BY Zenon DEF TypeOK
  <2> QED
    BY <2>1, <2>2, Zenon DEF Msg
<1>8. IssuedBallots'
  BY <1>4, <1>5, <1>6, ZenonT(60) DEF LifeInv, IssuedBallots
<1>9. ASSUME NEW m \in msgs'
      PROVE  /\ m.from # m.to
             /\ m.type # "COMMIT" => BALLOT_VALUE(m.ballot) >= 1
             /\ IsRequest(m) => IS_MY_BALLOT(m.from, m.ballot)
             /\ Live(m) => m.ballot <= ballot'[m.from]
             /\ IsResponse(m) => m.ballot <= ballot'[m.to]
  <2>1. PICK x \in msgs :
           /\ m.type = x.type /\ m.from = x.from /\ m.to = x.to /\ m.ballot = x.ballot
           /\ m.to # n /\ (~ m.closed => ~ x.closed /\ m.from # n)
    BY <1>7, Zenon
  <2>2. x.from \in Nodes /\ x.to \in Nodes
    BY <1>1, Zenon DEF Numeric
  <2> QED
    BY <1>5, <2>1, <2>2, ZenonT(60) DEF LifeInv, LiveMessages, Live, IsRequest, IsResponse
<1>10. ASSUME NEW p \in Nodes, Own(p)'
       PROVE  /\ cmds'[p].ballot <= ballot'[p]
              /\ \A m \in msgs' :
                    \/ Live(m) /\ m.from = p
                    \/ IsResponse(m) /\ m.to = p
                    => \/ m.ballot < cmds'[p].ballot
                       \/ m.ballot = cmds'[p].ballot /\ IS_MY_BALLOT(p, cmds'[p].ballot)
  <2>1. p # n /\ Own(p) /\ cmds'[p] = cmds[p] /\ ballot'[p] = ballot[p]
    BY <1>5, <1>6, <1>10, Zenon
  <2>2. ASSUME NEW m \in msgs', \/ Live(m) /\ m.from = p
                                \/ IsResponse(m) /\ m.to = p
        PROVE  \/ m.ballot < cmds[p].ballot
               \/ m.ballot = cmds[p].ballot /\ IS_MY_BALLOT(p, cmds[p].ballot)
    <3>1. PICK x \in msgs :
             /\ m.type = x.type /\ m.from = x.from /\ m.to = x.to /\ m.ballot = x.ballot
             /\ m.to # n /\ (~ m.closed => ~ x.closed /\ m.from # n)
      BY <1>7, Zenon
    <3>2. \/ Live(x) /\ x.from = p
          \/ IsResponse(x) /\ x.to = p
      BY <2>2, <3>1, Zenon DEF Live, IsRequest, IsResponse
    <3>3. \/ x.ballot < cmds[p].ballot
          \/ x.ballot = cmds[p].ballot /\ IS_MY_BALLOT(p, cmds[p].ballot)
      BY <2>1, <3>2, Zenon DEF LifeInv, LiveOutbids
    <3> QED
      BY <3>1, <3>3, Zenon
  <2>3. cmds[p].ballot <= ballot[p]
    BY <2>1, Zenon DEF LifeInv, LiveOutbids
  <2> QED
    BY <2>1, <2>2, <2>3, Zenon
<1>11. OwnCommits'
  BY <1>3, <1>5, <1>6, Zenon DEF LifeInv, OwnCommits, CommitsUnderOwnBallot
<1> QED
  BY <1>8, <1>9, <1>10, <1>11, Zenon DEF LifeInv, LiveMessages, LiveOutbids

LEMMA InitBallots == Init => LifeInv /\ CommitsIncrease
<1> SUFFICES ASSUME Init PROVE LifeInv /\ CommitsIncrease
  BY Zenon
<1>1. IssuedBallots
  BY MkBallotFacts DEF Init, InitialBallot, IssuedBallots, Present, NoCmd
<1>2. LiveMessages
  BY Zenon DEF Init, LiveMessages
<1>3. LiveOutbids
  BY Zenon DEF Init, LiveOutbids, Own, Present, NoCmd
<1>4. CommitsIncrease /\ OwnCommits
  BY Zenon DEF Init, CommitsIncrease, OwnCommits, CommitsUnderOwnBallot, OneCommandPerBallot,
         OwnCommit, Idle
<1> QED
  BY <1>1, <1>2, <1>3, <1>4, Zenon DEF LifeInv

LEMMA NextBallots ==
  ASSUME TypeOK, TypeOK', LifeInv, [Next]_vars
  PROVE  Kept \/ \E n \in Nodes : Restart(n)
<1>1. ASSUME NEW n \in Leaders, NEW v \in Values, RunCommand(n, v) PROVE Kept
  BY <1>1, ProposeBallots, LeadersAssumption, Zenon DEF Nodes
<1>2. ASSUME NEW n \in Nodes, Committer(n) \/ Expire(n) PROVE Kept
  BY <1>2, LocalBallots, RecordStep, Zenon DEF Committer
<1>3. ASSUME NEW m \in msgs, Handle(m.to, m) \/ UpdateBallotEarly(m.to, m) PROVE Kept
  BY <1>3, AdoptBallots, ResponseBallots, PassiveBallots, Zenon DEF Handle
<1>4. ASSUME \/ \E v \in Values : Caller(v)
             \/ \E m \in msgs : Lose(m)
             \/ UNCHANGED vars
      PROVE  Kept
  <2>1. msgs' \subseteq msgs /\ UNCHANGED <<ballot, cmds, committing, commits>>
    BY <1>4, Zenon DEF Caller, CheckCommand, WaitCommand, ReturnCommand, Lose, vars
  <2>2. Grows
    BY <2>1, SameBallots, Zenon DEF LifeInv
  <2>3. \A n \in Nodes : \/ committing'[n].pc = "none"
                         \/ /\ committing[n].pc # "none"
                            /\ committing'[n].cmd = committing[n].cmd
    BY <2>1, Zenon
  <2> QED
    BY <2>1, <2>2, <2>3, PassiveStep, Zenon
<1> QED
  BY <1>1, <1>2, <1>3, <1>4, Zenon DEF Next

(* Whatever happens, restarts included, a leader records its commits under ballots
   it has issued itself: PRE_ACCEPT and ACCEPT of a peer may take its entry over, but
   then no answer it is still to get leads to a commit. *)
THEOREM CommitsAreOwn == Spec => []CommitsUnderOwnBallot
<1>1. Init => TypeOK /\ LifeInv
  BY InitType, InitBallots, Zenon
<1>2. TypeOK /\ LifeInv /\ [Next]_vars => (TypeOK /\ LifeInv)'
  <2> SUFFICES ASSUME TypeOK, LifeInv, [Next]_vars PROVE TypeOK' /\ LifeInv'
    BY Zenon
  <2>1. TypeOK'
    BY NextType, Zenon
  <2> QED
    BY <2>1, NextBallots, RestartBallots, Zenon DEF Kept
<1>3. LifeInv => CommitsUnderOwnBallot
  BY Zenon DEF LifeInv, OwnCommits
<1> QED
  BY <1>1, <1>2, <1>3, PTL DEF Spec

(* Without restarts no message is closed. *)
Open == \A m \in msgs : ~ m.closed

LEMMA NextOpen ==
  ASSUME "crash" \notin Faults, Open, [Next]_vars
  PROVE  Open'
<1>1. ASSUME NEW type, NEW n, NEW p, NEW b, NEW s, NEW committed, NEW v
      PROVE  ~ Message(type, n, p, b, s, committed, v).closed
  BY Zenon DEF Message
<1>2. ASSUME NEW type, NEW n, NEW b, NEW s, NEW committed, NEW v
      PROVE  \A m \in ToOthers(type, n, b, s, committed, v) : ~ m.closed
  BY <1>1, Zenon DEF ToOthers
<1>3. ASSUME NEW type, NEW m, NEW b, NEW s, NEW committed
      PROVE  \A r \in Reply(type, m, b, s, committed) : ~ r.closed
  BY <1>1, Zenon DEF Reply
<1>4. ASSUME NEW n \in Leaders, NEW v \in Values, RunCommand(n, v) PROVE Open'
  BY <1>2, <1>4, Zenon DEF RunCommand, Open
<1>5. ASSUME NEW n \in Nodes, Committer(n) \/ Expire(n) \/ Restart(n) PROVE Open'
  BY <1>2, <1>5, Zenon DEF Committer, CommitApply, CommitRecord, Expire, Restart, Open
<1>6. ASSUME NEW m \in msgs, NEW n, HandlePreAccept(n, m) \/ HandleAccept(n, m) PROVE Open'
  BY <1>3, <1>6, Zenon DEF HandlePreAccept, HandleAccept, Open
<1>7. ASSUME NEW m \in msgs, NEW n, HandlePreAcceptResponse(n, m) \/ HandleAcceptResponse(n, m)
      PROVE  Open'
  <2>1. \/ msgs' = msgs \ {m}
        \/ \E cmd, s : msgs' = (msgs \ {m}) \cup ToOthers("ACCEPT", n, ballot'[n], s, FALSE, cmd.val)
    BY <1>7, Zenon DEF HandlePreAcceptResponse, HandleAcceptResponse, StartCommit, StartAccept
  <2> QED
    BY <1>2, <2>1, Zenon DEF Open
<1>8. ASSUME NEW m \in msgs, NEW n,
             \/ IgnorePreAccept(n, m) \/ IgnoreAccept(n, m) \/ IgnoreCommit(n, m)
             \/ IgnoreResponse(n, m) \/ UpdateBallotEarly(n, m) \/ HandleCommit(n, m) \/ Lose(m)
      PROVE  Open'
  BY <1>8, Zenon DEF IgnorePreAccept, IgnoreAccept, IgnoreCommit, IgnoreResponse,
     UpdateBallotEarly, HandleCommit, Lose, Open
<1>9. ASSUME (\E v \in Values : Caller(v)) \/ UNCHANGED vars PROVE Open'
  BY <1>9, Zenon DEF Caller, CheckCommand, WaitCommand, ReturnCommand, vars, Open
<1> QED
  BY <1>4, <1>5, <1>6, <1>7, <1>8, <1>9, Zenon DEF Next, Handle

LEMMA LifeIsBallot ==
  ASSUME LifeInv, CommitsIncrease, Open
  PROVE  BallotInv
<1>1. MessageBallots
  BY Zenon DEF LifeInv, LiveMessages, Live, Open, MessageBallots
<1>2. OwnEntryOutbids
  BY Zenon DEF LifeInv, LiveOutbids, Live, Open, OwnEntryOutbids
<1> QED
  BY <1>1, <1>2, Zenon DEF LifeInv, BallotInv

(* As long as no replica restarts, losses, expirations and failing callbacks
   notwithstanding, each ballot a replica proposes outbids all it has seen,
   and its commits carry ever higher ballots of its own. *)
THEOREM BallotsOutbid == ASSUME "crash" \notin Faults PROVE Spec => []BallotInv
<1> DEFINE Inv == TypeOK /\ LifeInv /\ CommitsIncrease /\ Open
<1>1. Init => Inv
  BY InitType, InitBallots, Zenon DEF Open, Init
<1>2. Inv /\ [Next]_vars => Inv'
  <2> SUFFICES ASSUME Inv, [Next]_vars PROVE Inv'
    BY Zenon
  <2>1. TypeOK'
    BY NextType, Zenon
  <2>2. \A n \in Nodes : ~ Restart(n)
    BY Zenon DEF Restart
  <2>3. LifeInv' /\ CommitsIncrease'
    BY <2>1, <2>2, NextBallots, Zenon DEF Kept
  <2> QED
    BY <2>1, <2>3, NextOpen, Zenon
<1>3. Inv => BallotInv
  BY LifeIsBallot, Zenon
<1> HIDE DEF Inv
<1> QED
  BY <1>1, <1>2, <1>3, PTL DEF Spec

(* No two commits share a ballot: the pair (seq, ballot) that replicas compare
   identifies a command. *)
THEOREM BallotIdentifiesCommit ==
  ASSUME "crash" \notin Faults PROVE Spec => []OneCommandPerBallot
<1>1. BallotInv => OneCommandPerBallot
  BY Zenon DEF BallotInv, CommitsIncrease
<1> QED
  BY <1>1, BallotsOutbid, PTL

(* Every step of Kepaxos is a step of the ledger or leaves the ledger as it
   is: Kepaxos implements CommitLedger. *)
THEOREM LedgerImplemented ==
  ASSUME "crash" \notin Faults PROVE Spec => ImplementsLedger
<1>1. Init => Ledger!Init
  BY Zenon DEF Init, Ledger!Init
<1>2. TypeOK /\ BallotInv /\ [Next]_vars => [Ledger!Next]_commits
  <2> SUFFICES ASSUME TypeOK, BallotInv, [Next]_vars, commits' # commits
               PROVE  Ledger!Next
    BY Zenon
  <2>1. PICK n \in Nodes : CommitRecord(n)
    BY ZenonT(60) DEF Next, Handle, Caller, Committer, RunCommand, CheckCommand, WaitCommand,
       ReturnCommand, CommitApply, Expire, Restart, Lose, UpdateBallotEarly, Ignored,
       HandlePreAccept, IgnorePreAccept, HandleAccept, IgnoreAccept, HandleCommit, IgnoreCommit,
       HandlePreAcceptResponse, HandleAcceptResponse, IgnoreResponse, StartCommit, StartAccept,
       vars
  <2> DEFINE cmd == committing[n].cmd
             new == [leader |-> n, ballot |-> cmd.ballot, seq |-> cmd.seq, val |-> cmd.val]
  <2>2. commits' = commits \cup {new} /\ committing[n].pc = "record"
    BY <2>1, Zenon DEF CommitRecord
  <2>3. OwnCommit(n)
    BY <2>2, Zenon DEF OwnCommit, TypeOK, Committing
  <2>4. /\ new.leader = n /\ new.ballot = cmd.ballot
        /\ IS_MY_BALLOT(n, cmd.ballot)
        /\ \A c \in commits : c.leader = n => c.ballot < cmd.ballot
    BY <2>3, Zenon DEF BallotInv, CommitsIncrease
  <2> HIDE DEF new
  <2>5. Ledger!Record(new)
    BY <2>2, <2>4 DEF Ledger!Record, Ledger!IssuedBy, IS_MY_BALLOT, BALLOT2NODE
  <2> QED
    BY <2>2, <2>5, Zenon DEF Ledger!Next
<1>3. Spec => [](TypeOK /\ BallotInv)
  BY TypeCorrect, BallotsOutbid, PTL
<1> QED
  BY <1>1, <1>2, <1>3, PTL DEF Spec, ImplementsLedger, Ledger!Spec

-----------------------------------------------------------------------------
(* Callers *)

(* What kepaxos_commit works on was an entry of the table. *)
CommitsEntries == \A n \in Nodes : committing[n].pc # "none" => committing[n].cmd.status # "absent"

CallerInv == CallerNotStranded /\ CommitsEntries

(* The entry of a value's call, in the table or in kepaxos_commit. *)
Attended(v) ==
    \/ Present(run[v].node) /\ cmds[run[v].node].val = v
    \/ /\ committing[run[v].node].pc # "none" /\ committing[run[v].node].cmd.val = v
       /\ run[v].pc = "waiting"

LEMMA AttendedCalls ==
  CallerNotStranded <=> \A v \in Values : run[v].pc \in {"checked", "waiting"} => Attended(v)
BY Zenon DEF CallerNotStranded, Attended

LEMMA AttendedCallsNext ==
  CallerNotStranded' <=> \A v \in Values : run'[v].pc \in {"checked", "waiting"} => Attended(v)'
BY Zenon DEF CallerNotStranded, Attended

(* What kepaxos_command_destroy does to the calls. *)
LEMMA DestroyedFacts ==
  ASSUME TypeOK, NEW e, NEW v \in Values
  PROVE  /\ Destroyed(run, e)[v].node = run[v].node
         /\ Destroyed(run, e)[v].pc \in {run[v].pc, "woken"}
         /\ e.status # "absent" /\ e.val = v /\ run[v].pc = "waiting"
               => Destroyed(run, e)[v].pc = "woken"
<1>1. run[v] \in Call
  BY Zenon DEF TypeOK
<1>2. Destroyed(run, e)[v] = IF e.status # "absent" /\ e.val = v /\ run[v].pc = "waiting"
                             THEN [run[v] EXCEPT !.pc = "woken"] ELSE run[v]
  BY Zenon DEF Destroyed
<1> QED
  BY <1>1, <1>2, Zenon DEF Call

(* A step that keeps the entries and the commits under way. *)
LEMMA EntriesKept ==
  ASSUME TypeOK, CallerInv, run' = run,
         \A n \in Nodes : Present(n) => Present(n)' /\ cmds'[n].val = cmds[n].val,
         committing' = committing
  PROVE  CallerInv'
<1>1. \A v \in Values : run[v].node \in Nodes
  BY Zenon DEF TypeOK, Call
<1> QED
  BY <1>1 DEF CallerInv, CallerNotStranded, CommitsEntries

(* An entry goes from the table to kepaxos_commit: nobody is between finding it
   and waiting on it, for ke->lock is free. *)
LEMMA CommitStarted ==
  ASSUME TypeOK, CallerInv, NEW n \in Nodes, NEW m, NEW cmd, StartCommit(n, m, cmd), LockFree(n),
         committing[n].pc = "none", Present(n), cmd.val = cmds[n].val, cmd.status = cmds[n].status
  PROVE  CallerInv'
<1>1. /\ run' = run
      /\ committing'[n].cmd = cmd /\ committing'[n].pc = "apply"
      /\ \A p \in Nodes \ {n} : cmds'[p] = cmds[p] /\ committing'[p] = committing[p]
  BY Zenon DEF StartCommit, TypeOK
<1>2. CommitsEntries'
  BY <1>1, Zenon DEF CallerInv, CommitsEntries, Present
<1>3. ASSUME NEW v \in Values, run[v].pc \in {"checked", "waiting"}
      PROVE  \/ Present(run[v].node)' /\ cmds'[run[v].node].val = v
             \/ /\ committing'[run[v].node].pc # "none" /\ committing'[run[v].node].cmd.val = v
                /\ run[v].pc = "waiting"
  <2>1. run[v].node \in Nodes
    BY Zenon DEF TypeOK, Call
  <2>2. CASE run[v].node = n
    BY <1>1, <1>3, <2>2, Zenon DEF CallerInv, CallerNotStranded, LockFree
  <2>3. CASE run[v].node # n
    BY <1>1, <1>3, <2>1, <2>3 DEF CallerInv, CallerNotStranded, Present
  <2> QED
    BY <2>2, <2>3, Zenon
<1> QED
  BY <1>1, <1>2, <1>3, Zenon DEF CallerInv, CallerNotStranded

(* An entry is replaced or removed, and its caller woken. *)
LEMMA EntryDestroyed ==
  ASSUME TypeOK, CallerInv, NEW n \in Nodes, LockFree(n), committing' = committing,
         NEW W, \A v \in Values \ W : run'[v] = Destroyed(run, cmds[n])[v],
         \A v \in W \cap Values : run'[v].pc = "sending",
         \A p \in Nodes \ {n} : cmds'[p] = cmds[p]
  PROVE  CallerInv'
<1>1. ASSUME NEW v \in Values, run'[v].pc \in {"checked", "waiting"}
      PROVE  Attended(v)'
  <2>1. run'[v] = Destroyed(run, cmds[n])[v]
    BY <1>1, Zenon
  <2>2. run'[v].pc = run[v].pc /\ run'[v].node = run[v].node /\ run[v].node \in Nodes
    <3>1. run[v].node \in Nodes
      BY Zenon DEF TypeOK, Call
    <3>2. /\ Destroyed(run, cmds[n])[v].node = run[v].node
          /\ Destroyed(run, cmds[n])[v].pc \in {run[v].pc, "woken"}
      BY DestroyedFacts, Zenon
    <3> QED
      BY <1>1, <2>1, <3>1, <3>2, Zenon
  <2>3. CASE run[v].node = n
    <3>1. run[v].pc = "waiting"
      BY <1>1, <2>2, <2>3, Zenon DEF LockFree
    <3>2. ~ (Present(n) /\ cmds[n].val = v)
      BY <2>1, <2>2, <3>1, DestroyedFacts DEF Present
    <3>3. Attended(v)
      BY <3>1, AttendedCalls, ZenonT(60) DEF CallerInv
    <3> QED
      BY <2>2, <2>3, <3>1, <3>2, <3>3, ZenonT(60) DEF Attended
  <2>4. CASE run[v].node # n
    BY <1>1, <2>2, <2>4, AttendedCalls DEF CallerInv, Attended, Present
  <2> QED
    BY <2>3, <2>4, Zenon
<1> QED
  BY <1>1, AttendedCallsNext, Zenon DEF CallerInv, CommitsEntries

(* kepaxos_commit is done with its command, and its caller woken. *)
LEMMA CommitDestroyed ==
  ASSUME TypeOK, CallerInv, NEW n \in Nodes, committing[n].pc # "none", cmds' = cmds,
         committing'[n].pc = "none", \A p \in Nodes \ {n} : committing'[p] = committing[p],
         \A v \in Values : run'[v] = Destroyed(run, committing[n].cmd)[v]
  PROVE  CallerInv'
<1>2. CommitsEntries'
  BY Zenon DEF CallerInv, CommitsEntries
<1>3. ASSUME NEW v \in Values, run'[v].pc \in {"checked", "waiting"}
      PROVE  Attended(v)'
  <2>1. run'[v].pc = run[v].pc /\ run'[v].node = run[v].node /\ run[v].node \in Nodes
    <3>1. run[v].node \in Nodes
      BY Zenon DEF TypeOK, Call
    <3>2. /\ Destroyed(run, committing[n].cmd)[v].node = run[v].node
          /\ Destroyed(run, committing[n].cmd)[v].pc \in {run[v].pc, "woken"}
      BY DestroyedFacts, ZenonT(60)
    <3> QED
      BY <1>3, <3>1, <3>2, Zenon
  <2>2. ~ (run[v].node = n /\ run[v].pc = "waiting" /\ committing[n].cmd.val = v)
    <3>1. committing[n].cmd.status # "absent"
      BY Zenon DEF CallerInv, CommitsEntries
    <3>2. /\ committing[n].cmd.val = v /\ run[v].pc = "waiting"
          => Destroyed(run, committing[n].cmd)[v].pc = "woken"
      BY <3>1, DestroyedFacts, Zenon
    <3> QED
      BY <1>3, <2>1, <3>2, Zenon
  <2>3. Attended(v)
    BY <1>3, <2>1, AttendedCalls, Zenon DEF CallerInv
  <2>4. CASE run[v].node = n
    BY <2>1, <2>2, <2>3, <2>4, Zenon DEF Attended, Present
  <2>5. CASE run[v].node # n
    <3>1. committing'[run[v].node] = committing[run[v].node]
      BY <2>1, <2>5, Zenon
    <3> QED
      BY <2>1, <2>3, <3>1, Zenon DEF Attended, Present
  <2> QED
    BY <2>4, <2>5, Zenon
<1> QED
  BY <1>2, <1>3, AttendedCallsNext, Zenon DEF CallerInv

LEMMA RunCommandCallers ==
  ASSUME TypeOK, CallerInv, NEW n \in Nodes, NEW w \in Values, RunCommand(n, w)
  PROVE  CallerInv'
<1>1. LockFree(n) /\ committing' = committing
  BY Zenon DEF RunCommand
<1>2. \A p \in Nodes \ {n} : cmds'[p] = cmds[p]
  BY Zenon DEF RunCommand, TypeOK
<1>3. PICK seq : run' = [Destroyed(run, cmds[n]) EXCEPT ![w] =
                            [node |-> n, pc |-> "sending", seq |-> seq, ok |-> FALSE]]
  BY Zenon DEF RunCommand
<1>4. DOMAIN Destroyed(run, cmds[n]) = Values
  BY Zenon DEF Destroyed
<1>5. /\ \A v \in Values \ {w} : run'[v] = Destroyed(run, cmds[n])[v]
      /\ \A v \in {w} \cap Values : run'[v].pc = "sending"
  BY <1>3, <1>4, Zenon
<1> QED
  BY <1>1, <1>2, <1>5, EntryDestroyed, ZenonT(60)

LEMMA CallerCallers ==
  ASSUME TypeOK, CallerInv, NEW w \in Values, Caller(w)
  PROVE  CallerInv'
<1>1. /\ cmds' = cmds /\ committing' = committing
      /\ \A v \in Values \ {w} : run'[v] = run[v]
  BY Zenon DEF Caller, CheckCommand, WaitCommand, ReturnCommand, TypeOK
<1>2. ASSUME run'[w].pc \in {"checked", "waiting"}
      PROVE  /\ run'[w].node = run[w].node
             /\ Present(run[w].node) /\ cmds[run[w].node].val = w
  <2>1. run[w] \in Call
    BY Zenon DEF TypeOK
  <2>2. CASE CheckCommand(w)
    <3>1. run'[w] = IF Present(run[w].node) /\ cmds[run[w].node].val = w
                    THEN [run[w] EXCEPT !.pc = "checked"]
                    ELSE [run[w] EXCEPT !.pc = "returned", !.ok = log[run[w].node].seq >= run[w].seq]
      BY <2>2, Zenon DEF CheckCommand, TypeOK
    <3> QED
      BY <1>2, <2>1, <3>1, Zenon DEF Call
  <2>3. CASE WaitCommand(w)
    <3>1. run[w].pc = "checked" /\ run'[w] = [run[w] EXCEPT !.pc = "waiting"]
      BY <2>3, Zenon DEF WaitCommand, TypeOK
    <3>2. Present(run[w].node) /\ cmds[run[w].node].val = w
      BY <3>1, AttendedCalls, Zenon DEF CallerInv, Attended
    <3> QED
      BY <2>1, <3>1, <3>2, Zenon DEF Call
  <2>4. CASE ReturnCommand(w)
    <3>1. run'[w].pc = "returned"
      BY <2>1, <2>4, Zenon DEF ReturnCommand, TypeOK, Call
    <3> QED
      BY <1>2, <3>1, Zenon
  <2> QED
    BY <2>2, <2>3, <2>4, Zenon DEF Caller
<1>3. ASSUME NEW v \in Values, run'[v].pc \in {"checked", "waiting"}
      PROVE  Attended(v)'
  <2>1. CASE v = w
    BY <1>1, <1>2, <1>3, <2>1, Zenon DEF Attended, Present
  <2>2. CASE v # w
    BY <1>1, <1>3, <2>2, AttendedCalls DEF CallerInv, Attended, Present
  <2> QED
    BY <2>1, <2>2, Zenon
<1> QED
  BY <1>1, <1>3, AttendedCallsNext, Zenon DEF CallerInv, CommitsEntries

(* The requests of the peers change an entry and leave its value. *)
LEMMA RequestCallers ==
  ASSUME TypeOK, CallerInv, NEW n \in Nodes, NEW m \in msgs,
         HandlePreAccept(n, m) \/ HandleAccept(n, m)
  PROVE  CallerInv'
<1>1. cmds[n] \in Cmd
  BY Fields, Zenon
<1>2. Present(n) => Present(n)' /\ cmds'[n].val = cmds[n].val
  <2> SUFFICES ASSUME Present(n) PROVE Present(n)' /\ cmds'[n].val = cmds[n].val
    BY Zenon
  <2>1. CASE HandlePreAccept(n, m)
    <3> DEFINE cmd == [cmds[n] EXCEPT !.ballot = m.ballot]
    <3>1. PICK s : cmds'[n] \in {[cmd EXCEPT !.status = "PRE_ACCEPTED", !.seq = s], cmd}
      BY <2>1, Zenon DEF HandlePreAccept, TypeOK
    <3>2. cmd.val = cmds[n].val /\ cmd.status = cmds[n].status
      BY <1>1, Zenon DEF Cmd
    <3>3. /\ [cmd EXCEPT !.status = "PRE_ACCEPTED", !.seq = s].val = cmds[n].val
          /\ [cmd EXCEPT !.status = "PRE_ACCEPTED", !.seq = s].status = "PRE_ACCEPTED"
      BY <1>1, Zenon DEF Cmd
    <3> QED
      BY <3>1, <3>2, <3>3, Zenon DEF Present
  <2>2. CASE HandleAccept(n, m)
    <3> DEFINE new == [cmds[n] EXCEPT !.seq = m.seq, !.ballot = m.ballot, !.status = "ACCEPTED"]
    <3>1. cmds'[n] \in {new, cmds[n]}
      BY <2>2, Zenon DEF HandleAccept, TypeOK
    <3>2. new.val = cmds[n].val /\ new.status = "ACCEPTED"
      BY <1>1, Zenon DEF Cmd
    <3> QED
      BY <3>1, <3>2, Zenon DEF Present
  <2> QED
    BY <2>1, <2>2, Zenon
<1>3. run' = run /\ committing' = committing
  BY Zenon DEF HandlePreAccept, HandleAccept
<1>4. \A p \in Nodes \ {n} : cmds'[p] = cmds[p]
  BY Zenon DEF HandlePreAccept, HandleAccept, TypeOK
<1> QED
  BY <1>2, <1>3, <1>4, EntriesKept, Zenon DEF Present

(* The answers of the peers: a vote, a new round, or a commit. *)
LEMMA ResponseCallers ==
  ASSUME TypeOK, CallerInv, NEW n \in Nodes, NEW m \in msgs,
         HandlePreAcceptResponse(n, m) \/ HandleAcceptResponse(n, m)
  PROVE  CallerInv'
<1>1. /\ LockFree(n) /\ committing[n].pc = "none" /\ Present(n)
  BY Zenon DEF HandlePreAcceptResponse, HandleAcceptResponse, ReceiveResponse, Receive,
     ResponseIgnored
<1>2. PICK cmd \in {PreAcceptVoted(n, m), AcceptVoted(n, m)} :
         \/ StartCommit(n, m, cmd)
         \/ cmds' = [cmds EXCEPT ![n] = cmd] /\ run' = run /\ committing' = committing
         \/ \E s : StartAccept(n, m, cmd, s)
  BY Zenon DEF HandlePreAcceptResponse, HandleAcceptResponse
<1>3. cmd.val = cmds[n].val /\ cmd.status = cmds[n].status /\ cmd \in Cmd
  <2>1. m \in Msg
    BY Zenon DEF TypeOK
  <2> QED
    BY <2>1, VotedKeeps, VotedType, Zenon
<1>4. CASE StartCommit(n, m, cmd)
  BY <1>1, <1>3, <1>4, CommitStarted, Zenon
<1>5. CASE cmds' = [cmds EXCEPT ![n] = cmd] /\ run' = run /\ committing' = committing
  <2>1. cmds'[n] = cmd /\ \A p \in Nodes \ {n} : cmds'[p] = cmds[p]
    BY <1>5, Zenon DEF TypeOK
  <2> QED
    BY <1>3, <1>5, <2>1, EntriesKept, Zenon DEF Present
<1>6. CASE \E s : StartAccept(n, m, cmd, s)
  <2>1. PICK s : StartAccept(n, m, cmd, s)
    BY <1>6, Zenon
  <2> DEFINE new == [cmd EXCEPT !.votes = << >>, !.max_seq = 0, !.seq = s,
                                !.ballot = ballot'[n], !.status = "ACCEPTED"]
  <2>2. new.val = cmds[n].val /\ new.status = "ACCEPTED"
    BY <1>3, Zenon DEF Cmd
  <2>3. cmds' = [cmds EXCEPT ![n] = new] /\ run' = run /\ committing' = committing
    BY <2>1, Zenon DEF StartAccept
  <2> HIDE DEF new
  <2>4. cmds'[n] = new /\ \A p \in Nodes \ {n} : cmds'[p] = cmds[p]
    BY <2>3, Zenon DEF TypeOK
  <2> QED
    BY <2>2, <2>3, <2>4, EntriesKept, Zenon DEF Present
<1> QED
  BY <1>2, <1>4, <1>5, <1>6, Zenon

LEMMA CommitterCallers ==
  ASSUME TypeOK, CallerInv, NEW n \in Nodes, Committer(n)
  PROVE  CallerInv'
<1>1. cmds' = cmds /\ committing[n].pc # "none"
  BY ZenonT(60) DEF Committer, CommitApply, CommitRecord
<1>2. CASE committing' = [committing EXCEPT ![n] = Idle] /\ run' = Destroyed(run, committing[n].cmd)
  <2>1. /\ committing'[n].pc = "none"
        /\ \A p \in Nodes \ {n} : committing'[p] = committing[p]
    BY <1>2, Zenon DEF TypeOK, Idle
  <2>2. \A v \in Values : run'[v] = Destroyed(run, committing[n].cmd)[v]
    BY <1>2, Zenon
  <2> QED
    BY <1>1, <2>1, <2>2, CommitDestroyed, Zenon
<1>3. CASE committing' = [committing EXCEPT ![n].pc = "record"] /\ run' = run
  <2>1. committing[n] \in [cmd : Cmd, pc : {"none", "apply", "record"}]
    BY Zenon DEF TypeOK, Committing
  <2>2. [committing[n] EXCEPT !.pc = "record"].cmd = committing[n].cmd
    BY <2>1, Zenon
  <2>3. [committing[n] EXCEPT !.pc = "record"].pc = "record"
    BY <2>1, Zenon
  <2>4. /\ committing'[n] = [committing[n] EXCEPT !.pc = "record"]
        /\ \A p \in Nodes \ {n} : committing'[p] = committing[p]
    BY <1>3, Zenon DEF TypeOK
  <2>5. \A p \in Nodes : /\ committing'[p].pc # "none" <=> committing[p].pc # "none"
                         /\ committing'[p].cmd = committing[p].cmd
    BY <1>1, <2>2, <2>3, <2>4, Zenon
  <2>6. \A v \in Values : run[v].node \in Nodes
    BY Zenon DEF TypeOK, Call
  <2> QED
    BY <1>1, <1>3, <2>5, <2>6 DEF CallerInv, CallerNotStranded, CommitsEntries, Present
<1> QED
  BY <1>2, <1>3, Zenon DEF Committer, CommitApply, CommitRecord

LEMMA CommitMessageCallers ==
  ASSUME TypeOK, CallerInv, NEW n \in Nodes, NEW m \in msgs, HandleCommit(n, m)
  PROVE  CallerInv'
<1>1. LockFree(n) /\ committing' = committing
  BY Zenon DEF HandleCommit, Receive
<1>2. CASE cmds' = cmds /\ run' = run
  BY <1>1, <1>2, EntriesKept, Zenon DEF Present
<1>3. CASE cmds' = [cmds EXCEPT ![n] = NoCmd] /\ run' = Destroyed(run, cmds[n])
  <2>1. \A p \in Nodes \ {n} : cmds'[p] = cmds[p]
    BY <1>3, Zenon DEF TypeOK
  <2>2. /\ \A v \in Values \ {} : run'[v] = Destroyed(run, cmds[n])[v]
        /\ \A v \in {} \cap Values : run'[v].pc = "sending"
    BY <1>3, Zenon
  <2> QED
    BY <1>1, <2>1, <2>2, EntryDestroyed, Zenon
<1> QED
  BY <1>2, <1>3, Zenon DEF HandleCommit

LEMMA RestartCallers ==
  ASSUME TypeOK, CallerInv, NEW n \in Nodes, Restart(n)
  PROVE  CallerInv'
<1>1. /\ committing'[n].pc = "none"
      /\ \A p \in Nodes \ {n} : committing'[p] = committing[p] /\ cmds'[p] = cmds[p]
  BY Zenon DEF Restart, TypeOK, Idle
<1>2. ASSUME NEW v \in Values, run'[v].pc \in {"checked", "waiting"}
      PROVE  Attended(v)'
  <2>1. run[v] \in Call
    BY Zenon DEF TypeOK
  <2>2. run'[v] = IF run[v].node = n /\ run[v].pc \notin {"idle", "returned"}
                  THEN [run[v] EXCEPT !.pc = "dead"] ELSE run[v]
    BY Zenon DEF Restart
  <2>3. run'[v] = run[v] /\ run[v].node # n /\ run[v].node \in Nodes
    BY <1>2, <2>1, <2>2, Zenon DEF Call
  <2> QED
    BY <1>1, <1>2, <2>3, AttendedCalls DEF CallerInv, Attended, Present
<1> QED
  BY <1>1, <1>2, AttendedCallsNext, Zenon DEF CallerInv, CommitsEntries

LEMMA NextCallers ==
  ASSUME "expire" \notin Faults, TypeOK, CallerInv, [Next]_vars
  PROVE  CallerInv'
<1>1. ASSUME NEW n \in Leaders, NEW v \in Values, RunCommand(n, v) PROVE CallerInv'
  BY <1>1, RunCommandCallers, LeadersAssumption, Zenon DEF Nodes
<1>2. ASSUME NEW n \in Nodes, Committer(n) \/ Expire(n) \/ Restart(n) PROVE CallerInv'
  BY <1>2, CommitterCallers, RestartCallers, Zenon DEF Expire
<1>3. ASSUME NEW m \in msgs, Handle(m.to, m) \/ UpdateBallotEarly(m.to, m) \/ Lose(m)
      PROVE  CallerInv'
  <2>1. m.to \in Nodes
    BY MsgFields, Zenon DEF TypeOK
  <2>2. \/ HandlePreAccept(m.to, m) \/ HandleAccept(m.to, m) \/ HandleCommit(m.to, m)
        \/ HandlePreAcceptResponse(m.to, m) \/ HandleAcceptResponse(m.to, m)
        \/ cmds' = cmds /\ committing' = committing /\ run' = run
    BY <1>3, Zenon DEF Handle, IgnorePreAccept, IgnoreAccept, IgnoreCommit, IgnoreResponse, Ignored,
       UpdateBallotEarly, Lose
  <2>3. CASE cmds' = cmds /\ committing' = committing /\ run' = run
    BY <2>3, EntriesKept, Zenon DEF Present
  <2> QED
    BY <2>1, <2>2, <2>3, RequestCallers, ResponseCallers, CommitMessageCallers, ZenonT(60)
<1>4. CASE UNCHANGED vars
  BY <1>4, EntriesKept, Zenon DEF Present, vars
<1> QED
  BY <1>1, <1>2, <1>3, <1>4, CallerCallers, Zenon DEF Next

(* As long as the expirer does not step in, a caller that waits has its command
   in the table or in kepaxos_commit, on every number of replicas and whatever is
   lost, crashes or fails: the thread that will wake it still exists. *)
THEOREM CallersAttended == ASSUME "expire" \notin Faults PROVE Spec => []CallerNotStranded
<1>1. Init => CallerInv
  BY DEF Init, CallerInv, CallerNotStranded, CommitsEntries, Idle
<1>2. TypeOK /\ CallerInv /\ [Next]_vars => CallerInv'
  BY NextCallers, Zenon
<1>3. CallerInv => CallerNotStranded
  BY Zenon DEF CallerInv
<1> QED
  BY <1>1, <1>2, <1>3, TypeCorrect, PTL DEF Spec
=============================================================================
