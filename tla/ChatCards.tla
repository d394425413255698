----------------------------- MODULE ChatCards -----------------------------
(* Polls and tasks inside a conversation (polls_api.py, tasks_api.py): one  *)
(* single-choice poll, and one task with its assignees.                     *)
EXTENDS Naturals, FiniteSets

CONSTANTS Voters, Options, MaxBallots, MaxMoves

VARIABLES poll,      \* [open, votes]: votes are the rows <<user, option>>
          ballots,   \* the requests to vote: id -> [pc, who, option, had]
          task,      \* [status, rows], rows: assignee -> "open" or "done"
          moves      \* how often the task was changed, at most MaxMoves
cardVars == <<poll, ballots, task, moves>>

BallotIds == 1..MaxBallots
NoBallot == [pc |-> "none"]

\* vote_on_poll up to its checks: the poll is open when it is loaded, the option is
\* the poll's.  It may be closed before the vote commits.
vote_on_poll(b, u, o) ==
  /\ ballots[b] = NoBallot /\ \A c \in BallotIds : c < b => ballots[c] # NoBallot
  /\ poll.open
  /\ ballots' = [ballots EXCEPT ![b] = [pc |-> "delete", who |-> u, option |-> o, had |-> {}]]
  /\ UNCHANGED <<poll, task, moves>>

\* Other transactions of the voter that have deleted and not committed: they hold
\* locks on the voter's rows, or on the gap where there are none.
Holders(b) == {c \in BallotIds \ {b} : ballots[c].pc = "insert" /\ ballots[c].who = ballots[b].who}

\* Mutant: only the vote for the option at hand is replaced.
ReplacedSame(votes, u, o) == {<<u, o>>} \cap votes
\* The voter's earlier rows, which the DELETE reads as committed.
Replaced(votes, u, o) == {v \in votes : v[1] = u}

\* The DELETE waits for whoever has deleted rows of the voter; gap locks do not
\* exclude each other.
DeleteVotes(b) ==
  /\ ballots[b].pc = "delete" /\ \A c \in Holders(b) : ballots[c].had = {}
  /\ ballots' = [ballots EXCEPT ![b].pc = "insert",
                   ![b].had = Replaced(poll.votes, ballots[b].who, ballots[b].option)]
  /\ UNCHANGED <<poll, task, moves>>

\* The INSERT waits for the gap locks of the others, then commits.
CommitVote(b) ==
  /\ ballots[b].pc = "insert" /\ Holders(b) = {}
  /\ poll' = [poll EXCEPT !.votes = (@ \ ballots[b].had) \cup {<<ballots[b].who, ballots[b].option>>}]
  /\ ballots' = [ballots EXCEPT ![b].pc = "done"] /\ UNCHANGED <<task, moves>>

\* A crash, or the victim of the deadlock of two that wait for each other's gap.
RollbackVote(b) ==
  /\ ballots[b].pc \in {"delete", "insert"}
  /\ ballots' = [ballots EXCEPT ![b].pc = "done"] /\ UNCHANGED <<poll, task, moves>>

close_poll ==
  /\ poll.open /\ poll' = [poll EXCEPT !.open = FALSE] /\ UNCHANGED <<ballots, task, moves>>
-----------------------------------------------------------------------------
\* The task: a request is one step, what goes wrong needs no interleaving.
Update(t) == /\ moves < MaxMoves /\ moves' = moves + 1 /\ task' = t /\ UNCHANGED <<poll, ballots>>

StillOpen == {u \in DOMAIN task.rows : task.rows[u] # "done"}

\* The session does not flush before the count (autoflush is off), so the count
\* sees the caller's own row as it was.
mark_my_assignee_done(u) ==
  /\ u \in DOMAIN task.rows
  /\ Update([task EXCEPT !.rows[u] = "done",
               !.status = IF StillOpen = {} /\ @ # "cancelled" THEN "done" ELSE @])

reopen_my_assignee(u) ==
  /\ u \in DOMAIN task.rows
  /\ Update([task EXCEPT !.rows[u] = "open", !.status = IF @ = "done" THEN "in_progress" ELSE @])

\* The creator or an administrator.
update_task_status(s) == Update([task EXCEPT !.status = s])

update_task_assignees(U) ==
  Update([task EXCEPT !.rows = [u \in U |-> IF u \in DOMAIN @ THEN @[u] ELSE "open"]])

\* create_task, with one assignee or more; and create_poll.
CardsInit ==
  /\ poll = [open |-> TRUE, votes |-> {}] /\ ballots = [b \in BallotIds |-> NoBallot]
  /\ \E U \in (SUBSET Voters) \ {{}} : task = [status |-> "open", rows |-> [u \in U |-> "open"]]
  /\ moves = 0

PollNext ==
  \/ \E b \in BallotIds : \/ DeleteVotes(b) \/ CommitVote(b) \/ RollbackVote(b)
                          \/ \E u \in Voters, o \in Options : vote_on_poll(b, u, o)
  \/ close_poll
TaskNext ==
  \/ \E u \in Voters : mark_my_assignee_done(u) \/ reopen_my_assignee(u)
  \/ \E s \in {"open", "in_progress", "done", "cancelled"} : update_task_status(s)
  \/ \E U \in SUBSET Voters : update_task_assignees(U)
CardsNext == PollNext \/ TaskNext
CardsSpec == CardsInit /\ [][CardsNext]_cardVars
-----------------------------------------------------------------------------
\* A voter has one vote in a single-choice poll, whatever requests of theirs overlap
\* (a double click, two devices): what keeps them apart is the database's locks.
SingleChoice == \A v, w \in poll.votes : v[1] = w[1] => v = w

\* "If every assignee is done, auto-flip the parent status": when the last assignee
\* marks their part as done, the task is done, unless it was cancelled.
DoneWithLastAssignee ==
  [][\A u \in DOMAIN task.rows \cap DOMAIN task'.rows :
       task.rows[u] = "open" /\ task'.rows[u] = "done"
         /\ (\A v \in DOMAIN task'.rows : task'.rows[v] = "done")
           => task'.status \in {"done", "cancelled"}]_cardVars
=============================================================================
