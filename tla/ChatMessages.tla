---------------------------- MODULE ChatMessages ---------------------------
(* The messages of one conversation and what its members have read of them: *)
(* sending, forwarding, the bot's reply, deleting, marking as read.  The    *)
(* database hands out a message's id when the row is inserted, the others   *)
(* see the row when its request commits.                                    *)
EXTENDS Naturals, FiniteSets

CONSTANTS Readers,    \* the members of the conversation
          Helper,     \* the status bot, a member of none
          MaxMessages
ASSUME MessagesAssumption == MaxMessages \in Nat /\ Helper \notin Readers

VARIABLES posts,      \* id -> [st, by], a "draft" until committed
          sending,    \* what each author's request is doing
          mark,       \* last_read_message_id of each member
          page        \* the messages each member's client has fetched
chatVars == <<posts, sending, mark, page>>

Ids == 1..MaxMessages
NotSending == [pc |-> "idle"]

Visible == {m \in Ids : posts[m].st \in {"sent", "deleted"}}
Kept(m) == posts[m].st = "sent"
Unused == {m \in Ids : posts[m].st = "none"}
LeastOf(S) == CHOOSE m \in S : \A n \in S : m <= n

\* Mutant: the message after the mark is taken for read as well.
unread_count_off(u) == {m \in Ids : Kept(m) /\ posts[m].by # u /\ m > mark[u] + 1}

\* unread_count_for_user counts the messages of others above one's mark.
unread_count_for_user(u) == {m \in Ids : Kept(m) /\ posts[m].by # u /\ m > mark[u]}

\* create_message up to its flush: the id is taken, nobody else sees the row.
create_message(u, author, then) ==
  /\ Unused # {}
  /\ posts' = [posts EXCEPT ![LeastOf(Unused)] = [st |-> "draft", by |-> author]]
  /\ sending' = [sending EXCEPT ![u] = [pc |-> "commit", msg |-> LeastOf(Unused), then |-> then]]
  /\ UNCHANGED <<mark, page>>

send_message(u) == sending[u] = NotSending /\ \E then \in {"done", "status"} : create_message(u, u, then)

\* A copy of a message that was not deleted when the request looked at it.
forward_message(u) ==
  sending[u] = NotSending /\ (\E m \in Visible : Kept(m)) /\ create_message(u, u, "done")

\* The commit; "/status" makes the bot post next, in the same request.
CommitMessage(u) ==
  /\ sending[u].pc = "commit"
  /\ posts' = [posts EXCEPT ![sending[u].msg].st = "sent"]
  /\ sending' = [sending EXCEPT ![u] = IF sending[u].then = "status" THEN [pc |-> "status"] ELSE NotSending]
  /\ UNCHANGED <<mark, page>>

maybe_post_status_bot_reply(u) == sending[u].pc = "status" /\ create_message(u, Helper, "done")

\* A request that ends early: its row is rolled back, the id is not used again.
Abandon(u) ==
  /\ sending[u] # NotSending
  /\ posts' = IF sending[u].pc = "commit"
              THEN [posts EXCEPT ![sending[u].msg].st = "gone"] ELSE posts
  /\ sending' = [sending EXCEPT ![u] = NotSending]
  /\ UNCHANGED <<mark, page>>

\* The client fetches the messages, deleted ones as "[message deleted]".
list_messages(u) ==
  /\ page' = [page EXCEPT ![u] = Visible] /\ page' # page /\ UNCHANGED <<posts, sending, mark>>

\* update_last_read: one guarded UPDATE, so the mark never goes back.
update_last_read(u, m) == mark' = [mark EXCEPT ![u] = IF m > @ THEN m ELSE @]

\* mark_message_read, each message of the bulk request and the socket's mark_read,
\* for a message the client has.
mark_one_read(u, m) ==
  /\ m \in page[u] /\ update_last_read(u, m) /\ UNCHANGED <<posts, sending, page>>

delete_message(m) ==
  /\ m \in Visible /\ posts' = [posts EXCEPT ![m].st = "deleted"]
  /\ UNCHANGED <<sending, mark, page>>

ChatInit ==
  /\ posts = [m \in Ids |-> [st |-> "none", by |-> Helper]]
  /\ sending = [u \in Readers |-> NotSending]
  /\ mark = [u \in Readers |-> 0] /\ page = [u \in Readers |-> {}]

ChatNext ==
  \/ \E u \in Readers : \/ send_message(u) \/ forward_message(u) \/ CommitMessage(u)
                        \/ maybe_post_status_bot_reply(u) \/ Abandon(u) \/ list_messages(u)
  \/ \E u \in Readers, m \in Ids : mark_one_read(u, m)
  \/ \E m \in Ids : delete_message(m)

ChatSpec == ChatInit /\ [][ChatNext]_chatVars
-----------------------------------------------------------------------------
\* A message that appears counts as unread for every member but its author, unless
\* the member's client has fetched and marked one with a higher id, which was
\* inserted later and committed first.
NewIsUnread ==
  [][\A m \in Ids \ Visible : m \in Visible' =>
       \A u \in Readers \ {posts[m].by} :
         m \in unread_count_for_user(u)' \/ \E n \in page[u] : n > m /\ mark[u] >= n]_chatVars
=============================================================================
