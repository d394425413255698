------------------------------- MODULE MCMail -------------------------------
(* The outbox and the mirror of a mailbox on small instances.  They do not  *)
(* share state: a behaviour is one of one part, chosen at the start.        *)
EXTENDS MailOutbox, MailSync
CONSTANTS m1, m2
VARIABLE part
\* Request threads are interchangeable.
Symmetry == Permutations(Requests)
\* m1 is filed and then marked as read; the rule after that one is not reached.
Rule(S, acts, stop) == [match |-> S, actions |-> acts, stop |-> stop]
Filing == <<Rule({m1}, <<"work", "mark_read">>, TRUE), Rule({m1}, <<"delete">>, FALSE)>>
Case(mails, rules, passes, server, handled, breaks, own) ==
  [box |-> mails, rules |-> rules, passes |-> passes, server |-> server,
   handled |-> handled, breaks |-> breaks, own |-> own]
\* A renumbering; a folder deleted with its uids; a rescan, and passes that overlap; a
\* mail without Message-ID and a pass that fails; handlers; an own mail that is moved; a
\* renumbering between two passes that overlap.
MCCases == {Case([inbox |-> <<m1>>], <<>>, 2, 3, 0, 0, 0),
            Case([work |-> <<m1>>], <<>>, 2, 2, 1, 0, 0),
            Case([inbox |-> <<m1>>], Filing, 3, 1, 1, 0, 0),
            Case([inbox |-> <<Gone, m2>>], Filing, 2, 2, 0, 1, 0),
            Case([inbox |-> <<m1, m2>>], Filing, 1, 0, 2, 0, 0),
            Case([inbox |-> <<m1, m2>>, sent |-> <<Gone>>], <<>>, 2, 0, 1, 0, 1),
            Case([inbox |-> <<Gone>>], <<>>, 3, 2, 0, 0, 0)}
MailInit == Init /\ SyncInit /\ part \in {"outbox", "mirror"} /\ (part = "outbox" => case.own = 1)
MailNext == \/ part = "outbox" /\ Next /\ UNCHANGED <<syncVars, part>>
            \/ part = "mirror" /\ SyncNext /\ UNCHANGED <<vars, part>>
MailSpec == MailInit /\ [][MailNext]_<<vars, syncVars, part>>
=============================================================================
