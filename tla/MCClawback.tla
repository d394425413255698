----------------------------- MODULE MCClawback ----------------------------
(***************************************************************************)
(* A finite instance of the clawback modules for TLC.  They share no        *)
(* state, so one run checks them side by side: `part`, chosen at the start, *)
(* names the one that moves.                                                *)
(***************************************************************************)
EXTENDS ClawbackCases, ClawbackChecks, RuleBook, Digests, TemplateLife

VARIABLE part

\* Rules and clawbacks of the cases: every frequency, window and anchor, dates that
\* hand over to the next anchor inside the days looked at, sparse working weeks.
SomeRule(f, a, s, e) ==
  [NoRule EXCEPT !.id = s, !.anchor = a, !.start = s, !.end = e, !.freq = f, !.n = 2,
                 !.days = {1, 5}, !.active = TRUE, !.checks = TRUE]
MCCaseRules == {SomeRule(f, a, s, e) : f \in Frequencies, a \in Anchors, s \in {0, 1, 3}, e \in {NoEnd, 3}}
MCCaseItems == {Item(0, j, c, p, "r1") : j \in {NoDay, 0, 5}, c \in {0, 9}, p \in {NoDay, 12}}
MCCaseWorkingDays == {{0, 1, 2, 3, 4}, {2}, {0, 5}}
MCCaseDays == 0 .. 21

\* A Monday (day 7) of two clawbacks.  Rule 1 falls due on Saturdays (day 5), so it is
\* caught up on Monday; after the completion date rule 2 applies, and is sent later.
MCRules == {[SomeRule("weekdays", "doj", 1, NoEnd) EXCEPT !.send = 10, !.days = {5}],
            [SomeRule("every_n_days", "cooling_end", 0, NoEnd) EXCEPT !.id = 2, !.send = 12, !.n = 1]}
MCClawbacks == <<"c1", "c2">>
MCFirstItem == [c1 |-> Item(0, 0, 90, NoDay, "r1"), c2 |-> Item(0, 0, 90, NoDay, "r1")]
MCLaterItems == [c1 |-> {Item(0, 0, 7, NoDay, "r1")},
                 c2 |-> {Item(0, 0, 90, NoDay, "none"), Item(0, 0, 0, NoDay, "r1")}]
MCWorkingDays == 0 .. 4

MCWindows == {<<1, 3>>, <<3, NoEnd>>}
MCDefaults == <<<<1, 3>>, <<4, NoEnd>>>>

\* A manager, a team lead under them who is an administrator, a clerk, and the owner.
MCDigestRules ==
  {[id |-> 1, audience |-> "team_managers", priority |-> 20, send |-> 10, due |-> TRUE, users |-> {"boss", "lead"}],
   [id |-> 2, audience |-> "users", priority |-> 10, send |-> 9, due |-> FALSE, users |-> {"lead", "clerk"}],
   [id |-> 3, audience |-> "admins", priority |-> 30, send |-> 9, due |-> TRUE, users |-> {"lead", "owner"}]}
MCBelow == [boss |-> {"lead", "clerk"}, lead |-> {"clerk"}, clerk |-> {}, owner |-> {}]

vars == <<casesVars, checksVars, bookVars, digestVars, tplVars, part>>

Init == /\ CasesInit /\ ChecksInit /\ BookInit /\ DigestInit /\ TplInit
        /\ part \in {"cases", "checks", "book", "digests", "templates"}

Cases == part = "cases" /\ CasesNext /\ UNCHANGED <<checksVars, bookVars, digestVars, tplVars, part>>
Checks == part = "checks" /\ ChecksNext /\ UNCHANGED <<casesVars, bookVars, digestVars, tplVars, part>>
Book == part = "book" /\ BookNext /\ UNCHANGED <<casesVars, checksVars, digestVars, tplVars, part>>
Digest == part = "digests" /\ DigestNext /\ UNCHANGED <<casesVars, checksVars, bookVars, tplVars, part>>
Templates == part = "templates" /\ TplNext /\ UNCHANGED <<casesVars, checksVars, bookVars, digestVars, part>>

Next == Cases \/ Checks \/ Book \/ Digest \/ Templates

Spec == Init /\ [][Next]_vars /\ (part = "checks" => ChecksFairness)
=============================================================================
