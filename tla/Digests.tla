------------------------------ MODULE Digests ------------------------------
(* The managers' digest (digest_engine.py) and the end-of-day report        *)
(* (eod_report.py) of one org on one day: rules name audiences, look-ups of *)
(* audiences may fail, each person gets the message of one rule, and each   *)
(* part of a message is committed on its own.                               *)
EXTENDS Integers, FiniteSets

CONSTANTS DigestRules,   \* [id, audience, scope, priority, send, due, users]
          Below,         \* [user -> users under them], as the org service says
          Parts2,        \* users whose list takes two messages
          DigestHours, QuietFrom, EodHour, MaxDigestFaults
\* A rule is known by its key.
ASSUME DigestAssumption ==
  /\ \A r \in DigestRules : r.priority \in Int /\ r.id \in Int
  /\ \A r, q \in DigestRules : r.id = q.id => r = q

VARIABLES hour, run,     \* the run under way: kind, recipients left, parts left
          log,           \* rows: kind, user, part, and the rule that made them
          failed,        \* some look-up has failed today
          died,          \* a run died between two parts
          digestFaults
digestVars == <<hour, run, log, failed, died, digestFaults>>

NoRun == [kind |-> "none", assigned |-> {}, user |-> "none", part |-> 0]

DigestInit ==
  /\ hour = CHOOSE h \in DigestHours : \A g \in DigestHours : h =< g
  /\ run = NoRun /\ log = {} /\ failed = FALSE /\ died = FALSE /\ digestFaults = 0

HourPasses ==
  /\ \E h \in DigestHours : h > hour /\ hour' = h
  /\ UNCHANGED <<run, log, failed, died, digestFaults>>

\* led_under_others: people with a team who sit in the team of another known person.
Leads(rules) ==
  LET known == UNION {r.users : r \in {q \in rules : q.audience # "admins"}} IN
  {u \in known : Below[u] # {} /\ \E v \in known \ {u} : u \in Below[v]}

Wins(r, q) == r.priority > q.priority \/ (r.priority = q.priority /\ r.id < q.id)

\* Whom a rule may serve: an administrators' rule passes over team leads.
Takes(r, rules) == IF r.audience = "admins" THEN r.users \ Leads(rules) ELSE r.users

\* assign_recipients: everybody goes to the highest rule that has them.
Assign(rules) ==
  UNION {{[user |-> u, rule |-> r] :
            u \in {v \in Takes(r, rules) : \A q \in rules : v \in Takes(q, rules) => ~Wins(q, r)}} :
         r \in rules}

\* Mutant: a key for each rule.
Key1OfRule(kind, rule, user) == <<kind, rule, user>>

\* The idempotency key has no rule in it.
Key1(kind, rule, user) == <<kind, user>>

Done(kind, a) == \E m \in log : m.part = 1 /\ Key1(m.kind, m.rule, m.user) = Key1(kind, a.rule, a.user)

\* Look up the audiences of these rules; each failed look-up drops its rule.
Start(kind, rules, ready) ==
  /\ run = NoRun
  /\ \E lost \in SUBSET rules :
       /\ digestFaults + Cardinality(lost) =< MaxDigestFaults
       /\ digestFaults' = digestFaults + Cardinality(lost)
       /\ failed' = (failed \/ lost # {})
       /\ LET todo == {a \in Assign(rules \ lost) : a.rule \in ready /\ ~Done(kind, a)} IN
          run' = IF todo = {} THEN NoRun ELSE [NoRun EXCEPT !.kind = kind, !.assigned = todo]
  /\ UNCHANGED <<hour, log, died>>

\* run_org_digests: rules due today, once one of them has reached its time.
DigestStart ==
  LET due == {r \in DigestRules : r.due} IN
  /\ hour < QuietFrom /\ \E r \in due : hour >= r.send
  /\ Start("digest", due, {r \in due : hour >= r.send})

\* run_org_eod: every active rule, due today or not.
EodStart == hour >= EodHour /\ Start("eod_report", DigestRules, DigestRules)

\* The next recipient; people with nothing to follow up get no message.
Recipient ==
  /\ run.kind # "none" /\ run.part = 0 /\ run.assigned # {}
  /\ \E a \in run.assigned : \E empty \in BOOLEAN :
       run' = IF empty THEN [run EXCEPT !.assigned = @ \ {a}]
              ELSE [run EXCEPT !.user = a.user, !.part = 1]
  /\ UNCHANGED <<hour, log, failed, died, digestFaults>>

\* One part: create_log ignores a key that exists; commit.
Part ==
  /\ run.part > 0
  /\ \E a \in {x \in run.assigned : x.user = run.user} :
       /\ log' = IF \E m \in log : m.part = run.part /\
                       Key1(m.kind, m.rule, m.user) = Key1(run.kind, a.rule, a.user) THEN log
                 ELSE log \cup {[kind |-> run.kind, user |-> a.user, part |-> run.part, rule |-> a.rule]}
       /\ run' = IF run.kind = "digest" /\ run.part = 1 /\ a.user \in Parts2
                 THEN [run EXCEPT !.part = 2]
                 ELSE [run EXCEPT !.assigned = @ \ {a}, !.user = "none", !.part = 0]
  /\ UNCHANGED <<hour, failed, died, digestFaults>>

RunEnds ==
  /\ run.kind # "none" /\ run.assigned = {}
  /\ run' = NoRun /\ UNCHANGED <<hour, log, failed, died, digestFaults>>

RunDies ==
  /\ run.kind # "none" /\ digestFaults < MaxDigestFaults
  /\ digestFaults' = digestFaults + 1
  /\ died' = (died \/ run.part = 2)
  /\ run' = NoRun /\ UNCHANGED <<hour, log, failed>>

DigestNext == HourPasses \/ DigestStart \/ EodStart \/ Recipient \/ Part \/ RunEnds \/ RunDies
DigestSpec == DigestInit /\ [][DigestNext]_digestVars
-----------------------------------------------------------------------------
Rows(kind, u) == {m \in log : m.kind = kind /\ m.user = u}

\* Although a failed look-up moves people to another rule and a later run may find
\* the first rule again, nobody gets two digests, or parts of two different ones, on
\* a day; and a digest is short of a part only while it is being sent or after a run
\* died between the parts.
OneDigestEach ==
  \A u \in DOMAIN Below, kind \in {"digest", "eod_report"} :
    /\ \A m, n \in Rows(kind, u) : m.rule = n.rule
    /\ kind = "digest" /\ u \in Parts2 /\ Rows(kind, u) # {} =>
         Cardinality(Rows(kind, u)) = 2 \/ died \/ run.user = u

\* An administrator who leads a team under somebody else is sent the whole org's digest
\* only if a look-up failed, as long as a rule that is due today knows the team.
LeadsGetTheirTeam ==
  \A m \in log :
    m.rule.audience = "admins" /\ m.user \in Leads({r \in DigestRules : r.due \/ m.kind = "eod_report"})
      => failed

\* One digest a person and day, and the right one.
DigestsExplained == OneDigestEach /\ LeadsGetTheirTeam

=============================================================================
