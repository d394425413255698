--------------------------- MODULE ClawbackRules ---------------------------
(* The pure half of src/app/whatsapp_layer/clawback_engine.py: which rule a *)
(* clawback is due on, on which day, at which time, and how the due          *)
(* clawbacks of a recruiter are grouped into messages.  Dates are integers   *)
(* (days), weekdays are d % 7 with 0 for Monday, times are hours.            *)
EXTENDS Integers, FiniteSets, Sequences

NoDay == -1
NoEnd == -1

Anchors == {"offer_accepted", "doj", "cooling_end"}
Frequencies == {"every_n_days", "specific_days", "weekly", "weekdays", "once"}

\* A rule row as the engine sees it; `days` holds the day numbers of
\* specific_days or the weekdays of weekdays, `n` the step of every_n_days.
NoRule == [id |-> 0, anchor |-> "doj", start |-> 0, end |-> NoEnd, freq |-> "once",
           n |-> 1, days |-> {}, send |-> 10, priority |-> 0, active |-> FALSE, checks |-> FALSE]

\* What validate_rule_fields lets through.
ValidRule(r) ==
  /\ r.anchor \in Anchors /\ r.freq \in Frequencies
  /\ r.start >= (IF r.anchor = "cooling_end" THEN 0 ELSE 1)
  /\ r.end # NoEnd => r.end >= r.start
  /\ r.freq = "every_n_days" => r.n >= 1
  /\ r.freq \in {"specific_days", "weekdays"} => r.days # {}

-----------------------------------------------------------------------------
(* Rules of one day *)

InWindow(r, n) == r.start =< n /\ (r.end = NoEnd \/ n =< r.end)

IsRuleDue(r, n, weekday) ==
  /\ InWindow(r, n)
  /\ \/ r.freq = "every_n_days" /\ (n - r.start) % (IF r.n > 1 THEN r.n ELSE 1) = 0
     \/ r.freq = "specific_days" /\ n \in r.days
     \/ r.freq = "weekly" /\ (n - r.start) % 7 = 0
     \/ r.freq = "weekdays" /\ weekday \in r.days
     \/ r.freq = "once" /\ n = r.start

\* Highest priority first, ties to the lowest id.
First(rules) ==
  IF rules = {} THEN NoRule
  ELSE CHOOSE r \in rules : \A q \in rules :
         r.priority > q.priority \/ (r.priority = q.priority /\ r.id =< q.id)

MatchRule(rules, anchor, n, weekday) ==
  First({r \in rules : r.active /\ r.anchor = anchor /\ IsRuleDue(r, n, weekday)})

\* Mutant: windows that share only their border days do not count.
WindowsOverlapStrict(a, b) ==
  /\ a.anchor = b.anchor
  /\ b.end = NoEnd \/ a.start < b.end
  /\ a.end = NoEnd \/ b.start < a.end

WindowsOverlap(a, b) ==
  /\ a.anchor = b.anchor
  /\ b.end = NoEnd \/ a.start =< b.end
  /\ a.end = NoEnd \/ b.start =< a.end

\* find_overlap: the active rules other than the candidate that share a day with it.
Overlapping(candidate, others) ==
  {o \in others : candidate.active /\ o.active /\ o.id # candidate.id
                    /\ WindowsOverlap(candidate, o)}

-----------------------------------------------------------------------------
(* Anchors of a clawback *)

\* A clawback as the job service reports it.
Item(offered, joined, cooling, completion, recruiter) ==
  [offered |-> offered, joined |-> joined, cooling |-> cooling,
   completion |-> completion, closed |-> FALSE, recruiter |-> recruiter]

CompletionDate(item) ==
  IF item.completion # NoDay THEN item.completion
  ELSE IF item.joined # NoDay /\ item.cooling > 0 THEN item.joined + item.cooling
  ELSE NoDay

DayNumber(anchor, today, from) ==
  IF anchor = "cooling_end" THEN today - from ELSE today - from + 1

NoAnchor == [anchor |-> "none", day |-> 0]
At(anchor, today, from) == [anchor |-> anchor, day |-> DayNumber(anchor, today, from)]

AnchorAndDay(item, today) ==
  LET completion == CompletionDate(item) IN
  CASE item.closed -> NoAnchor
    [] ~item.closed /\ item.joined = NoDay ->
         IF item.offered = NoDay \/ today < item.offered THEN NoAnchor
         ELSE At("offer_accepted", today, item.offered)
    [] ~item.closed /\ item.joined # NoDay ->
         IF today < item.joined THEN NoAnchor
         ELSE IF completion # NoDay /\ today >= completion
              THEN At("cooling_end", today, completion)
              ELSE At("doj", today, item.joined)

\* match_rule for the anchor of the day itself.
RuleOfDay(rules, item, d) ==
  LET a == AnchorAndDay(item, d) IN
  IF a = NoAnchor THEN NoRule ELSE MatchRule(rules, a.anchor, a.day, d % 7)

IsWorkingDay(d, workingDays) == (d % 7) \in workingDays

\* Mutant: one day too few.
LookBackSix == 0 .. 5

\* How far the loop of rule_due looks back: over the non-working days before d.
LookBack == 0 .. 6

Gap(d, workingDays) == {k \in LookBack : \A j \in 1 .. k : ~IsWorkingDay(d - j, workingDays)}

\* rule_due: today's rule, or the latest one of the non-working days before.
RuleDue(rules, item, today, workingDays) ==
  LET hits == {k \in Gap(today, workingDays) : RuleOfDay(rules, item, today - k) # NoRule} IN
  IF ~IsWorkingDay(today, workingDays) \/ hits = {} THEN NoRule
  ELSE RuleOfDay(rules, item, today - (CHOOSE k \in hits : \A j \in hits : k =< j))

-----------------------------------------------------------------------------
(* Times and messages *)

InQuietHours(t, start, end) ==
  IF start < end THEN start =< t /\ t < end
  ELSE start # end /\ (t >= start \/ t < end)

\* The elements of s at the indices I, in their order.
Nth(I, k) == CHOOSE i \in I : Cardinality({j \in I : j < i}) = k - 1
Pick(s, I) == [k \in 1 .. Cardinality(I) |-> s[Nth(I, k)]]

\* The list of a recruiter cut into messages of at most `size` entries.
Parts(entries, size) ==
  [p \in 1 .. (Len(entries) + size - 1) \div size |->
     SubSeq(entries, (p - 1) * size + 1, IF p * size < Len(entries) THEN p * size ELSE Len(entries))]
=============================================================================
