--------------------------- MODULE ClawbackCases ---------------------------
(* The rule functions of ClawbackRules against reference definitions: one   *)
(* step picks two rules, or a rule, a clawback and the working days, and    *)
(* the properties compare what the functions say of every day near them.    *)
EXTENDS ClawbackRules

CONSTANTS CaseRules,       \* rules as the administrator may enter them
          CaseItems,       \* clawbacks as the job service may report them
          CaseWorkingDays, \* sets of working weekdays
          CaseDays         \* the days looked at
CaseNumbers == 0 .. 40     \* a bound: the day numbers on which windows begin
ASSUME CasesAssumption ==
  /\ CaseDays \subseteq Int
  /\ \A r \in CaseRules : r.start \in CaseNumbers /\ r.end \in Int

VARIABLE case
casesVars == <<case>>

CasesInit == case = <<>>

PickRules ==
  /\ case = <<>>
  /\ \E a, b \in {r \in CaseRules : ValidRule(r)} :
       case' = [kind |-> "rules", a |-> a, b |-> b]

PickSchedule ==
  /\ case = <<>>
  /\ \E r \in {r \in CaseRules : ValidRule(r)}, i \in CaseItems, w \in CaseWorkingDays :
       case' = [kind |-> "schedule", rule |-> r, item |-> i, working |-> w]

CasesNext == PickRules \/ PickSchedule
CasesSpec == CasesInit /\ [][CasesNext]_casesVars

IsCase(kind) == case # <<>> /\ case.kind = kind
-----------------------------------------------------------------------------
\* The loop of rule_due looks back seven days.  That is far enough for every
\* working week: a clawback is due on a working day exactly when a rule matched
\* on that day or on a day since the last working day, and no matched day is lost.
CatchUpComplete ==
  IsCase("schedule") =>
    \A d \in CaseDays :
      (RuleDue({case.rule}, case.item, d, case.working) # NoRule)
        <=> /\ IsWorkingDay(d, case.working)
            /\ \E x \in d - 20 .. d :
                 /\ RuleOfDay({case.rule}, case.item, x) # NoRule
                 /\ \A y \in x .. d - 1 : ~IsWorkingDay(y, case.working)

\* The overlap check refuses two rules exactly when some day number lies in both
\* windows of one anchor: adjacent windows and open ends are where it could be wrong.
OverlapExact ==
  IsCase("rules") =>
    ((case.a.anchor = case.b.anchor /\ \E n \in CaseNumbers : InWindow(case.a, n) /\ InWindow(case.b, n))
      <=> WindowsOverlap(case.a, case.b))
=============================================================================
