------------------------------ MODULE AiQuota ------------------------------
(* The token quota of one user (ai_chat_layer/quota.py) under the turns     *)
(* that user runs at once, in several tabs or by a schedule: a turn is      *)
(* admitted on an estimate, and debited after its reply with what the model *)
(* used.  Reads and writes of the row are apart: the session reads the row  *)
(* and later writes absolute values.                                        *)
EXTENDS Integers, FiniteSets
CONSTANTS Asks,                 \* the threads that use the row, one turn or request at a time each
          Estimate, Costs,      \* estimate_tokens + 256; what a turn may use
          Limits, MonthLimits,  \* the daily and monthly limits a super admin may set
          LastDate,             \* a bound on the days
          MaxSpent              \* a bound: no turn begins once so much was debited
\* A turn within the estimate is possible, and what a turn may use is bounded.
ASSUME QuotaAssumption ==
  /\ IsFiniteSet(Asks) /\ Estimate \in Nat /\ Costs \subseteq Nat \ {0}
  /\ Limits \subseteq Nat /\ MonthLimits \subseteq Nat
  /\ \E n \in Costs : \A m \in Costs : m <= n
  /\ \A S \in {Limits, MonthLimits} : \E n \in S : n >= Estimate /\ \A m \in S : m <= n
VARIABLES row,                  \* ai_token_quota, and whether it is there yet (made)
          date, month,
          ask,                  \* where each turn or request is
          copy,                 \* the row as its session last read it
          spentToday, spentMonth, spent,  \* tokens debited since midnight, this month, in all
          raced                 \* an old copy has written what the row it met would not have
quotaVars == <<row, date, month, ask, copy, spentToday, spentMonth, spent, raced>>
debits == <<spentToday, spentMonth, spent>>
-----------------------------------------------------------------------------
QuotaInit ==
  /\ \E made \in BOOLEAN, l \in Limits, m \in MonthLimits :
       row = [made |-> made, used_today |-> 0, used_month |-> 0, day_anchor |-> 1,
              month_anchor |-> 1, daily_limit |-> l, monthly_limit |-> m]
  /\ date = 1 /\ month = 1
  /\ ask = [t \in Asks |-> "over"] /\ copy = [t \in Asks |-> row]
  /\ spentToday = 0 /\ spentMonth = 0 /\ spent = 0 /\ raced = FALSE

\* A commit of t, and the same with a copy that is not old.
Writes(now, fresh) == row' = now /\ raced' = (raced \/ now # fresh)

\* _ensure_row begins with a read, and so do all who use the row.
Reads(t, to) == /\ ask' = [ask EXCEPT ![t] = to] /\ copy' = [copy EXCEPT ![t] = row]
                /\ UNCHANGED <<row, date, month, debits, raced>>

\* Of two who find no row the second violates the primary key.
Create(t) ==
  /\ ask[t] = "read" /\ ~copy[t].made
  /\ row' = [row EXCEPT !.made = TRUE, !.day_anchor = IF row.made THEN @ ELSE date,
                        !.month_anchor = IF row.made THEN @ ELSE month]
  /\ copy' = [copy EXCEPT ![t] = row']
  /\ ask' = [ask EXCEPT ![t] = IF row.made THEN "over" ELSE @]
  /\ UNCHANGED <<date, month, debits, raced>>

\* Mutant: the counters are not reset.
NewAnchorsOnly(c, r) == [r EXCEPT !.day_anchor = date, !.month_anchor = month]
\* The rollovers, of the copy c over the row r: a counter that is zero in the copy
\* is not written.
RolledOver(c, r) ==
  [r EXCEPT !.used_today   = IF c.day_anchor # date /\ c.used_today # 0 THEN 0 ELSE @,
            !.day_anchor   = IF c.day_anchor # date THEN date ELSE @,
            !.used_month   = IF c.month_anchor # month /\ c.used_month # 0 THEN 0 ELSE @,
            !.month_anchor = IF c.month_anchor # month THEN month ELSE @]
Stale(t) == copy[t].day_anchor # date \/ copy[t].month_anchor # month
_ensure_row(t) == /\ ask[t] \in {"read", "replied"} /\ copy[t].made /\ Stale(t)
                  /\ Writes(RolledOver(copy[t], row), RolledOver(row, row))
                  /\ copy' = [copy EXCEPT ![t] = row']
                  /\ UNCHANGED <<date, month, ask, debits>>
Ensured(t) == copy[t].made /\ ~Stale(t)

Exceeds(r) == \/ r.used_today + Estimate > r.daily_limit
              \/ r.used_month + Estimate > r.monthly_limit
check(t) == /\ ask[t] = "read" /\ Ensured(t)
            /\ ask' = [ask EXCEPT ![t] = IF Exceeds(copy[t]) THEN "over" ELSE "running"]
            /\ UNCHANGED <<row, date, month, copy, debits, raced>>
\* Only the two counters are written, as the copy's plus the turn's tokens.
Debited(c, r, tokens) == [r EXCEPT !.used_today = c.used_today + tokens,
                                   !.used_month = c.used_month + tokens]
commit(t, tokens) ==
  /\ ask[t] = "replied" /\ Ensured(t)
  /\ Writes(Debited(copy[t], row, tokens), Debited(row, row, tokens))
  /\ ask' = [ask EXCEPT ![t] = "over"]
  /\ spentToday' = spentToday + tokens /\ spentMonth' = spentMonth + tokens
  /\ spent' = spent + tokens
  /\ UNCHANGED <<date, month, copy>>
\* The limits are written alone.
set_limits(t, l, m) ==
  /\ ask[t] = "read" /\ Ensured(t)
  /\ row' = [row EXCEPT !.daily_limit = l, !.monthly_limit = m]
  /\ ask' = [ask EXCEPT ![t] = "over"]
  /\ UNCHANGED <<date, month, copy, debits, raced>>
status_for(t) == /\ ask[t] = "read" /\ Ensured(t) /\ ask' = [ask EXCEPT ![t] = "over"]
                 /\ UNCHANGED <<row, date, month, copy, debits, raced>>

\* A new turn or request reads the row; the reply of a running turn starts a new snapshot.
Ask(t) == ask[t] = "over" /\ spent < MaxSpent /\ Reads(t, "read")
Reply(t) == ask[t] = "running" /\ Reads(t, "replied")
\* The thread of a turn dies with its process, before or after the reply; or the
\* model was never reached and there is nothing to debit.
Dies(t) == /\ ask[t] \in {"running", "replied"} /\ ask' = [ask EXCEPT ![t] = "over"]
           /\ UNCHANGED <<row, date, month, copy, debits, raced>>
\* Some midnights begin a month.
Midnight == /\ date < LastDate /\ date' = date + 1 /\ spentToday' = 0
            /\ \/ month' = month + 1 /\ spentMonth' = 0
               \/ UNCHANGED <<month, spentMonth>>
            /\ UNCHANGED <<row, ask, copy, spent, raced>>

QuotaNext == \/ \E t \in Asks : \/ Ask(t) \/ Create(t) \/ _ensure_row(t) \/ check(t)
                                \/ status_for(t) \/ Reply(t) \/ Dies(t)
             \/ \E t \in Asks, tokens \in Costs : commit(t, tokens)
             \/ \E t \in Asks, l \in Limits, m \in MonthLimits : set_limits(t, l, m)
             \/ Midnight

QuotaSpec == QuotaInit /\ [][QuotaNext]_quotaVars
-----------------------------------------------------------------------------
Largest(S) == CHOOSE n \in S : \A m \in S : m <= n
\* What the turns of the moment may use beyond the estimate that one was admitted on.
AtMost(limit) == limit - Estimate + Cardinality(Asks) * Largest(Costs)
(* As long as no turn writes from a copy that another write has made old,   *)
(* the counters are exact over midnight and the end of a month, and pass    *)
(* the highest limits at most by what the user's turns of the moment use    *)
(* beyond the estimate of one.  An old copy makes up no token: the month's  *)
(* counter is never more than what was ever debited.                        *)
QuotaExplained ==
  /\ row.used_month <= spent
  /\ ~raced => /\ row.day_anchor = date => row.used_today = spentToday
               /\ row.month_anchor = month => row.used_month = spentMonth
               /\ row.used_today <= AtMost(Largest(Limits))
               /\ row.used_month <= AtMost(Largest(MonthLimits))
=============================================================================
