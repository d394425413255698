------------------------------ MODULE AiScope ------------------------------
(* The scope of an assistant's turn (ai_chat_layer/access_middleware.py):   *)
(* which jobs, candidates and companies its tools may show a recruiter.  It *)
(* is loaded from user_jobs_assigned when a turn begins, kept in Redis for  *)
(* _SCOPE_TTL seconds, and held unchanged for the whole turn, while the job *)
(* service goes on assigning and unassigning the recruiter.                 *)
EXTENDS Naturals, FiniteSets
CONSTANTS Jobs, Cands, Firms,
          AppliedTo,     \* [Cands -> SUBSET Jobs]: candidate_jobs
          FirmOf,        \* [Jobs -> Firms]: job_openings.company_id
          AskerRoles,    \* the roles the caller may have
          NoScope, ScopeTTL, LongestTurn
ASSUME AiScopeAssumption ==
  /\ AppliedTo \in [Cands -> SUBSET Jobs] /\ FirmOf \in [Jobs -> Firms]
  /\ NoScope \notin [all : BOOLEAN, jobs : SUBSET Jobs, cands : SUBSET Cands, firms : SUBSET Firms]
  /\ ScopeTTL \in Nat \ {0} /\ LongestTurn \in Nat
VARIABLES asker,         \* the caller's role
          myJobs,        \* the jobs assigned to the caller now
          keptFor,       \* ticks since each job was last assigned or unassigned
          scopeCache, scopeTtl,  \* ai:scope:<user> in Redis and its time to live
          scope, turnAge \* the CallerScope of the running turn
scopeVars == <<asker, myJobs, keptFor, scopeCache, scopeTtl, scope, turnAge>>
-----------------------------------------------------------------------------
Applicants(J) == {c \in Cands : AppliedTo[c] \cap J # {}}
FirmsOf(J) == {FirmOf[j] : j \in J}
_load_recruiter_scope(J) ==
  [all |-> FALSE, jobs |-> J, cands |-> Applicants(J), firms |-> FirmsOf(J)]
Unscoped == [all |-> TRUE, jobs |-> {}, cands |-> {}, firms |-> {}]

has_job(s, j) == s.all \/ j \in s.jobs
has_candidate(s, c) == s.all \/ c \in s.cands
has_company(s, f) == s.all \/ f \in s.firms
-----------------------------------------------------------------------------
\* The longest an answer can lag behind user_jobs_assigned.
Lag == ScopeTTL + LongestTurn
ScopeInit == /\ asker \in AskerRoles /\ myJobs = {} /\ keptFor = [j \in Jobs |-> Lag]
             /\ scopeCache = NoScope /\ scopeTtl = 0 /\ scope = NoScope /\ turnAge = 0

\* The job service assigns or unassigns the caller.
ChangeAssignment(j) == /\ myJobs' = IF j \in myJobs THEN myJobs \ {j} ELSE myJobs \cup {j}
                       /\ keptFor' = [keptFor EXCEPT ![j] = 0]
                       /\ UNCHANGED <<asker, scopeCache, scopeTtl, scope, turnAge>>

\* A cached scope serves as it is; without one, or when Redis does not answer,
\* it is loaded, and kept unless Redis refuses it.
\* Mutant: a hit renews the time to live.
ReusesAndRenews == scopeTtl > 0 /\ scope' = scopeCache /\ scopeTtl' = ScopeTTL /\ UNCHANGED scopeCache
Reuses == scopeTtl > 0 /\ scope' = scopeCache /\ UNCHANGED <<scopeCache, scopeTtl>>
Loads == /\ scope' = _load_recruiter_scope(myJobs)
         /\ \/ scopeCache' = scope' /\ scopeTtl' = ScopeTTL
            \/ UNCHANGED <<scopeCache, scopeTtl>>
apply_scope == /\ scope = NoScope /\ turnAge' = 0
               /\ \/ asker = "admin" /\ scope' = Unscoped /\ UNCHANGED <<scopeCache, scopeTtl>>
                  \/ asker # "admin" /\ (Reuses \/ Loads)
               /\ UNCHANGED <<asker, myJobs, keptFor>>
EndTurn == /\ scope # NoScope /\ scope' = NoScope /\ turnAge' = 0
           /\ UNCHANGED <<asker, myJobs, keptFor, scopeCache, scopeTtl>>

\* Time passes; a turn is over after LongestTurn.
Tick == /\ scope # NoScope => turnAge < LongestTurn
        /\ keptFor' = [j \in Jobs |-> IF keptFor[j] < Lag THEN keptFor[j] + 1 ELSE Lag]
        /\ scopeTtl' = IF scopeTtl = 0 THEN 0 ELSE scopeTtl - 1
        /\ scopeCache' = IF scopeTtl' = 0 THEN NoScope ELSE scopeCache
        /\ turnAge' = IF scope = NoScope THEN 0 ELSE turnAge + 1
        /\ UNCHANGED <<asker, myJobs, scope>>

ScopeNext == (\E j \in Jobs : ChangeAssignment(j)) \/ apply_scope \/ EndTurn \/ Tick
ScopeSpec == ScopeInit /\ [][ScopeNext]_scopeVars
-----------------------------------------------------------------------------
Scoped == scope # NoScope /\ ~scope.all
View == INSTANCE BoundedView WITH Things <- Jobs, Lag <- Lag, truth <- myJobs, age <- keptFor,
                                  view <- IF Scoped THEN {scope.jobs} ELSE {}
(* Through Redis, its expiry and a turn of any length up to LongestTurn, a  *)
(* recruiter's scope implements a view of the assignments that lags by less *)
(* than _SCOPE_TTL plus one turn.                                           *)
ScopeIsBoundedView == View!Spec
=============================================================================
