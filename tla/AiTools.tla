------------------------------ MODULE AiTools ------------------------------
(* What each data tool of the assistant shows (ai_chat_layer/tools/         *)
(* data_tools.py and comparison_tools.py): the set of jobs, candidates and  *)
(* companies its answer names or counts, from the scope s of the turn and   *)
(* the tool's argument.  Optional filters (dates, status, location, limits) *)
(* only leave rows out; a refused request shows nothing.                    *)
EXTENDS AiScope
CONSTANTS Pipes, PipeOf,         \* [Jobs -> Pipes]: job_openings.pipeline_id
          Squads, MySquads,      \* teams, and those the caller is a member of
          MatesJobs,             \* [Squads -> SUBSET Jobs]: jobs of the other members
          SquadJobs              \* [Squads -> SUBSET Jobs]: job_team_assignments
-----------------------------------------------------------------------------
If(allowed, shown) == IF allowed THEN shown ELSE {}

\* A query's lists must be just those it expands.  search_entities expands the jobs
\* and the candidates for either of its scoped queries, the global funnel none: with
\* jobs in scope both answer with an error.
ListsBind(s) == s.all \/ s.jobs = {}

_scope_job_filter(s) == IF s.all THEN Jobs ELSE s.jobs
_scope_candidate_filter(s) == IF s.all THEN Cands ELSE s.cands
WithFirms(J) == J \cup FirmsOf(J)

\* Jobs
_list_jobs(s) == WithFirms(_scope_job_filter(s))
_company_jobs(s, f) == WithFirms({j \in _scope_job_filter(s) : FirmOf[j] = f})
\* Mutant: the job is not looked for in the scope.
JobDetailUnchecked(s, j) == WithFirms({j})
_job_detail(s, j) == If(has_job(s, j), WithFirms({j}))
_pipeline_status_for_job(s, j) == If(has_job(s, j), {j} \cup Applicants({j}))
_pipeline_stages_for_job(s, j) == If(has_job(s, j), {j})
_users_for_job(s, j) == If(has_job(s, j), {j})
_count_candidates_by_stage(s, J) == LET K == _scope_job_filter(s) \cap J IN K \cup Applicants(K)
_company_jobs_summary(s) == FirmsOf(_scope_job_filter(s))
_company_detail(s, f) == If(has_company(s, f), {f})

\* Candidates; a candidate's rows name every job the candidate applied to.
_candidate_detail(s, c) == If(has_candidate(s, c), {c} \cup WithFirms(AppliedTo[c]))
_candidate_stage_history(s, c) == If(has_candidate(s, c), {c} \cup WithFirms(AppliedTo[c]))
_candidate_resume_detail(s, c) == If(has_candidate(s, c), {c})
_candidate_activity_timeline(s, c) == If(has_candidate(s, c), {c})
_list_candidates(s) == LET C == _scope_candidate_filter(s) IN C \cup UNION {AppliedTo[c] : c \in C}
ListCandidatesOf(s, j) ==
  If(has_job(s, j), LET C == _scope_candidate_filter(s) \cap Applicants({j})
                    IN C \cup If(C # {}, {j}))
_latest_resumes(s) == _scope_candidate_filter(s)
LatestResumesOf(s, j) == If(has_job(s, j), _scope_candidate_filter(s) \cap Applicants({j}))

\* The funnel of jobs J: its sample names each candidate with the job.
FunnelOf(J) == Applicants(J) \cup {j \in J : Applicants({j}) # {}}
JobsOfFirm(f) == {j \in Jobs : FirmOf[j] = f}
TeamJobs(t) == MatesJobs[t] \cup If(t \in MySquads, myJobs)
_pipeline_funnel(s, kind, x) ==
  CASE kind = "job" -> If(has_job(s, x), {x} \cup FunnelOf({x}))
    [] kind = "company" -> If(has_company(s, x), {x} \cup FunnelOf(JobsOfFirm(x)))
    [] kind = "user" -> FunnelOf(myJobs)      \* the caller's own: others are refused
    [] kind = "team" -> FunnelOf(TeamJobs(x))
    [] OTHER -> If(ListsBind(s), FunnelOf(_scope_job_filter(s)))
_company_performance(s, f) == _pipeline_funnel(s, "company", f)
_team_performance(s, t) == _pipeline_funnel(s, "team", t)

\* The caller's own record and metrics; of others they are refused.
_recruiter_metrics(s) == myJobs \cup Applicants(myJobs)
_user_detail(s) == WithFirms(myJobs)
_user_sourcing(s) == FunnelOf(myJobs)

\* Pipelines and teams
UsesPipe(s, p) == s.all \/ \E j \in s.jobs : PipeOf[j] = p
JobsOnPipe(p) == {j \in Jobs : PipeOf[j] = p}
_list_pipelines(s) == {p \in Pipes : UsesPipe(s, p)}
_pipeline_detail(s, p) == If(UsesPipe(s, p), WithFirms(JobsOnPipe(p)))
MayCompare(s, t) == s.all \/ t \in MySquads
_list_teams(s) == {t \in Squads : MayCompare(s, t)}
_team_detail(s, t) == WithFirms(SquadJobs[t])
_compare_teams(s, T) == UNION {_pipeline_funnel(s, "team", t) : t \in {u \in T : MayCompare(s, u)}}

\* Comparisons skip what the scope refuses.
_compare_jobs(s, J) ==
  UNION {_job_detail(s, j) \cup _pipeline_funnel(s, "job", j) : j \in {k \in J : has_job(s, k)}}
_compare_companies(s, F) ==
  UNION {_company_detail(s, f) \cup _pipeline_funnel(s, "company", f) : f \in {g \in F : has_company(s, g)}}
_compare_candidates(s, C) == UNION {_candidate_detail(s, c) : c \in {d \in C : has_candidate(s, d)}}

\* The feed of candidate_activity rows of one candidate, job, company, team,
\* of the caller, or of the scope.
_recent_activity_feed(s, kind, x) ==
  CASE kind = "candidate" -> If(has_candidate(s, x), {x})
    [] kind = "job" -> If(has_job(s, x), Applicants({x}))
    [] kind = "company" -> If(has_company(s, x), Applicants(JobsOfFirm(x)))
    [] kind = "recruiter" -> Applicants(myJobs)
    [] kind = "team" -> If(MayCompare(s, x), Applicants(TeamJobs(x)))
    [] OTHER -> _scope_candidate_filter(s)

\* search_entities: what matches a query (companies, of any name, left out).
_search_entities(s, match) ==
  If(ListsBind(s), match \cap (_scope_job_filter(s) \cup _scope_candidate_filter(s)
                               \cup _list_pipelines(s) \cup _list_teams(s)))
-----------------------------------------------------------------------------
\* The answers a turn can give, by how far they may reach from the scope.
AboutScope(s) ==
  _list_jobs(s) \cup _company_jobs_summary(s) \cup _latest_resumes(s)
  \cup _count_candidates_by_stage(s, Jobs)
  \cup _pipeline_funnel(s, "global", NoScope) \cup _recent_activity_feed(s, "global", NoScope)
  \cup (UNION {_job_detail(s, j) \cup _pipeline_status_for_job(s, j) \cup _users_for_job(s, j)
              \cup _pipeline_stages_for_job(s, j) \cup ListCandidatesOf(s, j) \cup LatestResumesOf(s, j)
              \cup _recent_activity_feed(s, "job", j) : j \in Jobs})
  \cup (UNION {_candidate_resume_detail(s, c) \cup _candidate_activity_timeline(s, c)
              \cup _recent_activity_feed(s, "candidate", c) : c \in Cands})
  \cup (UNION {_company_detail(s, f) \cup _company_jobs(s, f) : f \in Firms})
  \cup _compare_jobs(s, Jobs)
AboutCandidates(s) == _list_candidates(s) \cup _compare_candidates(s, Cands)
                      \cup UNION {_candidate_stage_history(s, c) : c \in Cands}
AboutCompanies(s) == _compare_companies(s, Firms)
  \cup UNION {_company_performance(s, f) \cup _recent_activity_feed(s, "company", f) : f \in Firms}
AboutMe(s) == _recruiter_metrics(s) \cup _user_detail(s) \cup _user_sourcing(s)
  \cup _pipeline_funnel(s, "user", NoScope) \cup _recent_activity_feed(s, "recruiter", NoScope)
AboutTeams(s) == _list_teams(s) \cup _compare_teams(s, Squads)
  \cup UNION {_recent_activity_feed(s, "team", t) : t \in Squads}
\* These two answer for any team.
AboutAnyTeam(s) == UNION {_team_detail(s, t) \cup _team_performance(s, t) : t \in Squads}
AboutPipes(s) == _list_pipelines(s) \cup UNION {_pipeline_detail(s, p) : p \in Pipes}

AboutSearch(s) == _search_entities(s, Jobs \cup Cands \cup Pipes \cup Squads)

\* What jobs J tie the caller to, and what those lead to.
TiedTo(J) == WithFirms(J) \cup Applicants(J)
LedByCandidates(J) == TiedTo(J) \cup WithFirms(UNION {AppliedTo[c] : c \in Applicants(J)})
LedByCompanies(J) == TiedTo({j \in Jobs : FirmOf[j] \in FirmsOf(J)})
LedByPipes(J) == {PipeOf[j] : j \in J} \cup WithFirms({j \in Jobs : \E k \in J : PipeOf[j] = PipeOf[k]})
LedByTeams == UNION {{t} \cup TiedTo(TeamJobs(t)) : t \in MySquads}
LedByAnyTeam == UNION {TiedTo(TeamJobs(t) \cup SquadJobs[t]) : t \in Squads}
Lately == {j \in Jobs : j \in myJobs \/ keptFor[j] < Lag}
Steadily == {j \in myJobs : keptFor[j] >= Lag}

(* Whatever tool a recruiter's turn calls, and however stale its scope is,  *)
(* the answer reaches no further than the jobs assigned to the recruiter    *)
(* now or less than _SCOPE_TTL plus one turn ago, and what these lead to    *)
(* (a candidate's other jobs, a company's or a pipeline's jobs, teams);     *)
(* and every job assigned for longer than that is shown.                    *)
ScopeFollows ==
  Scoped =>
    /\ AboutScope(scope) \subseteq TiedTo(Lately)
    /\ AboutCandidates(scope) \subseteq LedByCandidates(Lately)
    /\ AboutCompanies(scope) \subseteq LedByCompanies(Lately)
    /\ AboutMe(scope) \subseteq TiedTo(myJobs)
    /\ AboutAnyTeam(scope) \subseteq LedByAnyTeam
    /\ AboutTeams(scope) \subseteq LedByTeams
    /\ AboutPipes(scope) \subseteq LedByPipes(Lately)
    /\ AboutSearch(scope) \subseteq TiedTo(Lately) \cup LedByPipes(Lately) \cup LedByTeams
    /\ TiedTo(Steadily) \subseteq AboutScope(scope)
=============================================================================
