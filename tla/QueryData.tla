----------------------------- MODULE QueryData -----------------------------
(* query_data, the assistant's analytics tool: a measure by a dimension     *)
(* under a filter.  mcp_server/semantic.py plans the joins by a search of   *)
(* JOIN_GRAPH (schema_meta.py) and MySQL evaluates the query.  The tables   *)
(* are small relations; the measures are those anchored on applications     *)
(* (cj) and on jobs (j).                                                    *)
EXTENDS Naturals, FiniteSets, Sequences, SequencesExt, FiniteSetsExt
CONSTANTS Openings,      \* [jobs -> the number of openings]
          CompanyOf, PlaceOf,   \* [jobs -> company], [jobs -> location]
          Applied,       \* the applications there may be: [id, job, cand]
          Assigned,      \* the assignments there may be: [job, user]
          TeamOf,        \* [users -> team]: team_members
          GivenTo,       \* the team assignments there may be: [job, team]
          Ended,         \* [application ids -> the type of its candidate_job_status or NULL]
          StageOf,       \* [application ids -> its stage or NULL]: candidate_pipeline_status
          NULL
VARIABLES tables, scopeJobs, spec, answer
queryVars == <<tables, scopeJobs, spec, answer>>
JobIds == DOMAIN Openings
Everything == {NULL}     \* the scope of an administrator
NoSpec == [measure |-> NULL, dim |-> NULL, filter |-> NULL, arg |-> NULL]
-----------------------------------------------------------------------------
MEASURES ==
  [applications_count |-> [anchor |-> "cj", col |-> "id", needs |-> {"cj"}],
   candidates_count |-> [anchor |-> "cj", col |-> "cand", needs |-> {"cj"}],
   jobs_with_applicants_count |-> [anchor |-> "cj", col |-> "job", needs |-> {"cj"}],
   joined_count |-> [anchor |-> "cj", col |-> "id", needs |-> {"cj", "cjs"}],
   rejected_count |-> [anchor |-> "cj", col |-> "id", needs |-> {"cj", "cjs"}],
   jobs_total |-> [anchor |-> "j", col |-> "id", needs |-> {"j"}],
   companies_count |-> [anchor |-> "j", col |-> "firm", needs |-> {"j"}],
   jobs_without_applicants_count |-> [anchor |-> "j", col |-> "id", needs |-> {"j"}],
   jobs_without_recruiter_count |-> [anchor |-> "j", col |-> "id", needs |-> {"j"}],
   avg_applications_per_job |-> [anchor |-> "j", col |-> "id", needs |-> {"j", "cj"}],
   openings_count |-> [anchor |-> "j", col |-> "openings", needs |-> {"j"}]]
\* location stands for the dimensions that are a column of the job, candidate
\* for those of the candidate, stage for those found along the application.
DIMENSIONS ==
  [job |-> [alias |-> "j", col |-> "id", needs |-> {"cj", "j"}, inner |-> {}],
   company |-> [alias |-> "co", col |-> "id", needs |-> {"cj", "j", "co"}, inner |-> {}],
   candidate_id |-> [alias |-> "cj", col |-> "cand", needs |-> {"cj"}, inner |-> {}],
   candidate |-> [alias |-> "c", col |-> "id", needs |-> {"cj", "c"}, inner |-> {}],
   stage |-> [alias |-> "ps", col |-> "id", needs |-> {"cj", "cps", "ps"}, inner |-> {"cps", "ps"}],
   location |-> [alias |-> "j", col |-> "place", needs |-> {"j"}, inner |-> {}],
   terminal_status |-> [alias |-> "cjs", col |-> "type", needs |-> {"cj", "cjs"}, inner |-> {"cjs"}],
   recruiter |-> [alias |-> "u", col |-> "id", needs |-> {"cj", "uja", "u"}, inner |-> {"uja", "u"}],
   team |-> [alias |-> "t", col |-> "id", needs |-> {"cj", "uja", "u", "tm", "t"},
             inner |-> {"uja", "u", "tm", "t"}]]
FILTERS == [job_id |-> {"j"}, company_id |-> {"j"}, recruiter_id |-> {"uja"}, team_id |-> {"uja"},
            candidate_id |-> {"cj"}, stage_name |-> {"cj", "cps", "ps"}, terminal_status |-> {"cj", "cjs"}]

Edge(a, key, b, col) == [from |-> a, key |-> key, to |-> b, col |-> col]
\* In the order of the code, which the search's ties depend on.
JOIN_GRAPH ==
  <<Edge("cj", "job", "j", "id"), Edge("j", "id", "cj", "job"), Edge("j", "firm", "co", "id"),
    Edge("co", "id", "j", "firm"), Edge("cj", "cand", "c", "id"), Edge("c", "id", "cj", "cand"),
    Edge("cj", "job", "uja", "job"), Edge("j", "id", "uja", "job"),
    Edge("uja", "user", "u", "id"), Edge("u", "id", "tm", "user"), Edge("tm", "team", "t", "id"),
    Edge("t", "id", "tm", "team"), Edge("j", "id", "jta", "job"), Edge("jta", "team", "t", "id"),
    Edge("t", "id", "jta", "team"), Edge("jta", "job", "j", "id"),
    Edge("cj", "id", "cps", "app"), Edge("cps", "stage", "ps", "id"), Edge("cj", "id", "cjs", "app")>>
Aliases == <<"c", "cj", "cjs", "co", "cps", "j", "jta", "ps", "t", "tm", "u", "uja">>    \* sorted
-----------------------------------------------------------------------------
\* One round of the breadth-first search: the k-th node found adds the nodes
\* its edges lead to.
Nodes(queue) == {queue[n].node : n \in DOMAIN queue}
Visit(queue, k) ==
  FoldLeft(LAMBDA q, e : IF e.from # queue[k].node \/ e.to \in Nodes(q) THEN q
                         ELSE Append(q, [node |-> e.to, path |-> Append(queue[k].path, e)]),
           queue, JOIN_GRAPH)
Search(start) ==
  FoldLeft(LAMBDA q, k : IF k <= Len(q) THEN Visit(q, k) ELSE q,
           <<[node |-> start, path |-> <<>>]>>, [k \in 1..Len(Aliases) |-> k])
Paths == [a \in {"cj", "j"} |-> Search(a)]
join_path(a, b) == (CHOOSE n \in Range(Paths[a]) : n.node = b).path

_required_aliases(s) ==
  {MEASURES[s.measure].anchor} \cup MEASURES[s.measure].needs
  \cup (IF s.dim = NULL THEN {} ELSE DIMENSIONS[s.dim].needs)
  \cup (IF s.filter = NULL THEN {} ELSE FILTERS[s.filter])
\* Mutant: a dimension's joins all keep rows without a match.
InnerByFilterOnly(s) ==
  IF s.filter = NULL THEN {} ELSE FILTERS[s.filter] \ {MEASURES[s.measure].anchor}
_inner_join_aliases(s) ==
  (IF s.dim = NULL THEN {} ELSE DIMENSIONS[s.dim].inner)
  \cup (IF s.filter = NULL THEN {} ELSE FILTERS[s.filter] \ {MEASURES[s.measure].anchor})
\* The edges to join along: each needed alias in turn brings its path's.
_build_join_clause(anchor, needed) ==
  LET Placed(edges) == {anchor} \cup {e.to : e \in Range(edges)}
      Along(edges, e) == IF e.to \in Placed(edges) THEN edges ELSE Append(edges, e)
      Bring(edges, a) == IF a \in Placed(edges) THEN edges
                         ELSE FoldLeft(Along, edges, join_path(anchor, a))
  IN FoldLeft(Bring, <<>>, SelectSeq(Aliases, LAMBDA a : a \in needed))
-----------------------------------------------------------------------------
\* What MySQL does: rows of the anchor, extended edge by edge.
ColOf(row, alias, col) == IF row[alias] = {} THEN NULL ELSE (CHOOSE r \in row[alias] : TRUE)[col]
JoinedRows(rows, e, inner) ==
  UNION {LET matches == {r \in tables[e.to] : r[e.col] = ColOf(row, e.from, e.key)}
         IN {[row EXCEPT ![e.to] = {r}] : r \in matches}
            \cup IF matches = {} /\ ~inner THEN {row} ELSE {} : row \in rows}
_scope_where(row, anchor) == \/ scopeJobs = Everything
                             \/ ColOf(row, anchor, IF anchor = "cj" THEN "job" ELSE "id") \in scopeJobs
Where(row, s) ==
  CASE s.filter = "job_id" -> ColOf(row, "j", "id") = s.arg
    [] s.filter = "company_id" -> ColOf(row, "j", "firm") = s.arg
    [] s.filter = "candidate_id" -> ColOf(row, "cj", "cand") = s.arg
    [] s.filter = "stage_name" -> ColOf(row, "ps", "id") = s.arg
    [] s.filter = "recruiter_id" -> ColOf(row, "uja", "user") = s.arg
    [] s.filter = "team_id" -> row["uja"] # {} /\ TeamOf[ColOf(row, "uja", "user")] = s.arg
    [] s.filter = "terminal_status" -> ColOf(row, "cjs", "type") = s.arg
    [] OTHER -> TRUE
Selected(s) ==
  LET anchor == MEASURES[s.measure].anchor
      Bare(r) == [a \in Range(Aliases) |-> IF a = anchor THEN {r} ELSE {}]
      rows == FoldLeft(LAMBDA R, e : JoinedRows(R, e, e.to \in _inner_join_aliases(s)),
                       {Bare(r) : r \in tables[anchor]},
                       _build_join_clause(anchor, _required_aliases(s)))
  IN {row \in rows : Where(row, s) /\ _scope_where(row, anchor)}
Qualifies(m, row) ==
  CASE m = "joined_count" -> ColOf(row, "cjs", "type") = "joined"
    [] m = "rejected_count" -> ColOf(row, "cjs", "type") = "rejected"
    [] m = "jobs_without_applicants_count" -> \A a \in tables.cj : a.job # ColOf(row, "j", "id")
    [] m = "jobs_without_recruiter_count" -> \A a \in tables.uja : a.job # ColOf(row, "j", "id")
    [] OTHER -> TRUE
CountDistinct(rows, alias, col) == Cardinality({ColOf(row, alias, col) : row \in rows} \ {NULL})
\* SUM adds a job's openings once for each row (0 stands for its NULL over no
\* row), COUNT(DISTINCT ...) counts the values that are not null; a quotient is
\* given as numerator and denominator.
Aggregate(m, rows) ==
  CASE m = "openings_count" -> MapThenSumSet(LAMBDA row : ColOf(row, "j", "openings"), rows)
    [] m = "avg_applications_per_job" -> <<CountDistinct(rows, "cj", "id"), CountDistinct(rows, "j", "id")>>
    [] OTHER -> CountDistinct({row \in rows : Qualifies(m, row)}, MEASURES[m].anchor, MEASURES[m].col)
build_sql(s) ==
  LET rows == Selected(s)
      Group(row) == IF s.dim = NULL THEN NULL
                    ELSE ColOf(row, DIMENSIONS[s.dim].alias, DIMENSIONS[s.dim].col)
      groups == IF s.dim = NULL THEN {NULL} ELSE {Group(row) : row \in rows}
  IN [g \in groups |-> Aggregate(s.measure, {row \in rows : Group(row) = g})]
-----------------------------------------------------------------------------
FilterArgs == [job_id |-> CHOOSE j \in JobIds : TRUE, company_id |-> CHOOSE f \in Range(CompanyOf) : TRUE,
               recruiter_id |-> CHOOSE u \in DOMAIN TeamOf : TRUE, team_id |-> CHOOSE t \in Range(TeamOf) : TRUE,
               candidate_id |-> CHOOSE c \in {a.cand : a \in Applied} : TRUE,
               stage_name |-> CHOOSE g \in Range(StageOf) \ {NULL} : TRUE, terminal_status |-> "joined"]
Specs == {[measure |-> m, dim |-> d, filter |-> f.by, arg |-> f.arg] :
            m \in DOMAIN MEASURES, d \in DOMAIN DIMENSIONS \cup {NULL},
            f \in {[by |-> b, arg |-> FilterArgs[b]] : b \in DOMAIN FILTERS} \cup {[by |-> NULL, arg |-> NULL]}}
QueryInit ==
  /\ \E A \in SUBSET Applied, U \in SUBSET Assigned, G \in SUBSET GivenTo :
       tables = [cj |-> A, uja |-> U, jta |-> G,
                 j |-> {[id |-> j, firm |-> CompanyOf[j], place |-> PlaceOf[j],
                         openings |-> Openings[j]] : j \in JobIds},
                 co |-> {[id |-> f] : f \in Range(CompanyOf)},
                 u |-> {[id |-> u] : u \in DOMAIN TeamOf},
                 tm |-> {[user |-> u, team |-> TeamOf[u]] : u \in DOMAIN TeamOf},
                 t |-> {[id |-> x] : x \in Range(TeamOf)},
                 c |-> {[id |-> a.cand] : a \in Applied},
                 ps |-> {[id |-> g] : g \in Range(StageOf) \ {NULL}},
                 cps |-> {[app |-> a.id, stage |-> StageOf[a.id]] : a \in {b \in A : StageOf[b.id] # NULL}},
                 cjs |-> {[app |-> a.id, type |-> Ended[a.id]] : a \in {b \in A : Ended[b.id] # NULL}}]
  /\ \E S \in (SUBSET JobIds) \cup {Everything} : scopeJobs = S
  /\ spec = NoSpec /\ answer = <<>>
_query_data == /\ spec = NoSpec /\ \E s \in Specs : spec' = s /\ answer' = build_sql(s)
               /\ UNCHANGED <<tables, scopeJobs>>
QueryNext == _query_data
-----------------------------------------------------------------------------
(* What the catalogue's descriptions promise, without joins: a fact is an   *)
(* application with its job, or a job nobody applied to, looked at from the *)
(* side of one of the job's recruiters or of none.                          *)
AppsOf(j) == {a \in tables.cj : a.job = j}
Facts(m) ==
  {f \in [job : {j \in JobIds : scopeJobs = Everything \/ j \in scopeJobs},
          app : tables.cj \cup {NULL}, user : DOMAIN TeamOf \cup {NULL}] :
     /\ IF f.app = NULL THEN MEASURES[m].anchor = "j" /\ AppsOf(f.job) = {} ELSE f.app.job = f.job
     /\ f.user # NULL => [job |-> f.job, user |-> f.user] \in tables.uja}
EndOf(f) == IF f.app = NULL THEN NULL ELSE Ended[f.app.id]
AtStage(f) == IF f.app = NULL THEN NULL ELSE StageOf[f.app.id]
CandOf(f) == IF f.app = NULL THEN NULL ELSE f.app.cand
Meets(f, s) == CASE s.filter = "job_id" -> f.job = s.arg
                 [] s.filter = "company_id" -> CompanyOf[f.job] = s.arg
                 [] s.filter = "candidate_id" -> CandOf(f) = s.arg
                 [] s.filter = "stage_name" -> AtStage(f) = s.arg
                 [] s.filter = "recruiter_id" -> f.user = s.arg
                 [] s.filter = "team_id" -> f.user # NULL /\ TeamOf[f.user] = s.arg
                 [] s.filter = "terminal_status" -> EndOf(f) = s.arg
                 [] OTHER -> TRUE
Has(f, d) == /\ d \in {"recruiter", "team"} => f.user # NULL
             /\ d = "terminal_status" => EndOf(f) # NULL
             /\ d = "stage" => AtStage(f) # NULL
Under(f, d) == CASE d = "job" -> f.job
                 [] d = "company" -> CompanyOf[f.job]
                 [] d = "location" -> PlaceOf[f.job]
                 [] d \in {"candidate", "candidate_id"} -> CandOf(f)
                 [] d = "stage" -> AtStage(f)
                 [] d = "terminal_status" -> EndOf(f)
                 [] d = "recruiter" -> f.user
                 [] d = "team" -> TeamOf[f.user]
                 [] OTHER -> NULL
Counted(m, F) ==
  CASE m = "applications_count" -> Cardinality({f.app : f \in F})
    [] m = "avg_applications_per_job" -> <<Cardinality({f.app : f \in F} \ {NULL}), Cardinality({f.job : f \in F})>>
    [] m = "rejected_count" -> Cardinality({f.app : f \in {g \in F : EndOf(g) = "rejected"}})
    [] m = "jobs_without_applicants_count" -> Cardinality({f.job : f \in {g \in F : g.app = NULL}})
    [] m = "jobs_without_recruiter_count" ->
         Cardinality({f.job : f \in F} \ {a.job : a \in tables.uja})
    [] m = "candidates_count" -> Cardinality({f.app.cand : f \in F})
    [] m = "joined_count" -> Cardinality({f.app : f \in {g \in F : EndOf(g) = "joined"}})
    [] m \in {"jobs_total", "jobs_with_applicants_count"} -> Cardinality({f.job : f \in F})
    [] m = "companies_count" -> Cardinality({CompanyOf[f.job] : f \in F})
    [] m = "openings_count" -> MapThenSumSet(LAMBDA j : Openings[j], {f.job : f \in F})
Promised(s) ==
  LET F == {f \in Facts(s.measure) : Meets(f, s) /\ Has(f, s.dim)}
      groups == IF s.dim = NULL THEN {NULL} ELSE {Under(f, s.dim) : f \in F}
  IN [g \in groups |-> Counted(s.measure, {f \in F : Under(f, s.dim) = g})]
-----------------------------------------------------------------------------
(* Whatever joins a dimension and a filter bring in, a count of applications, *)
(* candidates, jobs or companies is the one the catalogue describes: no job   *)
(* without applicants is lost, none is counted twice, and no group missing.   *)
(* (Grouped by team it is another count: see the README.)  The sum of         *)
(* openings is exact where no table is joined that a job is in more than once. *)
DistinctCountsExact ==
  /\ spec # NoSpec /\ spec.dim # "team"
  /\ spec.measure = "openings_count" => _required_aliases(spec) \subseteq {"j", "co"}
  => answer = Promised(spec)
=============================================================================
