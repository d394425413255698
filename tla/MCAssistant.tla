---------------------------- MODULE MCAssistant ----------------------------
(* The assistant on small instances.  Its scope and tools, one turn, the    *)
(* token quota, schedules and alerts, and the analytics queries do not share *)
(* state: a behaviour is one of one part, chosen at the start.              *)
EXTENDS AiTools, AiAgent, AiQuota, AiSchedules, QueryData
VARIABLE part
assistantVars == <<scopeVars, agentVars, quotaVars, schedulesVars, queryVars>>
\* Three jobs of two companies and two pipelines, two candidates, two teams.
MCAppliedTo == [c \in Cands |-> IF c = "c1" THEN {"j1", "j2"} ELSE {"j3"}]
MCFirmOf == [j \in Jobs |-> IF j = "j1" THEN "f1" ELSE "f2"]
MCPipeOf == [j \in Jobs |-> IF j = "j3" THEN "p1" ELSE "p2"]
MCSquadJobs == [s \in Squads |-> IF s = "t1" THEN {"j2"} ELSE {"j1"}]
\* A card is known by its key: two tools give the same job, two the same chart.
Card(key, params) == [key |-> key, params |-> params]
MCCardsOf == [jobs |-> <<Card("job1", "-"), Card("job2", "-")>>, job |-> <<Card("job2", "-")>>,
              week |-> <<Card("chart", 7)>>, month |-> <<Card("chart", 30)>>]
MCBatches == {<<"jobs">>, <<"job", "week">>, <<"month", "jobs", "none">>}
\* Two applicants of one job, one of them also of the other, two recruiters.
MCOpenings == [j1 |-> 2, j2 |-> 1]
MCCompanyOf == [j1 |-> "f1", j2 |-> "f2"]
MCPlaceOf == [j1 |-> "x", j2 |-> "x"]
MCApplied == {[id |-> "a1", job |-> "j1", cand |-> "c1"], [id |-> "a2", job |-> "j1", cand |-> "c2"],
              [id |-> "a3", job |-> "j2", cand |-> "c1"]}
MCAssigned == {[job |-> "j1", user |-> "u1"], [job |-> "j1", user |-> "u2"], [job |-> "j2", user |-> "u1"]}
MCTeamOf == [u1 |-> "t1", u2 |-> "t2"]
MCGivenTo == {[job |-> "j1", team |-> "t2"]}
MCStageOf == [a1 |-> "screen", a2 |-> "screen", a3 |-> NULL]
MCEnded == [a1 |-> "joined", a2 |-> "rejected", a3 |-> NULL]
-----------------------------------------------------------------------------
AssistantParts == {"scope", "turn", "quota", "reports", "alerts", "query"}
AssistantInit ==
  /\ part \in AssistantParts
  /\ ScopeInit /\ (part # "scope" => asker = "admin")
  /\ QueryInit /\ (part # "query" => tables.cj \cup tables.uja \cup tables.jta = {} /\ scopeJobs = {})
  /\ QuotaInit /\ (part # "quota" => row.made /\ row.daily_limit = Largest(Limits) /\ row.monthly_limit = Largest(MonthLimits))
  /\ SchedulesInit /\ (part \notin {"reports", "alerts"} => \A i \in Items : item[i].own)
  /\ AgentInit
Stays(S) == \A i \in S : item'[i] = item[i]
AssistantNext ==
  \/ part = "scope" /\ ScopeNext /\ UNCHANGED <<agentVars, quotaVars, schedulesVars, queryVars, part>>
  \/ part = "turn" /\ AgentNext /\ UNCHANGED <<scopeVars, quotaVars, schedulesVars, queryVars, part>>
  \/ part = "quota" /\ QuotaNext /\ UNCHANGED <<scopeVars, agentVars, schedulesVars, queryVars, part>>
  \/ /\ part \in {"reports", "alerts"} /\ SchedulesNext
     /\ Stays(IF part = "reports" THEN Alerts ELSE Reports)
     /\ part = "alerts" => now' <= 2
     /\ UNCHANGED <<scopeVars, agentVars, quotaVars, queryVars, part>>
  \/ part = "query" /\ QueryNext /\ UNCHANGED <<scopeVars, agentVars, quotaVars, schedulesVars, part>>
AssistantSpec == AssistantInit /\ [][AssistantNext]_<<assistantVars, part>>
=============================================================================
