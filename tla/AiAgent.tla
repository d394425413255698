------------------------------ MODULE AiAgent ------------------------------
(* One turn of the assistant (ai_chat_layer/agent.py run_turn): the prompt  *)
(* is posted, quota and tags are checked, the model is asked up to MaxIter  *)
(* times, each batch of tool calls it returns runs on worker threads that   *)
(* finish in any order, the cards of the batch are streamed, and the reply  *)
(* is posted with all cards.                                                *)
EXTENDS Naturals, Sequences, SequencesExt
CONSTANTS Tools, CardsOf,      \* [Tools -> Seq([key, params])]: the output refs a tool adds
          Batches,             \* the batches of calls the model may return
          MaxIter, Workers
ASSUME AgentAssumption == /\ \A t \in Tools : CardsOf[t] \in Seq(Range(CardsOf[t]))
                          /\ \A b \in Batches : b \in Seq(Range(b))
VARIABLES turn,                \* where the turn is
          round, calls,        \* rounds asked, the batch in flight
          results, finished,   \* cards of each call done, calls in order of completion
          messages,            \* the calls of the conversation with the model
          output_refs, refs_pushed, streamed,
          prompted, reply,     \* the two chat messages of the turn
          event                \* the last event pushed to the client
agentVars == <<turn, round, calls, messages, results, finished, output_refs, refs_pushed, streamed, prompted, reply, event>>
NoReply == [text |-> "none", refs |-> <<>>]
-----------------------------------------------------------------------------
AgentInit == /\ turn = "asked" /\ round = 0 /\ calls = <<>> /\ messages = <<>> /\ results = <<>> /\ finished = <<>>
             /\ output_refs = <<>> /\ refs_pushed = 0 /\ streamed = <<>>
             /\ prompted = FALSE /\ reply = NoReply /\ event = "ai.start"
batchVars == <<round, calls, messages, results, finished, output_refs, refs_pushed, streamed>>

\* A message that cannot be stored is given up; the turn goes on without it.
_post_user_message == /\ turn = "asked" /\ turn' = "prompted" /\ prompted' \in BOOLEAN
                      /\ UNCHANGED <<batchVars, reply, event>>
_post_reply(text, refs) == reply' \in {[text |-> text, refs |-> refs], NoReply}
\* Over quota, or a tag out of scope: a reply that says so, and nothing else.
Reject == /\ turn = "prompted" /\ \E why \in {"quota", "access"} : _post_reply(why, <<>>)
          /\ turn' = "over" /\ event' = "ai.complete" /\ UNCHANGED <<batchVars, prompted>>
Admit == turn = "prompted" /\ turn' = "model" /\ UNCHANGED <<batchVars, prompted, reply, event>>

\* The model returns a batch, its answer, an error, or has no round left.
ModelCalls(b) == /\ turn = "model" /\ round < MaxIter
                 /\ turn' = "tools" /\ round' = round + 1 /\ calls' = b /\ messages' = messages \o b
                 /\ results' = [i \in DOMAIN b |-> <<>>] /\ finished' = <<>>
                 /\ UNCHANGED <<output_refs, refs_pushed, streamed, prompted, reply, event>>
ModelAnswers(text) ==
  /\ turn = "model" /\ (text = "narrow") = (round = MaxIter)
  /\ _post_reply(text, output_refs) /\ turn' = "replied"
  /\ UNCHANGED <<batchVars, prompted, event>>

\* Several calls share the worker threads in the order they were emitted; a tool
\* that raises gives an error and no card.
Unfinished == DOMAIN calls \ Range(finished)
Running == {i \in Unfinished : Cardinality({k \in Unfinished : k < i}) < Workers}
_execute_tool_call(i) ==
  /\ turn = "tools" /\ i \in Running
  /\ results' = [results EXCEPT ![i] = IF calls[i] \in Tools THEN CardsOf[calls[i]] ELSE <<>>]
  /\ finished' = Append(finished, i)
  /\ UNCHANGED <<turn, round, calls, messages, output_refs, refs_pushed, streamed, prompted, reply, event>>

Keys(refs) == {refs[i].key : i \in DOMAIN refs}
add_output_ref(refs, card) == IF card.key \in Keys(refs) THEN refs ELSE Append(refs, card)
\* Mutant: the calls are merged as they finished.
AsFinished == finished
MergeOrder == [i \in DOMAIN calls |-> i]
_merge_sub_ctx(refs, cards) == FoldLeft(add_output_ref, refs, cards)
MergedRefs == FoldLeft(LAMBDA refs, i : _merge_sub_ctx(refs, results[i]), output_refs, MergeOrder)
\* All calls of the batch are merged in the order the model emitted them, and
\* the cards not pushed yet are streamed (refs_cb may fail; they count as pushed).
_dispatch_tool_calls ==
  /\ turn = "tools" /\ Unfinished = {}
  /\ turn' = "model" /\ output_refs' = MergedRefs /\ refs_pushed' = Len(MergedRefs)
  /\ streamed' \in {streamed \o SubSeq(MergedRefs, refs_pushed + 1, Len(MergedRefs)), streamed}
  /\ calls' = <<>> /\ results' = <<>> /\ finished' = <<>>
  /\ UNCHANGED <<round, messages, prompted, reply, event>>

\* The quota debit, memory and audit come after the reply: their failure tells
\* the client of an error although the reply stands.
Finish == /\ turn = "replied" /\ turn' = "over" /\ event' \in {"ai.complete", "ai.error"}
          /\ UNCHANGED <<batchVars, prompted, reply>>
\* The daemon thread dies with its process.
Killed == turn # "over" /\ turn' = "over" /\ UNCHANGED <<batchVars, prompted, reply, event>>

AgentNext == \/ _post_user_message \/ Reject \/ Admit \/ (\E b \in Batches : ModelCalls(b))
             \/ (\E text \in {"answer", "error", "narrow"} : ModelAnswers(text))
             \/ (\E i \in DOMAIN calls : _execute_tool_call(i)) \/ _dispatch_tool_calls \/ Finish \/ Killed
AgentSpec == AgentInit /\ [][AgentNext]_agentVars
-----------------------------------------------------------------------------
Shows(k, key) == messages[k] \in Tools /\ key \in Keys(CardsOf[messages[k]])
FirstShown(key) == CHOOSE k \in DOMAIN messages : Shows(k, key) /\ \A l \in 1..(k - 1) : ~Shows(l, key)
(* However the tools of a batch finish, the cards of a reply are those of   *)
(* all calls of all rounds, each key once, in the order in which the model  *)
(* first called for them; what was streamed is among them, in that order.   *)
CardsInOrder ==
  turn \in {"model", "replied"} =>
    /\ Keys(output_refs) = UNION {Keys(CardsOf[messages[k]]) : k \in {l \in DOMAIN messages : messages[l] \in Tools}}
    /\ \A a, b \in DOMAIN output_refs : a < b =>
         /\ output_refs[a].key # output_refs[b].key
         /\ FirstShown(output_refs[a].key) <= FirstShown(output_refs[b].key)
    /\ \A a, b \in DOMAIN streamed : \E i, j \in DOMAIN output_refs :
         streamed[a] = output_refs[i] /\ streamed[b] = output_refs[j] /\ (a < b => i < j)
    /\ reply # NoReply => reply.refs = output_refs
=============================================================================
