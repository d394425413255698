---------------------------- MODULE TemplateLife ---------------------------
(* One WhatsApp template and the provider's copy of it: edits, submission,  *)
(* deletion and new rules (api/templates_api.py, api/rules_api.py), the     *)
(* status webhook (webhooks.py) and the template sync (templates_service.py) *)
(* which lists the provider's templates over HTTP before it writes.  The    *)
(* provider reviews its copy again at any time, and it may be edited there. *)
EXTENDS Naturals, FiniteSets

CONSTANTS Texts, Reviews, MaxEdits
ProviderStatuses == {"pending", "approved", "rejected", "paused", "disabled"}
ASSUME TplAssumption == Texts # {} /\ Reviews \subseteq ProviderStatuses

VARIABLES tpl,       \* the row: status, text, deleted; linked: provider_template_id is set
          remote,    \* the provider's copy: status, text, named variables; no status: no copy
          used,      \* an active rule names the template
          hooks,     \* template_status events on their way
          submitting, syncing, deleting, saving, \* what a process under way has read
          own,       \* the row's text was edited since it was last sent or copied
          unread,    \* the provider's text has been edited since, or is newer than the one copied
          unheard,   \* the provider's status has changed since the row was last told
          manual,    \* the row's status was put there by mark_approved
          outrun,    \* a rule was saved while or after the template was deleted
          edits
tellVars == <<own, unread, unheard, manual>>
tplVars == <<tpl, remote, used, hooks, submitting, syncing, deleting, saving, tellVars, outrun, edits>>

NoValue == "none"
NoCopy == [status |-> NoValue, text |-> NoValue, named |-> FALSE]
Editable == {"draft", "rejected"}

TplInit ==
  /\ tpl = [status |-> "draft", text |-> CHOOSE t \in Texts : TRUE, deleted |-> FALSE, linked |-> FALSE]
  /\ remote = NoCopy
  /\ used = FALSE /\ hooks = {}
  /\ submitting = <<>> /\ syncing = <<>> /\ deleting = FALSE /\ saving = FALSE
  /\ own = TRUE /\ unread = FALSE /\ unheard = FALSE /\ manual = FALSE /\ outrun = FALSE /\ edits = 0

\* update_template: a new text makes it a draft again.
Edit ==
  /\ tpl.status \in Editable /\ ~tpl.deleted /\ edits < MaxEdits
  /\ \E t \in Texts \ {tpl.text} : tpl' = [tpl EXCEPT !.text = t, !.status = "draft"]
  /\ edits' = edits + 1 /\ own' = TRUE /\ manual' = FALSE
  /\ UNCHANGED <<remote, used, hooks, submitting, syncing, deleting, saving, unread, unheard, outrun>>

\* submit_template reads the row and sends its text, with numbered variables; the
\* provider takes it, as pending or with a first decision.
SubmitSend ==
  /\ submitting = <<>> /\ tpl.status \in Editable /\ ~tpl.deleted /\ edits < MaxEdits
  /\ edits' = edits + 1
  /\ \E d \in Reviews \cup {"pending"} :
       /\ submitting' = [status |-> d, text |-> tpl.text]
       /\ remote' = [status |-> d, text |-> tpl.text, named |-> FALSE]
  /\ own' = FALSE /\ unread' = FALSE /\ unheard' = TRUE
  /\ UNCHANGED <<tpl, used, hooks, syncing, deleting, saving, manual, outrun>>

\* The answer is committed, under the provider's id.
SubmitCommit ==
  /\ submitting # <<>>
  /\ tpl' = [tpl EXCEPT !.status = submitting.status, !.linked = TRUE]
  /\ unheard' = (remote.status # submitting.status) /\ manual' = FALSE
  /\ submitting' = <<>>
  /\ UNCHANGED <<remote, used, hooks, syncing, deleting, saving, own, unread, outrun, edits>>

\* The answer is lost: rolled back, while the provider has the template.
SubmitFails ==
  /\ submitting # <<>>
  /\ submitting' = <<>>
  /\ UNCHANGED <<tpl, remote, used, hooks, syncing, deleting, saving, tellVars, outrun, edits>>

\* The provider decides on its copy, at first or again later, and says so.
Review ==
  /\ remote.status # NoValue /\ edits < MaxEdits
  /\ \E d \in Reviews \ {remote.status} : /\ remote' = [remote EXCEPT !.status = d]
                                           /\ hooks' = hooks \cup {d}
  /\ edits' = edits + 1 /\ unheard' = TRUE
  /\ UNCHANGED <<tpl, used, submitting, syncing, deleting, saving, own, unread, manual, outrun>>

\* The copy is edited in the provider's portal, with named variables or numbered ones;
\* no event tells of it.
EditThere ==
  /\ remote.status # NoValue /\ edits < MaxEdits
  /\ \E t \in Texts \ {remote.text}, n \in BOOLEAN : remote' = [remote EXCEPT !.text = t, !.named = n]
  /\ edits' = edits + 1 /\ unread' = TRUE
  /\ UNCHANGED <<tpl, used, hooks, submitting, syncing, deleting, saving, own, unheard, manual, outrun>>

\* Mutant: an approval is never taken back.
ApprovalKept ==
  /\ ~tpl.deleted
  /\ \E d \in hooks :
       /\ tpl.status # d
       /\ tpl' = [tpl EXCEPT !.status = IF @ = "approved" THEN @ ELSE d]
       /\ unheard' = (d # remote.status) /\ manual' = FALSE
  /\ UNCHANGED <<remote, used, hooks, submitting, syncing, deleting, saving, own, unread, outrun, edits>>

\* apply_events: the status is taken over whatever the row says by now; events may be
\* lost, repeated, late or out of order.
Webhook ==
  /\ ~tpl.deleted
  /\ \E d \in hooks :
       /\ tpl.status # d
       /\ tpl' = [tpl EXCEPT !.status = d]
       /\ unheard' = (d # remote.status) /\ manual' = FALSE
  /\ UNCHANGED <<remote, used, hooks, submitting, syncing, deleting, saving, own, unread, outrun, edits>>

\* sync_templates: the provider's templates are listed, or a pending one is asked for,
\* and written to the row that was loaded.
SyncFetch ==
  /\ syncing = <<>> /\ remote.status # NoValue /\ ~tpl.deleted
  /\ syncing' = [copy |-> remote, row |-> tpl]
  /\ UNCHANGED <<tpl, remote, used, hooks, submitting, deleting, saving, tellVars, outrun, edits>>

\* apply_provider_status: only a status that differs from the loaded one is written,
\* and not over a disabled template.
TakesStatus == syncing.copy.status # syncing.row.status /\ syncing.row.status # "disabled"
StatusWritten == IF TakesStatus THEN syncing.copy.status ELSE tpl.status

\* A draft takes the provider's text, and so does a template edited there if its
\* variables are named; numbered bodies stay as they are.
TakesText == /\ syncing.row.status = "draft" \/ syncing.copy.named
             /\ syncing.copy.text # syncing.row.text
TextWritten == IF TakesText THEN syncing.copy.text ELSE tpl.text

\* The listing is out of date, or what it says was not written because the row loaded
\* before said so already and says something else by now.
Overtaken == \/ syncing.copy.status # remote.status
             \/ ~TakesStatus /\ tpl.status # syncing.row.status

\* import_from_provider
ImportCommit ==
  /\ syncing # <<>>
  /\ tpl' = [tpl EXCEPT !.text = TextWritten, !.status = StatusWritten,
                         !.linked = @ \/ syncing.row.status # "disabled"]
  /\ own' = (own /\ ~TakesText)
  /\ unread' = IF TakesText THEN syncing.copy.text # remote.text ELSE unread
  /\ unheard' = IF syncing.row.status = "disabled" THEN unheard ELSE Overtaken
  /\ manual' = (manual /\ ~TakesStatus)
  /\ syncing' = <<>>
  /\ UNCHANGED <<remote, used, hooks, submitting, deleting, saving, outrun, edits>>

\* The poll of pending templates takes over the status alone.
PollCommit ==
  /\ syncing # <<>> /\ syncing.row.status = "pending"
  /\ tpl' = [tpl EXCEPT !.status = StatusWritten]
  /\ unheard' = Overtaken /\ manual' = (manual /\ ~TakesStatus)
  /\ syncing' = <<>>
  /\ UNCHANGED <<remote, used, hooks, submitting, deleting, saving, own, unread, outrun, edits>>

\* mark_approved, by an administrator.
MarkApproved ==
  /\ ~tpl.deleted /\ tpl.status # "approved"
  /\ tpl' = [tpl EXCEPT !.status = "approved"] /\ manual' = TRUE
  /\ UNCHANGED <<remote, used, hooks, submitting, syncing, deleting, saving, own, unread, unheard, outrun, edits>>

\* in_use_counts
InUse == used

RemoveLoad ==
  /\ ~deleting /\ ~tpl.deleted /\ ~InUse
  /\ deleting' = TRUE
  /\ UNCHANGED <<tpl, remote, used, hooks, submitting, syncing, saving, tellVars, outrun, edits>>

\* delete_template: the provider's copy goes first, if it has an id and the call succeeds.
RemoveThere ==
  /\ deleting /\ tpl.linked /\ remote.status # NoValue
  /\ remote' = NoCopy /\ unheard' = TRUE /\ unread' = TRUE
  /\ UNCHANGED <<tpl, used, hooks, submitting, syncing, deleting, saving, own, manual, outrun, edits>>

\* Then the row, unless the request ends before its commit.
RemoveCommit ==
  /\ deleting /\ deleting' = FALSE
  /\ \E done \in BOOLEAN : tpl' = [tpl EXCEPT !.deleted = @ \/ done]
  /\ UNCHANGED <<remote, used, hooks, submitting, syncing, saving, tellVars, outrun, edits>>

\* create_rule and update_rule: _check_template, then the commit of the rule.
RuleLoad ==
  /\ ~saving /\ ~used /\ ~tpl.deleted
  /\ saving' = TRUE
  /\ UNCHANGED <<tpl, remote, used, hooks, submitting, syncing, deleting, tellVars, outrun, edits>>

RuleCommit ==
  /\ saving /\ saving' = FALSE /\ used' = TRUE
  /\ outrun' = (outrun \/ tpl.deleted \/ deleting)
  /\ UNCHANGED <<tpl, remote, hooks, submitting, syncing, deleting, tellVars, edits>>

RuleGone ==
  /\ used /\ used' = FALSE /\ edits < MaxEdits /\ edits' = edits + 1
  /\ UNCHANGED <<tpl, remote, hooks, submitting, syncing, deleting, saving, tellVars, outrun>>

TplNext == \/ Edit \/ SubmitSend \/ SubmitCommit \/ SubmitFails \/ Review \/ EditThere \/ Webhook
           \/ SyncFetch \/ ImportCommit \/ PollCommit \/ MarkApproved
           \/ RemoveLoad \/ RemoveThere \/ RemoveCommit \/ RuleLoad \/ RuleCommit \/ RuleGone
TplSpec == TplInit /\ [][TplNext]_tplVars
-----------------------------------------------------------------------------
\* A template that counts as approved, and so is sent with its variables, is one the
\* provider approves, with the text it approves.  The exceptions are an approval by
\* hand; news the row has not got (an event lost, late or out of order, a listing that
\* was overtaken, a copy deleted without its row); a text edited while a submission, an
\* event or a sync was on its way; and one edited in the portal, which only a sync
\* brings, and only if its variables are named.
ApprovedAsHeld ==
  tpl.status = "approved" /\ ~tpl.deleted /\ ~manual =>
    /\ ~unheard => remote.status = "approved"
    /\ ~own /\ ~unread => tpl.text = remote.text

\* No active rule names a deleted template, unless the rule was saved while the template
\* was being deleted: neither check is repeated at the commit.
RulesHaveTemplates == used /\ tpl.deleted => outrun

\* What is sent as approved is approved, and what a rule would send exists.
TemplatesExplained == ApprovedAsHeld /\ RulesHaveTemplates

=============================================================================
