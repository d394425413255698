--------------------------- MODULE ClawbackProofs ---------------------------
(* What holds of the clawback reminders for every set of rules, days,       *)
(* clawbacks and administrators: the rule functions say what the settings   *)
(* page promises, the rules of an org never overlap but by a race, digests  *)
(* go out once, templates are sent as approved.                             *)
EXTENDS ClawbackCases, RuleBook, Digests, TemplateLife, FiniteSetTheorems, SequenceTheorems, TLAPS

(* One template and the provider's copy of it (TemplateLife) *)

\* A row that is no draft has the status it was last told, and a text sent or copied
\* is the provider's; a rule that names a template being deleted was saved after its
\* deletion began.
StatusHeld == ~unheard /\ ~manual /\ tpl.status # "draft" => tpl.status = remote.status
TextHeld == ~own /\ ~unread => tpl.text = remote.text
UsedIsThere == used /\ (tpl.deleted \/ deleting) => outrun
Statuses == ProviderStatuses \cup {"none", "draft"}
TplRows == [status : Statuses, text : Texts \cup {NoValue}, deleted : BOOLEAN, linked : BOOLEAN]
Copies == [status : Statuses, text : Texts \cup {NoValue}, named : BOOLEAN]
TplTypeOK == /\ tpl \in TplRows /\ remote \in Copies /\ hooks \subseteq Statuses
             /\ submitting # <<>> => submitting \in [status : Statuses, text : Texts \cup {NoValue}]
             /\ syncing # <<>> => syncing \in [copy : Copies, row : TplRows]
TplInv == TplTypeOK /\ StatusHeld /\ TextHeld /\ UsedIsThere

LEMMA TplInitInv == TplInit => TplInv
<1> SUFFICES ASSUME TplInit PROVE TplInv
  OBVIOUS
<1>1. (CHOOSE t \in Texts : TRUE) \in Texts
  BY TplAssumption
<1> QED BY <1>1 DEF TplInit, TplInv, TplTypeOK, TplRows, Copies, StatusHeld, TextHeld, UsedIsThere,
                        Statuses, ProviderStatuses, NoValue, NoCopy

LEMMA TplTypes == ASSUME TplInv, TplNext PROVE TplTypeOK'
<1>1. /\ tpl \in TplRows /\ remote \in Copies /\ hooks \subseteq Statuses
      /\ submitting # <<>> => submitting \in [status : Statuses, text : Texts \cup {NoValue}]
      /\ syncing # <<>> => syncing \in [copy : Copies, row : TplRows]
  BY DEF TplInv, TplTypeOK
<1>2. ASSUME syncing # <<>> PROVE StatusWritten \in Statuses /\ TextWritten \in Texts \cup {NoValue}
  BY <1>1, <1>2 DEF StatusWritten, TextWritten, Copies, TplRows
<1>3. Reviews \subseteq Statuses /\ {"pending", "draft", "approved", "none"} \subseteq Statuses
  BY TplAssumption DEF Statuses, ProviderStatuses
<1>4. tpl' \in TplRows
  <2>1. CASE Edit
    <3>1. PICK t \in Texts \ {tpl.text} : tpl' = [tpl EXCEPT !.text = t, !.status = "draft"]
      BY <2>1 DEF Edit
    <3> DEFINE r == [tpl EXCEPT !.text = t]
    <3>2. r \in TplRows /\ tpl' = [r EXCEPT !.status = "draft"]
      BY <1>1, <3>1 DEF TplRows
    <3> HIDE DEF r
    <3> QED BY <1>3, <3>2 DEF TplRows
  <2>2. CASE ImportCommit
    <3> DEFINE t == TextWritten
               s == StatusWritten
               k == tpl.linked \/ syncing.row.status # "disabled"
    <3>1. t \in Texts \cup {NoValue} /\ s \in Statuses /\ k \in BOOLEAN
          /\ tpl' = [tpl EXCEPT !.text = t, !.status = s, !.linked = k]
      BY <1>1, <1>2, <2>2 DEF ImportCommit, TplRows
    <3> HIDE DEF t, s, k
    <3> DEFINE r == [tpl EXCEPT !.text = t]
               q == [r EXCEPT !.status = s]
    <3>2. r \in TplRows /\ tpl' = [[r EXCEPT !.status = s] EXCEPT !.linked = k]
      BY <1>1, <3>1 DEF TplRows
    <3> HIDE DEF r
    <3>3. q \in TplRows /\ tpl' = [q EXCEPT !.linked = k]
      BY <3>1, <3>2 DEF TplRows
    <3> HIDE DEF q
    <3> QED BY <3>1, <3>3 DEF TplRows
  <2>3. CASE PollCommit
    <3> DEFINE s == StatusWritten
    <3>1. s \in Statuses /\ tpl' = [tpl EXCEPT !.status = s]
      BY <1>2, <2>3 DEF PollCommit
    <3> HIDE DEF s
    <3> QED BY <1>1, <3>1 DEF TplRows
  <2>4. CASE SubmitCommit
    <3> DEFINE r == [tpl EXCEPT !.status = submitting.status]
    <3>1. r \in TplRows /\ tpl' = [r EXCEPT !.linked = TRUE]
      BY <1>1, <2>4 DEF SubmitCommit, TplRows
    <3> HIDE DEF r
    <3> QED BY <3>1 DEF TplRows
  <2>5. CASE Webhook \/ MarkApproved
    BY <1>1, <1>3, <2>5 DEF Webhook, MarkApproved, TplRows
  <2>6. CASE RemoveCommit
    BY <1>1, <2>6 DEF RemoveCommit, TplRows
  <2>7. CASE UNCHANGED tpl
    BY <1>1, <2>7
  <2> QED BY <2>1, <2>2, <2>3, <2>4, <2>5, <2>6, <2>7
       DEF TplNext, SubmitSend, SubmitFails, Review, EditThere, SyncFetch, RemoveLoad, RemoveThere, RuleLoad, RuleCommit,
           RuleGone
<1>5. remote' \in Copies
  <2>1. CASE SubmitSend
    BY <1>1, <1>3, <2>1 DEF SubmitSend, Copies, TplRows
  <2>2. CASE Review \/ EditThere
    BY <1>1, <1>3, <2>2 DEF Review, EditThere, Copies
  <2>3. CASE RemoveThere
    BY <1>3, <2>3 DEF RemoveThere, NoCopy, Copies, NoValue
  <2>4. CASE UNCHANGED remote
    BY <1>1, <2>4
  <2> QED BY <2>1, <2>2, <2>3, <2>4
       DEF TplNext, Edit, SubmitCommit, SubmitFails, Webhook, SyncFetch, ImportCommit, PollCommit, MarkApproved,
           RemoveLoad, RemoveCommit, RuleLoad, RuleCommit, RuleGone
<1>6. hooks' \subseteq Statuses
  <2>1. CASE Review
    BY <1>1, <1>3, <2>1 DEF Review
  <2>2. CASE UNCHANGED hooks
    BY <1>1, <2>2
  <2> QED BY <2>1, <2>2
       DEF TplNext, Edit, SubmitSend, SubmitCommit, SubmitFails, EditThere, Webhook, SyncFetch, ImportCommit, PollCommit,
           MarkApproved, RemoveLoad, RemoveThere, RemoveCommit, RuleLoad, RuleCommit, RuleGone
<1>7. submitting' # <<>> => submitting' \in [status : Statuses, text : Texts \cup {NoValue}]
  <2>1. CASE SubmitSend
    BY <1>1, <1>3, <2>1 DEF SubmitSend, TplRows
  <2>2. CASE submitting' = <<>> \/ UNCHANGED submitting
    BY <1>1, <2>2
  <2> QED BY <2>1, <2>2
       DEF TplNext, Edit, SubmitCommit, SubmitFails, Review, EditThere, Webhook, SyncFetch, ImportCommit, PollCommit,
           MarkApproved, RemoveLoad, RemoveThere, RemoveCommit, RuleLoad, RuleCommit, RuleGone
<1>8. syncing' # <<>> => syncing' \in [copy : Copies, row : TplRows]
  <2>1. CASE SyncFetch
    BY <1>1, <2>1 DEF SyncFetch
  <2>2. CASE syncing' = <<>> \/ UNCHANGED syncing
    BY <1>1, <2>2
  <2> QED BY <2>1, <2>2
       DEF TplNext, Edit, SubmitSend, SubmitCommit, SubmitFails, Review, EditThere, Webhook, ImportCommit, PollCommit,
           MarkApproved, RemoveLoad, RemoveThere, RemoveCommit, RuleLoad, RuleCommit, RuleGone
<1> QED BY <1>4, <1>5, <1>6, <1>7, <1>8 DEF TplTypeOK

LEMMA TplNextInv == TplInv /\ [TplNext]_tplVars => TplInv'
<1> SUFFICES ASSUME TplInv, [TplNext]_tplVars PROVE TplInv'
  OBVIOUS
<1>1. CASE UNCHANGED tplVars
  BY <1>1 DEF tplVars, tellVars, TplInv, TplTypeOK, StatusHeld, TextHeld, UsedIsThere
<1>2. CASE TplNext
  <2>1. TplTypeOK'
    BY <1>2, TplTypes
  <2>2. tpl \in TplRows /\ remote \in Copies
    BY DEF TplInv, TplTypeOK
  <2>3. StatusHeld'
    <3>1. CASE Edit
      <4>1. tpl'.status = "draft"
        BY <2>2, <3>1 DEF Edit, TplRows
      <4> QED BY <4>1 DEF StatusHeld
    <3>2. CASE SubmitSend \/ Review \/ RemoveThere
      BY <3>2 DEF SubmitSend, Review, RemoveThere, StatusHeld
    <3>3. CASE SubmitCommit
      BY <2>2, <3>3 DEF SubmitCommit, StatusHeld, TplRows
    <3>4. CASE EditThere
      BY <2>2, <3>4 DEF EditThere, StatusHeld, TplInv, Copies
    <3>5. CASE Webhook
      BY <2>2, <3>5 DEF Webhook, StatusHeld, TplRows
    <3>6. CASE ImportCommit
      <4>1. UNCHANGED remote /\ tpl'.status = StatusWritten
        BY <2>2, <3>6 DEF ImportCommit, TplRows
      <4>2. CASE TakesStatus
        BY <3>6, <4>1, <4>2 DEF ImportCommit, TakesStatus, StatusWritten, Overtaken, StatusHeld
      <4>3. CASE ~TakesStatus /\ syncing.row.status = "disabled"
        BY <3>6, <4>1, <4>3 DEF ImportCommit, StatusWritten, StatusHeld, TplInv
      <4>4. CASE ~TakesStatus /\ syncing.row.status # "disabled"
        BY <3>6, <4>1, <4>4 DEF ImportCommit, TakesStatus, StatusWritten, Overtaken, StatusHeld
      <4> QED BY <4>2, <4>3, <4>4
    <3>7. CASE PollCommit
      <4>1. UNCHANGED remote /\ tpl'.status = StatusWritten
        BY <2>2, <3>7 DEF PollCommit, TplRows
      <4> QED BY <3>7, <4>1 DEF PollCommit, TakesStatus, StatusWritten, Overtaken, StatusHeld
    <3>8. CASE MarkApproved \/ RemoveCommit
      <4>1. MarkApproved => manual'
        BY DEF MarkApproved
      <4>2. RemoveCommit => tpl'.status = tpl.status /\ UNCHANGED <<remote, unheard, manual>>
        BY <2>2 DEF RemoveCommit, TplRows, tellVars
      <4> QED BY <3>8, <4>1, <4>2 DEF StatusHeld, TplInv
    <3>9. CASE UNCHANGED <<tpl, remote, unheard, manual>>
      BY <3>9 DEF StatusHeld, TplInv
    <3> QED BY <1>2, <3>1, <3>2, <3>3, <3>4, <3>5, <3>6, <3>7, <3>8, <3>9
         DEF TplNext, SubmitFails, SyncFetch, RemoveLoad, RuleLoad, RuleCommit, RuleGone, tellVars
  <2>4. TextHeld'
    <3>1. CASE Edit \/ EditThere \/ RemoveThere
      BY <3>1 DEF Edit, EditThere, RemoveThere, TextHeld
    <3>2. CASE SubmitSend
      BY <2>2, <3>2 DEF SubmitSend, TextHeld
    <3>3. CASE Review
      BY <2>2, <3>3 DEF Review, TextHeld, TplInv, Copies
    <3>4. CASE ImportCommit
      <4>1. UNCHANGED remote /\ tpl'.text = TextWritten
        BY <2>2, <3>4 DEF ImportCommit, TplRows
      <4>2. CASE TakesText
        BY <3>4, <4>1, <4>2 DEF ImportCommit, TextWritten, TextHeld
      <4>3. CASE ~TakesText
        BY <3>4, <4>1, <4>3 DEF ImportCommit, TextWritten, TextHeld, TplInv
      <4> QED BY <4>2, <4>3
    <3>5. CASE UNCHANGED <<remote, own, unread>> /\ tpl'.text = tpl.text
      BY <3>5 DEF TextHeld, TplInv
    <3>6. CASE SubmitCommit \/ Webhook \/ PollCommit \/ MarkApproved \/ RemoveCommit
      BY <2>2, <3>5, <3>6 DEF SubmitCommit, Webhook, PollCommit, MarkApproved, RemoveCommit, TplRows, tellVars
    <3> QED BY <1>2, <3>1, <3>2, <3>3, <3>4, <3>5, <3>6
         DEF TplNext, SubmitFails, SyncFetch, RemoveLoad, RuleLoad, RuleCommit, RuleGone, tellVars
  <2>5. UsedIsThere'
    <3>1. CASE RuleCommit \/ RuleGone
      BY <3>1 DEF RuleCommit, RuleGone, UsedIsThere, TplInv
    <3>2. CASE RemoveLoad
      BY <3>2 DEF RemoveLoad, UsedIsThere, InUse
    <3>3. CASE RemoveCommit
      BY <2>2, <3>3 DEF RemoveCommit, UsedIsThere, TplInv, TplRows
    <3>4. CASE UNCHANGED <<used, deleting, outrun>> /\ tpl'.deleted = tpl.deleted
      BY <3>4 DEF UsedIsThere, TplInv
    <3>5. CASE Edit \/ SubmitCommit \/ Webhook \/ ImportCommit \/ PollCommit \/ MarkApproved
      BY <2>2, <3>4, <3>5 DEF Edit, SubmitCommit, Webhook, ImportCommit, PollCommit, MarkApproved, TplRows
    <3> QED BY <1>2, <3>1, <3>2, <3>3, <3>4, <3>5
         DEF TplNext, SubmitSend, SubmitFails, Review, EditThere, SyncFetch, RemoveThere, RuleLoad
  <2> QED BY <2>1, <2>3, <2>4, <2>5 DEF TplInv
<1> QED BY <1>1, <1>2

\* What counts as approved is approved by the provider, with the text it approves, and
\* an active rule's template exists, whatever the order of edits on both sides,
\* submissions, reviews, webhooks, syncs, deletions and new rules, but for the races the
\* property names (templates_service.py, webhooks.py, rules_api.py).
THEOREM TemplatesHold == TplSpec => []TemplatesExplained
<1>1. TplInv => TemplatesExplained
  BY DEF TplInv, StatusHeld, TextHeld, UsedIsThere, TemplatesExplained, ApprovedAsHeld, RulesHaveTemplates
<1> QED BY TplInitInv, TplNextInv, <1>1, PTL DEF TplSpec

-----------------------------------------------------------------------------
(* The administration of the rules (RuleBook) *)
USE BookAssumption

BookRows == [id : Nat, anchor : {"doj"}, start : Int, end : Int, freq : {"once"}, n : {1}, days : {{}}, send : {10},
             priority : {0}, active : BOOLEAN, checks : {FALSE}]
Apart(b) == \A i, j \in DOMAIN b : b[i].active /\ b[j].active /\ i # j => ~WindowsOverlap(b[i], b[j])
Keyed(b) == b \in Seq(BookRows) /\ \A i \in DOMAIN b : b[i] = NoRule \/ b[i].id = i
Requested == [a \in Admins |-> request[a]]
RequestOK(q) ==
  /\ q.op \in {"none", "create", "update", "toggle", "delete", "enable", "disable", "reset"}
  /\ q.op = "create" => q.window \in Int \X Int /\ q.active \in BOOLEAN
  /\ q.op = "update" => q.id \in DOMAIN book /\ q.window \in Int \X Int /\ q.active \in BOOLEAN /\ q.was \in BookRows
  /\ q.op = "toggle" => q.id \in DOMAIN book /\ q.active \in BOOLEAN
  /\ q.op = "delete" => q.id \in DOMAIN book
\* A request that is not stale was checked against the book as it is.
Checked(q) ==
  /\ q.op = "create" => ~Clash(BookRow(0, q.window, q.active))
  /\ q.op = "update" => book[q.id] # NoRule /\ q.was = book[q.id] /\ ~Clash(BookRow(q.id, q.window, q.active))
  /\ q.op = "toggle" => /\ book[q.id] # NoRule
                        /\ q.active => ~Clash([book[q.id] EXCEPT !.active = TRUE])
  /\ q.op = "enable" /\ q.seed => \A i \in DOMAIN book : book[i] = NoRule
BookInv == /\ Keyed(book) /\ request = Requested
           /\ \A a \in Admins : RequestOK(request[a]) /\ (a \notin stale => Checked(request[a]))
           /\ \A a \in stale : a \in Admins /\ request[a] # NoRequest
           /\ raced \in BOOLEAN /\ OverlapOnlyByRace

LEMMA NoRuleRow == NoRule \in BookRows /\ NoRule.active = FALSE /\ NoRule.id = 0
BY DEF NoRule, BookRows, NoEnd

LEMMA BookRowIs == ASSUME NEW i \in Nat, NEW w \in Int \X Int, NEW on \in BOOLEAN
  PROVE  /\ BookRow(i, w, on) \in BookRows /\ BookRow(i, w, on).id = i /\ BookRow(i, w, on).active = on
         /\ BookRow(i, w, on).start = w[1] /\ BookRow(i, w, on).end = w[2]
BY DEF BookRow, NoRule, BookRows, NoEnd

LEMMA OverlapSymmetric == ASSUME NEW r \in BookRows, NEW q \in BookRows, WindowsOverlap(r, q) PROVE WindowsOverlap(q, r)
BY DEF WindowsOverlap, BookRows

\* A row that clashes with none may replace another or join the book.
LEMMA PutApart ==
  ASSUME NEW b, b \in Seq(BookRows), Apart(b), NEW i \in DOMAIN b, NEW r \in BookRows,
         r.active => \A j \in DOMAIN b \ {i} : b[j].active => ~WindowsOverlap(r, b[j])
  PROVE  Apart([b EXCEPT ![i] = r])
<1> DEFINE c == [b EXCEPT ![i] = r]
<1>1. DOMAIN c = DOMAIN b /\ c[i] = r /\ \A j \in DOMAIN b \ {i} : c[j] = b[j]
  OBVIOUS
<1>2. \A j \in DOMAIN b : b[j] \in BookRows
  OBVIOUS
<1> HIDE DEF c
<1>3. ASSUME NEW j \in DOMAIN b, NEW k \in DOMAIN b, c[j].active, c[k].active, j # k PROVE ~WindowsOverlap(c[j], c[k])
  <2>1. CASE j = i
    BY <1>1, <1>3, <2>1
  <2>2. CASE k = i
    <3>1. ~WindowsOverlap(r, b[j])
      BY <1>1, <1>3, <2>2
    <3> QED BY <1>1, <1>2, <1>3, <2>2, <3>1, OverlapSymmetric
  <2>3. CASE j # i /\ k # i
    BY <1>1, <1>3, <2>3 DEF Apart
  <2> QED BY <2>1, <2>2, <2>3
<1>4. Apart(c)
  BY <1>1, <1>3 DEF Apart
<1> QED BY <1>4 DEF c

LEMMA AddApart ==
  ASSUME NEW b, b \in Seq(BookRows), Apart(b), NEW r \in BookRows,
         r.active => \A j \in DOMAIN b : b[j].active => ~WindowsOverlap(r, b[j])
  PROVE  Apart(Append(b, r))
<1> DEFINE c == Append(b, r)
           n == Len(b) + 1
<1>1. DOMAIN c = DOMAIN b \cup {n} /\ n \notin DOMAIN b /\ c[n] = r /\ \A j \in DOMAIN b : c[j] = b[j]
  OBVIOUS
<1>2. \A j \in DOMAIN b : b[j] \in BookRows
  OBVIOUS
<1> HIDE DEF c, n
<1>3. ASSUME NEW j \in DOMAIN c, NEW k \in DOMAIN c, c[j].active, c[k].active, j # k PROVE ~WindowsOverlap(c[j], c[k])
  <2>1. CASE j = n
    BY <1>1, <1>3, <2>1
  <2>2. CASE k = n
    <3>1. ~WindowsOverlap(r, b[j]) /\ j \in DOMAIN b
      BY <1>1, <1>3, <2>2
    <3> QED BY <1>1, <1>2, <1>3, <2>2, <3>1, OverlapSymmetric
  <2>3. CASE j # n /\ k # n
    BY <1>1, <1>3, <2>3 DEF Apart
  <2> QED BY <2>1, <2>2, <2>3
<1>4. Apart(c)
  BY <1>3 DEF Apart
<1> QED BY <1>4 DEF c

\* The defaults, put behind rows that are all gone.
LEMMA SeedIs ==
  ASSUME NEW b, b \in Seq(BookRows), Keyed(b)
  PROVE  Keyed(Seed(b)) /\ Len(b) <= Len(Seed(b)) /\ ((\A i \in DOMAIN b : b[i] = NoRule) => Apart(Seed(b)))
<1> DEFINE n == Len(b)
           m == Len(Defaults)
           d == [i \in DOMAIN Defaults |-> BookRow(Len(b) + i, Defaults[i], TRUE)]
<1>1. n \in Nat /\ m \in Nat /\ DOMAIN b = 1..n /\ DOMAIN Defaults = 1..m
  OBVIOUS
<1>2. \A i \in 1..m : Defaults[i] \in Int \X Int
  BY <1>1
<1>3. \A i \in 1..m : /\ d[i] \in BookRows /\ d[i].id = n + i /\ d[i].start = Defaults[i][1] /\ d[i].end = Defaults[i][2]
                      /\ d[i].active = TRUE
  <2> SUFFICES ASSUME NEW i \in 1..m
               PROVE  /\ d[i] \in BookRows /\ d[i].id = n + i /\ d[i].start = Defaults[i][1] /\ d[i].end = Defaults[i][2]
                      /\ d[i].active = TRUE
    OBVIOUS
  <2> DEFINE k == n + i
             w == Defaults[i]
  <2>1. d[i] = BookRow(k, w, TRUE) /\ k \in Nat /\ w \in Int \X Int
    BY <1>1, <1>2
  <2> HIDE DEF k, w
  <2>2. /\ BookRow(k, w, TRUE) \in BookRows /\ BookRow(k, w, TRUE).id = k /\ BookRow(k, w, TRUE).active = TRUE
        /\ BookRow(k, w, TRUE).start = w[1] /\ BookRow(k, w, TRUE).end = w[2]
    BY <2>1, BookRowIs
  <2> HIDE DEF d, n
  <2> QED BY <2>1, <2>2 DEF k, w
<1>4. d \in Seq(BookRows) /\ Len(d) = m
  <2>1. d \in [1..m -> BookRows]
    BY <1>1, <1>3
  <2> HIDE DEF d, m
  <2>2. d \in Seq(BookRows)
    BY <1>1, <2>1
  <2>3. Len(d) \in Nat /\ DOMAIN d = 1..Len(d)
    BY <2>2, LenProperties
  <2> QED BY <1>1, <2>1, <2>2, <2>3
<1>5. Seed(b) = b \o d
  BY DEF Seed
<1> HIDE DEF d, n, m
<1>6. /\ Seed(b) \in Seq(BookRows) /\ Len(b) <= Len(Seed(b)) /\ DOMAIN Seed(b) = 1..(n + m)
      /\ \A i \in 1..n : Seed(b)[i] = b[i]
      /\ \A i \in (n + 1)..(n + m) : Seed(b)[i] = d[i - n]
  <2>1. Len(b \o d) = Len(b) + Len(d) /\ \A i \in 1..(Len(b) + Len(d)) : (b \o d)[i] = IF i <= Len(b) THEN b[i] ELSE d[i - Len(b)]
    BY <1>4, ConcatProperties
  <2>2. b \o d \in Seq(BookRows) /\ DOMAIN (b \o d) = 1..Len(b \o d)
    BY <1>4, ConcatProperties
  <2> QED BY <1>1, <1>4, <1>5, <2>1, <2>2 DEF n
<1>7. Keyed(Seed(b))
  <2> SUFFICES ASSUME NEW i \in 1..(n + m) PROVE Seed(b)[i] = NoRule \/ Seed(b)[i].id = i
    BY <1>6 DEF Keyed
  <2>1. CASE i \in 1..n
    BY <1>1, <1>6, <2>1 DEF Keyed
  <2>2. CASE i \in (n + 1)..(n + m)
    <3> DEFINE k == i - n
    <3>1. k \in 1..m /\ n + k = i
      BY <1>1, <2>2
    <3>2. Seed(b)[i] = d[k]
      BY <1>6, <2>2
    <3> HIDE DEF k
    <3> QED BY <1>3, <3>1, <3>2
  <2> QED BY <1>1, <2>1, <2>2
<1>8. ASSUME \A i \in DOMAIN b : b[i] = NoRule PROVE Apart(Seed(b))
  <2>1. ASSUME NEW i \in 1..m, NEW j \in 1..m, i < j PROVE ~WindowsOverlap(d[i], d[j]) /\ ~WindowsOverlap(d[j], d[i])
    <3>1. Defaults[i][2] # NoEnd /\ Defaults[i][2] < Defaults[j][1]
      BY <1>1, <2>1
    <3>2. Defaults[i][2] \in Int /\ Defaults[j][1] \in Int
      BY <1>2
    <3> QED BY <1>3, <3>1, <3>2 DEF WindowsOverlap
  <2>2. ASSUME NEW i \in 1..(n + m), Seed(b)[i].active PROVE i \in (n + 1)..(n + m)
    <3>1. CASE i \in 1..n
      <4>1. Seed(b)[i] = NoRule
        BY <1>1, <1>6, <1>8, <3>1
      <4> QED BY <2>2, <4>1, NoRuleRow
    <3>2. CASE i \notin 1..n
      BY <1>1, <3>2
    <3> QED BY <3>1, <3>2
  <2>3. ASSUME NEW i \in 1..(n + m), NEW j \in 1..(n + m), Seed(b)[i].active, Seed(b)[j].active, i # j
        PROVE  ~WindowsOverlap(Seed(b)[i], Seed(b)[j])
    <3>1. i \in (n + 1)..(n + m) /\ j \in (n + 1)..(n + m)
      BY <2>2, <2>3
    <3>2. i - n \in 1..m /\ j - n \in 1..m /\ (i - n < j - n \/ j - n < i - n)
      BY <1>1, <2>3, <3>1
    <3> QED BY <1>6, <2>1, <3>1, <3>2
  <2> QED BY <1>6, <2>3 DEF Apart
<1> QED BY <1>6, <1>7, <1>8

LEMMA BookInitInv == BookInit => BookInv
<1> SUFFICES ASSUME BookInit PROVE BookInv
  OBVIOUS
<1>1. book = <<>> /\ DOMAIN book = {}
  BY DEF BookInit
<1>2. Keyed(book)
  BY <1>1 DEF Keyed
<1>3. request = Requested /\ \A a \in Admins : RequestOK(request[a]) /\ Checked(request[a])
  BY DEF BookInit, Requested, NoRequest, RequestOK, Checked
<1>4. OverlapOnlyByRace
  BY <1>1 DEF OverlapOnlyByRace, Active
<1>5. stale = {} /\ raced = FALSE
  BY DEF BookInit
<1> QED BY <1>2, <1>3, <1>4, <1>5 DEF BookInv

LEMMA ApartUnlessRaced == ASSUME OverlapOnlyByRace, ~raced PROVE Apart(book)
BY DEF OverlapOnlyByRace, Apart, Active

\* What the check of a request says of the rows it was checked against.
LEMMA NoClash ==
  ASSUME Keyed(book), NEW r \in BookRows, r.active, ~Clash(r), NEW j \in DOMAIN book, book[j].active, j # r.id
  PROVE  ~WindowsOverlap(r, book[j])
<1>1. book[j].id = j
  BY NoRuleRow DEF Keyed
<1>2. book[j] \in Others(r)
  BY DEF Others, Active
<1> QED BY <1>1, <1>2 DEF Clash, Overlapping

\* A request that was checked leaves the rest as it is.
LEMMA LoadKeeps ==
  ASSUME BookInv, NEW a \in Admins, NEW q, Load(a, q), RequestOK(q), Checked(q)
  PROVE  BookInv'
<1>1. UNCHANGED <<book, stale, raced>> /\ request' = [request EXCEPT ![a] = q] /\ request[a] = NoRequest
  BY DEF Load
<1>2. request = [b \in Admins |-> request[b]]
  BY DEF BookInv, Requested
<1>3. request' = [b \in Admins |-> request'[b]] /\ request'[a] = q /\ \A b \in Admins \ {a} : request'[b] = request[b]
  BY <1>1, <1>2
<1>4. a \notin stale
  BY <1>1 DEF BookInv
<1>5. (request = Requested)'
  BY <1>3 DEF Requested
<1>6. Keyed(book)' /\ raced' \in BOOLEAN /\ OverlapOnlyByRace'
  BY <1>1 DEF BookInv, Keyed, OverlapOnlyByRace, Active
<1>7. ASSUME NEW b \in stale' PROVE b \in Admins /\ request'[b] # NoRequest
  BY <1>1, <1>3, <1>4, <1>7 DEF BookInv
<1>8. ASSUME NEW b \in Admins PROVE RequestOK(request[b])'
  <2>1. RequestOK(request'[b])
    BY <1>3 DEF BookInv
  <2> QED BY <1>1, <2>1 DEF RequestOK
<1>9. ASSUME NEW b \in Admins, b \notin stale' PROVE Checked(request[b])'
  <2>1. Checked(request'[b])
    BY <1>1, <1>3, <1>9 DEF BookInv
  <2>2. \A r : Clash(r)' <=> Clash(r)
    BY <1>1 DEF Clash, Others, Active
  <2> QED BY <1>1, <2>1, <2>2 DEF Checked
<1> QED BY <1>5, <1>6, <1>7, <1>8, <1>9 DEF BookInv

LEMMA LoadsKeep ==
  ASSUME BookInv, NEW a \in Admins,
         CreateLoad(a) \/ UpdateLoad(a) \/ ToggleLoad(a) \/ DeleteLoad(a) \/ EnableLoad(a) \/ DisableLoad(a) \/ ResetLoad(a)
  PROVE  BookInv'
<1>1. \A i \in DOMAIN book : book[i] \in BookRows
  BY DEF BookInv, Keyed
<1>2. CASE CreateLoad(a)
  <2>1. PICK w \in Windows, on \in BOOLEAN :
          /\ ~Clash(BookRow(0, w, on))
          /\ Load(a, [op |-> "create", window |-> w, active |-> on])
    BY <1>2 DEF CreateLoad
  <2> DEFINE q == [op |-> "create", window |-> w, active |-> on]
  <2>2. RequestOK(q) /\ Checked(q)
    BY <2>1 DEF RequestOK, Checked
  <2> HIDE DEF q
  <2> QED BY <2>1, <2>2, LoadKeeps DEF q
<1>3. CASE UpdateLoad(a)
  <2>1. PICK id \in DOMAIN book, w \in Windows, on \in BOOLEAN :
          /\ book[id] # NoRule /\ ~Clash(BookRow(id, w, on))
          /\ Load(a, [op |-> "update", id |-> id, window |-> w, active |-> on, was |-> book[id]])
    BY <1>3 DEF UpdateLoad
  <2> DEFINE q == [op |-> "update", id |-> id, window |-> w, active |-> on, was |-> book[id]]
  <2>2. RequestOK(q) /\ Checked(q)
    BY <1>1, <2>1 DEF RequestOK, Checked
  <2> HIDE DEF q
  <2> QED BY <2>1, <2>2, LoadKeeps DEF q
<1>4. CASE ToggleLoad(a)
  <2>1. PICK id \in DOMAIN book :
          /\ book[id] # NoRule
          /\ ~book[id].active => ~Clash([book[id] EXCEPT !.active = TRUE])
          /\ Load(a, [op |-> "toggle", id |-> id, active |-> ~book[id].active, was |-> book[id]])
    BY <1>4 DEF ToggleLoad
  <2> DEFINE q == [op |-> "toggle", id |-> id, active |-> ~book[id].active, was |-> book[id]]
  <2>2. q.op = "toggle" /\ q.id = id /\ (q.active => ~book[id].active)
    OBVIOUS
  <2>3. q.active \in BOOLEAN
    OBVIOUS
  <2> HIDE DEF q
  <2>4. RequestOK(q) /\ Checked(q)
    BY <2>1, <2>2, <2>3 DEF RequestOK, Checked
  <2> QED BY <2>1, <2>4, LoadKeeps DEF q
<1>5. CASE DeleteLoad(a)
  <2>1. PICK id \in DOMAIN book : Load(a, [op |-> "delete", id |-> id])
    BY <1>5 DEF DeleteLoad
  <2> DEFINE q == [op |-> "delete", id |-> id]
  <2>2. RequestOK(q) /\ Checked(q)
    BY <2>1 DEF RequestOK, Checked
  <2> HIDE DEF q
  <2> QED BY <2>1, <2>2, LoadKeeps DEF q
<1>6. CASE EnableLoad(a)
  <2> DEFINE q == [op |-> "enable", first |-> ~seeded, seed |-> ~seeded /\ \A id \in DOMAIN book : book[id] = NoRule]
  <2>1. Load(a, q) /\ q.op = "enable" /\ (q.seed => \A id \in DOMAIN book : book[id] = NoRule)
    BY <1>6 DEF EnableLoad
  <2> HIDE DEF q
  <2>2. RequestOK(q) /\ Checked(q)
    BY <2>1 DEF RequestOK, Checked
  <2> QED BY <2>1, <2>2, LoadKeeps
<1>7. CASE DisableLoad(a) \/ ResetLoad(a)
  <2>1. PICK op \in {"disable", "reset"} : Load(a, [op |-> op])
    BY <1>7 DEF DisableLoad, ResetLoad
  <2> DEFINE q == [op |-> op]
  <2>2. RequestOK(q) /\ Checked(q)
    BY <2>1 DEF RequestOK, Checked
  <2> HIDE DEF q
  <2> QED BY <2>1, <2>2, LoadKeeps DEF q
<1> QED BY <1>2, <1>3, <1>4, <1>5, <1>6, <1>7

\* Every row of a commit keeps its id, and no row leaves the table.
LEMMA PutKeyed ==
  ASSUME NEW b, Keyed(b), NEW i \in DOMAIN b, NEW r \in BookRows, r = NoRule \/ r.id = i
  PROVE  Keyed([b EXCEPT ![i] = r]) /\ Len([b EXCEPT ![i] = r]) = Len(b)
<1> DEFINE c == [b EXCEPT ![i] = r]
<1>1. b \in Seq(BookRows) /\ \A j \in DOMAIN b : b[j] = NoRule \/ b[j].id = j
  BY DEF Keyed
<1>2. c \in Seq(BookRows) /\ Len(c) = Len(b)
  BY <1>1, ExceptSeq
<1>3. \A j \in DOMAIN c : j \in DOMAIN b /\ c[j] = IF j = i THEN r ELSE b[j]
  BY <1>1
<1> HIDE DEF c
<1>4. Keyed(c)
  BY <1>1, <1>2, <1>3 DEF Keyed
<1> QED BY <1>2, <1>4 DEF c

\* The row a request writes in place of one of the book's.
Rewritten(q) ==
  IF q.op = "delete" \/ book[q.id] = NoRule THEN NoRule
  ELSE IF q.op = "toggle" THEN [book[q.id] EXCEPT !.active = q.active]
  ELSE Updated(book[q.id], q)

LEMMA RewrittenIs ==
  ASSUME BookInv, NEW a \in Admins, request[a].op \in {"update", "toggle", "delete"}
  PROVE  /\ request[a].id \in DOMAIN book /\ Rewritten(request[a]) \in BookRows
         /\ Rewritten(request[a]) = NoRule \/ Rewritten(request[a]).id = request[a].id
         /\ Saved(request[a]) = [book EXCEPT ![request[a].id] = Rewritten(request[a])]
<1> DEFINE q == request[a]
           id == q.id
<1>1. RequestOK(q) /\ Keyed(book)
  BY DEF BookInv
<1>2. id \in DOMAIN book /\ book[id] \in BookRows /\ (book[id] = NoRule \/ book[id].id = id)
  BY <1>1 DEF RequestOK, Keyed
<1>3. CASE q.op = "delete"
  <2>1. Rewritten(q) = NoRule /\ Saved(q) = [book EXCEPT ![id] = NoRule]
    BY <1>3 DEF Rewritten, Saved
  <2> HIDE DEF q
  <2> QED BY <1>2, <2>1, NoRuleRow DEF q
<1>4. CASE q.op = "toggle"
  <2>1. q.active \in BOOLEAN
    BY <1>1, <1>4 DEF RequestOK
  <2>2. Saved(q) = [book EXCEPT ![id] = IF @ = NoRule THEN @ ELSE [@ EXCEPT !.active = q.active]]
    BY <1>4 DEF Saved
  <2>3. Rewritten(q) = IF book[id] = NoRule THEN NoRule ELSE [book[id] EXCEPT !.active = q.active]
    BY <1>4 DEF Rewritten
  <2>4. [book[id] EXCEPT !.active = q.active] \in BookRows /\ [book[id] EXCEPT !.active = q.active].id = book[id].id
    BY <1>2, <2>1 DEF BookRows
  <2> HIDE DEF q
  <2> QED BY <1>2, <2>2, <2>3, <2>4, NoRuleRow DEF q
<1>5. CASE q.op = "update"
  <2> DEFINE s == IF q.window[1] = q.was.start THEN book[id].start ELSE q.window[1]
             e == IF q.window[2] = q.was.end THEN book[id].end ELSE q.window[2]
             o == IF q.active = q.was.active THEN book[id].active ELSE q.active
             r == [book[id] EXCEPT !.start = s, !.end = e, !.active = o]
  <2>1. q.window \in Int \X Int /\ q.active \in BOOLEAN /\ q.was \in BookRows
    BY <1>1, <1>5 DEF RequestOK
  <2>2. s \in Int /\ e \in Int
    BY <1>2, <2>1 DEF BookRows
  <2>3. o \in BOOLEAN
    BY <1>2, <2>1 DEF BookRows
  <2>4. Saved(q) = [book EXCEPT ![id] = IF @ = NoRule THEN @ ELSE Updated(@, q)]
    BY <1>5 DEF Saved
  <2>5. Rewritten(q) = IF book[id] = NoRule THEN NoRule ELSE Updated(book[id], q)
    BY <1>5 DEF Rewritten
  <2>6. Updated(book[id], q) = r
    BY DEF Updated
  <2> HIDE DEF s, e, o, q, id
  <2>7. r \in BookRows /\ r.id = book[id].id
    <3> DEFINE x == [book[id] EXCEPT !.start = s]
               y == [x EXCEPT !.end = e]
    <3>1. x \in BookRows /\ x.id = book[id].id
      BY <1>2, <2>2 DEF BookRows
    <3>2. r = [[x EXCEPT !.end = e] EXCEPT !.active = o]
      BY <1>2 DEF BookRows
    <3> HIDE DEF x, r
    <3>3. y \in BookRows /\ y.id = x.id /\ r = [y EXCEPT !.active = o]
      BY <2>2, <3>1, <3>2 DEF BookRows
    <3> HIDE DEF y
    <3>4. r \in BookRows /\ r.id = y.id
      BY <2>3, <3>3 DEF BookRows
    <3> QED BY <3>1, <3>3, <3>4
  <2> HIDE DEF r
  <2> QED BY <1>2, <2>4, <2>6, <2>7, <2>5, NoRuleRow DEF q, id
<1> QED BY <1>3, <1>4, <1>5

LEMMA SavedKeyed ==
  ASSUME BookInv, NEW a \in Admins
  PROVE  Keyed(Saved(request[a])) /\ Len(book) <= Len(Saved(request[a]))
<1> DEFINE q == request[a]
<1>1. RequestOK(q) /\ Keyed(book) /\ book \in Seq(BookRows) /\ Len(book) \in Nat
  BY DEF BookInv, Keyed
<1>2. CASE q.op \in {"update", "toggle", "delete"}
  <2> DEFINE id == q.id
             r == Rewritten(q)
  <2>1. id \in DOMAIN book /\ r \in BookRows /\ (r = NoRule \/ r.id = id) /\ Saved(q) = [book EXCEPT ![id] = r]
    BY <1>2, RewrittenIs
  <2> HIDE DEF id, r
  <2>2. Keyed([book EXCEPT ![id] = r]) /\ Len([book EXCEPT ![id] = r]) = Len(book)
    BY <1>1, <2>1, PutKeyed
  <2> DEFINE b == [book EXCEPT ![id] = r]
  <2>3. Saved(q) = b /\ Keyed(b) /\ Len(book) <= Len(b)
    BY <1>1, <2>1, <2>2
  <2> HIDE DEF b
  <2> QED BY <2>3
<1>3. CASE q.op = "create"
  <2> DEFINE n == Len(book) + 1
             r == BookRow(n, q.window, q.active)
  <2>0. q.window \in Int \X Int /\ q.active \in BOOLEAN /\ n \in Nat
    BY <1>1, <1>3 DEF RequestOK
  <2>1. r \in BookRows /\ r.id = n /\ n \in Nat
    <3> HIDE DEF q, n
    <3> QED BY <2>0, BookRowIs
  <2>2. Saved(q) = Append(book, r)
    BY <1>3 DEF Saved
  <2> HIDE DEF r, q
  <2>3. Append(book, r) \in Seq(BookRows) /\ Len(Append(book, r)) = n /\ Append(book, r)[n] = r
        /\ \A i \in 1..Len(book) : Append(book, r)[i] = book[i]
    BY <1>1, <2>1
  <2>4. Keyed(Append(book, r))
    <3> SUFFICES ASSUME NEW i \in DOMAIN Append(book, r) PROVE Append(book, r)[i] = NoRule \/ Append(book, r)[i].id = i
      BY <2>3 DEF Keyed
    <3>1. i = n \/ i \in 1..Len(book)
      BY <1>1, <2>3
    <3> QED BY <1>1, <2>1, <2>3, <3>1 DEF Keyed
  <2> QED BY <1>1, <2>2, <2>3, <2>4 DEF q
<1>4. CASE q.op = "enable"
  BY <1>1, <1>4, SeedIs DEF Saved
<1>5. CASE q.op = "reset"
  <2> DEFINE b == [id \in DOMAIN book |-> NoRule]
  <2>1. b \in Seq(BookRows) /\ Len(b) = Len(book)
    <3>1. b \in [1..Len(book) -> BookRows] /\ DOMAIN book = 1..Len(book)
      BY <1>1, NoRuleRow
    <3> QED BY <1>1, <3>1
  <2>2. Keyed(b)
    BY <2>1 DEF Keyed
  <2>3. Saved(q) = Seed(b)
    BY <1>5 DEF Saved
  <2> HIDE DEF b
  <2> QED BY <2>1, <2>2, <2>3, SeedIs
<1>6. CASE q.op \in {"none", "disable"}
  BY <1>1, <1>6 DEF Saved
<1> QED BY <1>1, <1>2, <1>3, <1>4, <1>5, <1>6 DEF RequestOK

LEMMA SameRow ==
  ASSUME NEW r \in BookRows, NEW q \in BookRows, r.id = q.id, r.start = q.start, r.end = q.end, r.active = q.active
  PROVE  r = q
<1>1. ASSUME NEW x \in BookRows
      PROVE  x = [id |-> x.id, anchor |-> "doj", start |-> x.start, end |-> x.end, freq |-> "once", n |-> 1,
                  days |-> {}, send |-> 10, priority |-> 0, active |-> x.active, checks |-> FALSE]
  BY DEF BookRows
<1> QED BY <1>1

\* A commit of what was checked against the book as it is keeps the active rules apart.
LEMMA SavedApart ==
  ASSUME BookInv, NEW a \in Admins, a \notin stale, ~raced
  PROVE  Apart(Saved(request[a]))
<1> DEFINE q == request[a]
<1>1. RequestOK(q) /\ Checked(q) /\ Keyed(book) /\ book \in Seq(BookRows) /\ Apart(book)
  BY ApartUnlessRaced DEF BookInv, Keyed
<1>2. CASE q.op \in {"update", "toggle", "delete"}
  <2> DEFINE id == q.id
             r == Rewritten(q)
  <2>1. id \in DOMAIN book /\ r \in BookRows /\ (r = NoRule \/ r.id = id) /\ Saved(q) = [book EXCEPT ![id] = r]
    BY <1>2, RewrittenIs
  <2>2. book[id] \in BookRows
    BY <1>1, <2>1
  <2>3. r.active => ~Clash(r)
    <3>1. CASE q.op = "delete"
      <4>1. r = NoRule
        BY <3>1 DEF Rewritten
      <4> QED BY <4>1, NoRuleRow
    <3>2. CASE q.op = "toggle"
      <4>1. book[id] # NoRule /\ (q.active => ~Clash([book[id] EXCEPT !.active = TRUE])) /\ q.active \in BOOLEAN
        BY <1>1, <3>2 DEF Checked, RequestOK
      <4>2. r = [book[id] EXCEPT !.active = q.active]
        BY <3>2, <4>1 DEF Rewritten
      <4> HIDE DEF r, id, q
      <4>3. CASE q.active = TRUE
        BY <4>1, <4>2, <4>3
      <4>4. CASE q.active = FALSE
        BY <2>2, <4>2, <4>4 DEF BookRows
      <4> QED BY <4>1, <4>3, <4>4
    <3>3. CASE q.op = "update"
      <4> DEFINE w == q.window
                 on == q.active
                 p == BookRow(id, w, on)
      <4>1. book[id] # NoRule /\ q.was = book[id] /\ ~Clash(p)
        BY <1>1, <3>3 DEF Checked
      <4>2. w \in Int \X Int /\ on \in BOOLEAN
        BY <1>1, <3>3 DEF RequestOK
      <4>3. r = Updated(book[id], q)
        BY <3>3, <4>1 DEF Rewritten
      <4>4. id \in Nat /\ book[id].id = id
        BY <1>1, <2>1, <4>1 DEF Keyed
      <4>5. p \in BookRows /\ p.id = id /\ p.active = on /\ p.start = w[1] /\ p.end = w[2]
        BY <4>2, <4>4, BookRowIs
      <4> HIDE DEF p, r
      <4>6. r = p
        <5>1. r.start = w[1] /\ r.end = w[2]
          BY <2>2, <4>1, <4>2, <4>3 DEF Updated, BookRows
        <5>2. r.active = on
          BY <2>2, <4>1, <4>2, <4>3 DEF Updated, BookRows
        <5>3. r.id = id
          BY <2>1, <2>2, <4>3, <4>4 DEF Updated, BookRows
        <5> HIDE DEF w, on, id, q
        <5> QED BY <2>1, <4>5, <5>1, <5>2, <5>3, SameRow
      <4> QED BY <4>1, <4>6
    <3> QED BY <1>2, <3>1, <3>2, <3>3
  <2>4. ASSUME r.active, NEW j \in DOMAIN book \ {id}, book[j].active PROVE ~WindowsOverlap(r, book[j])
    <3>1. r.id = id
      BY <2>1, <2>4, NoRuleRow
    <3> HIDE DEF r, id
    <3> QED BY <1>1, <2>1, <2>3, <2>4, <3>1, NoClash
  <2> HIDE DEF r, id, q
  <2>5. Apart([book EXCEPT ![id] = r])
    BY <1>1, <2>1, <2>4, PutApart
  <2> QED BY <2>1, <2>5 DEF q
<1>3. CASE q.op = "create"
  <2> DEFINE n == Len(book) + 1
             w == q.window
             on == q.active
             r == BookRow(n, w, on)
             p == BookRow(0, w, on)
  <2>1. w \in Int \X Int /\ on \in BOOLEAN /\ n \in Nat /\ ~Clash(p)
    BY <1>1, <1>3 DEF RequestOK, Checked
  <2>2. /\ r \in BookRows /\ r.active = on /\ r.start = w[1] /\ r.end = w[2]
        /\ p \in BookRows /\ p.id = 0 /\ p.active = on /\ p.start = w[1] /\ p.end = w[2]
    <3>1. w \in Int \X Int /\ on \in BOOLEAN /\ n \in Nat /\ 0 \in Nat
      BY <2>1
    <3> HIDE DEF w, on, n
    <3>2. r \in BookRows /\ r.active = on /\ r.start = w[1] /\ r.end = w[2]
      BY <3>1, BookRowIs
    <3>3. p \in BookRows /\ p.id = 0 /\ p.active = on /\ p.start = w[1] /\ p.end = w[2]
      BY <3>1, BookRowIs
    <3> QED BY <3>2, <3>3
  <2>3. Saved(q) = Append(book, r)
    BY <1>3 DEF Saved
  <2> HIDE DEF r, p, q, w, on, n
  <2>4. ASSUME r.active, NEW j \in DOMAIN book, book[j].active PROVE ~WindowsOverlap(r, book[j])
    <3>1. p.active /\ j # p.id
      BY <1>1, <2>2, <2>4
    <3>2. ~WindowsOverlap(p, book[j])
      BY <1>1, <2>1, <2>2, <2>4, <3>1, NoClash
    <3>3. book[j] \in BookRows
      BY <1>1
    <3> QED BY <2>2, <3>2, <3>3 DEF WindowsOverlap, BookRows
  <2>5. Apart(Append(book, r))
    BY <1>1, <2>2, <2>4, AddApart
  <2> QED BY <2>3, <2>5 DEF q
<1>4. CASE q.op = "enable"
  <2>1. q.seed => \A i \in DOMAIN book : book[i] = NoRule
    BY <1>1, <1>4 DEF Checked
  <2>2. Saved(q) = IF q.seed THEN Seed(book) ELSE book
    BY <1>4 DEF Saved
  <2> QED BY <1>1, <2>1, <2>2, SeedIs
<1>5. CASE q.op = "reset"
  <2> DEFINE b == [id \in DOMAIN book |-> NoRule]
  <2>1. b \in Seq(BookRows) /\ Keyed(b)
    <3>1. b \in [1..Len(book) -> BookRows] /\ DOMAIN book = 1..Len(book) /\ Len(book) \in Nat
      BY <1>1, NoRuleRow
    <3> QED BY <3>1 DEF Keyed
  <2>2. Saved(q) = Seed(b) /\ \A i \in DOMAIN b : b[i] = NoRule
    BY <1>5 DEF Saved
  <2> HIDE DEF b
  <2> QED BY <2>1, <2>2, SeedIs
<1>6. CASE q.op \in {"none", "disable"}
  BY <1>1, <1>6 DEF Saved
<1> QED BY <1>1, <1>2, <1>3, <1>4, <1>5, <1>6 DEF RequestOK

LEMMA CommitKeeps == ASSUME BookInv, NEW a \in Admins, Commit(a) PROVE BookInv'
<1> DEFINE q == request[a]
<1>1. /\ book' = Saved(q) /\ request' = [request EXCEPT ![a] = NoRequest]
      /\ stale' = {b \in Admins \ {a} : request[b] # NoRequest} /\ raced' = (raced \/ a \in stale)
  BY DEF Commit
<1>2. request = [b \in Admins |-> request[b]] /\ raced \in BOOLEAN
  BY DEF BookInv, Requested
<1>3. request' = [b \in Admins |-> request'[b]] /\ request'[a] = NoRequest /\ \A b \in Admins \ {a} : request'[b] = request[b]
  BY <1>1, <1>2
<1>4. Keyed(book)'
  <2>1. Keyed(Saved(q))
    BY SavedKeyed
  <2> QED BY <1>1, <2>1 DEF Keyed
<1>5. DOMAIN book \subseteq DOMAIN book'
  <2>1. Len(book) <= Len(book') /\ book \in Seq(BookRows) /\ book' \in Seq(BookRows)
    BY <1>1, <1>4, SavedKeyed DEF BookInv, Keyed
  <2> QED BY <2>1, LenProperties
<1>6. OverlapOnlyByRace'
  <2> SUFFICES ASSUME ~raced' PROVE Apart(book')
    BY DEF OverlapOnlyByRace, Apart, Active
  <2>1. ~raced /\ a \notin stale
    BY <1>1
  <2> QED BY <1>1, <2>1, SavedApart
<1>7. ASSUME NEW b \in Admins PROVE RequestOK(request[b])'
  <2>1. CASE b = a
    BY <1>3, <2>1 DEF RequestOK, NoRequest
  <2>2. CASE b # a
    <3>1. RequestOK(request[b]) /\ request'[b] = request[b]
      BY <1>3, <2>2 DEF BookInv
    <3> QED BY <1>5, <3>1 DEF RequestOK
  <2> QED BY <2>1, <2>2
<1>8. ASSUME NEW b \in Admins, b \notin stale' PROVE Checked(request[b])'
  <2>1. request'[b] = NoRequest
    BY <1>1, <1>3, <1>8
  <2> QED BY <2>1 DEF Checked, NoRequest
<1>9. ASSUME NEW b \in stale' PROVE b \in Admins /\ request'[b] # NoRequest
  BY <1>1, <1>3, <1>9
<1>10. raced' \in BOOLEAN
  BY <1>1, <1>2
<1>11. (request = Requested)'
  BY <1>3 DEF Requested
<1> QED BY <1>4, <1>6, <1>7, <1>8, <1>9, <1>10, <1>11 DEF BookInv

LEMMA BookNextInv == BookInv /\ [BookNext]_bookVars => BookInv'
<1> SUFFICES ASSUME BookInv, [BookNext]_bookVars PROVE BookInv'
  OBVIOUS
<1>1. CASE BookNext
  <2>1. PICK a \in Admins : \/ CreateLoad(a) \/ UpdateLoad(a) \/ ToggleLoad(a) \/ DeleteLoad(a)
                            \/ EnableLoad(a) \/ DisableLoad(a) \/ ResetLoad(a) \/ Commit(a)
    BY <1>1 DEF BookNext
  <2> QED BY <2>1, LoadsKeep, CommitKeeps
<1>2. CASE UNCHANGED bookVars
  <2>1. UNCHANGED <<book, request, stale, raced>>
    BY <1>2 DEF bookVars
  <2>2. Keyed(book)' /\ OverlapOnlyByRace'
    BY <2>1 DEF BookInv, Keyed, OverlapOnlyByRace, Active
  <2>3. \A r : Clash(r)' <=> Clash(r)
    BY <2>1 DEF Clash, Others, Active
  <2>4. ASSUME NEW a \in Admins PROVE RequestOK(request[a])' /\ (a \notin stale' => Checked(request[a])')
    <3>1. RequestOK(request[a]) /\ (a \notin stale => Checked(request[a]))
      BY DEF BookInv
    <3>2. RequestOK(request[a])'
      BY <2>1, <3>1 DEF RequestOK
    <3>3. ASSUME a \notin stale' PROVE Checked(request[a])'
      BY <2>1, <2>3, <3>1, <3>3 DEF Checked
    <3> QED BY <3>2, <3>3
  <2>5. (request = Requested)' /\ raced' \in BOOLEAN
    BY <2>1 DEF BookInv, Requested
  <2>6. \A a \in stale' : a \in Admins /\ request'[a] # NoRequest
    BY <2>1 DEF BookInv
  <2> QED BY <2>2, <2>4, <2>5, <2>6 DEF BookInv
<1> QED BY <1>1, <1>2

\* Two active rules of an anchor share a day only after a request committed on a check
\* that another commit had made stale (rules_api.py loads, checks and commits without
\* locking the table), whatever is created, edited, switched, deleted, seeded or reset.
THEOREM RulesApart == BookSpec => []OverlapOnlyByRace
<1>1. BookInv => OverlapOnlyByRace
  BY DEF BookInv
<1> QED BY BookInitInv, BookNextInv, <1>1, PTL DEF BookSpec

-----------------------------------------------------------------------------
(* The managers' digests (Digests) *)
USE DigestAssumption

Kinds == {"digest", "eod_report"}
\* The rules whose teams count on a day, for a digest and for a report.
RulesOf(kind) == {r \in DigestRules : r.due \/ kind = "eod_report"}
LogTypes == \A m \in log : /\ m = [kind |-> m.kind, user |-> m.user, part |-> m.part, rule |-> m.rule]
                           /\ m.kind \in Kinds /\ m.part \in {1, 2}
RunTypes == /\ run = [kind |-> run.kind, assigned |-> run.assigned, user |-> run.user, part |-> run.part]
            /\ run.kind \in Kinds \cup {"none"} /\ run.part \in {0, 1, 2}
            /\ run.kind = "none" => run.assigned = {} /\ run.part = 0
\* A person is served by one rule.
OneRuleEach == \A a, b \in run.assigned : a.user = b.user => a = b
OneRuleLogged == \A m, n \in log : m.kind = n.kind /\ m.user = n.user => m.rule = n.rule
\* Nobody of the run under way has a message yet, but for the one being sent in parts.
Unserved == \A a \in run.assigned, m \in log :
              m.kind = run.kind /\ m.user = a.user
                => run.part = 2 /\ run.user = a.user /\ m.part = 1 /\ m.rule = a.rule
InOrder == /\ run.part > 0 => \E a \in run.assigned : a.user = run.user
           /\ run.part = 2 => /\ run.kind = "digest" /\ run.user \in Parts2
                              /\ \E m \in log : m.kind = "digest" /\ m.user = run.user
FirstSent == \A m \in log : \E n \in log : n.kind = m.kind /\ n.user = m.user /\ n.part = 1
Both(u) == \A p \in {1, 2} : \E m \in log : m.kind = "digest" /\ m.user = u /\ m.part = p
PartsSent == \A m \in log : m.kind = "digest" /\ m.user \in Parts2
               => Both(m.user) \/ died \/ (run.kind = "digest" /\ run.user = m.user /\ run.part = 2)
LeadsPassed == ~failed => \A a \in run.assigned : a.rule.audience = "admins" => a.user \notin Leads(RulesOf(run.kind))
DigestInv == /\ LogTypes /\ RunTypes /\ OneRuleEach /\ OneRuleLogged /\ Unserved /\ InOrder /\ PartsSent
             /\ LeadsPassed /\ LeadsGetTheirTeam /\ FirstSent

LEMMA DigestInitInv == DigestInit => DigestInv
BY DEF DigestInit, NoRun, DigestInv, LogTypes, RunTypes, OneRuleEach, OneRuleLogged, Unserved, InOrder, PartsSent,
       LeadsPassed, LeadsGetTheirTeam, FirstSent

\* Of two rules one comes first, so nobody is assigned twice; nobody who leads a team
\* is assigned to an administrators' rule.
LEMMA AssignedOnce ==
  ASSUME NEW R, R \subseteq DigestRules, NEW a \in Assign(R), NEW b \in Assign(R), a.user = b.user
  PROVE  a = b
<1>1. \A x \in Assign(R) : /\ x = [user |-> x.user, rule |-> x.rule] /\ x.rule \in R /\ x.user \in Takes(x.rule, R)
                           /\ \A q \in R : x.user \in Takes(q, R) => ~Wins(q, x.rule)
  BY DEF Assign
<1>2. a.rule \in DigestRules /\ b.rule \in DigestRules /\ ~Wins(a.rule, b.rule) /\ ~Wins(b.rule, a.rule)
  BY <1>1
<1>3. a.rule.id = b.rule.id
  BY <1>2 DEF Wins
<1>4. a.rule = b.rule
  BY <1>2, <1>3
<1> QED BY <1>1, <1>4

LEMMA AssignedNoLead ==
  ASSUME NEW R, NEW a \in Assign(R), a.rule.audience = "admins"
  PROVE  a.user \notin Leads(R)
<1>1. a.user \in Takes(a.rule, R)
  BY DEF Assign
<1> QED BY <1>1 DEF Takes

\* A run that starts serves people who have no message of its kind yet.
LEMMA StartKeeps ==
  ASSUME DigestInv, NEW kind \in Kinds, NEW R, R = RulesOf(kind), NEW ready, Start(kind, R, ready)
  PROVE  DigestInv'
<1>1. PICK lost \in SUBSET R :
        /\ failed' = (failed \/ lost # {})
        /\ run' = IF {a \in Assign(R \ lost) : a.rule \in ready /\ ~Done(kind, a)} = {} THEN NoRun
                  ELSE [NoRun EXCEPT !.kind = kind,
                                     !.assigned = {a \in Assign(R \ lost) : a.rule \in ready /\ ~Done(kind, a)}]
  BY DEF Start
<1> DEFINE todo == {a \in Assign(R \ lost) : a.rule \in ready /\ ~Done(kind, a)}
<1>2. UNCHANGED <<log, died>> /\ run = NoRun
  BY DEF Start
<1>3. \A a \in todo : a \in Assign(R \ lost) /\ ~Done(kind, a)
  OBVIOUS
<1>4. run' = IF todo = {} THEN NoRun ELSE [NoRun EXCEPT !.kind = kind, !.assigned = todo]
  BY <1>1
<1> HIDE DEF todo
<1>5. \/ run' = NoRun
      \/ run' = [kind |-> kind, assigned |-> todo, user |-> "none", part |-> 0]
  BY <1>4 DEF NoRun
<1>6. run'.assigned \subseteq todo /\ run'.part = 0 /\ (run'.assigned # {} => run'.kind = kind)
  BY <1>5 DEF NoRun
<1>7. RunTypes'
  BY <1>5 DEF RunTypes, NoRun, Kinds
<1>8. OneRuleEach'
  <2>1. R \ lost \subseteq DigestRules
    BY DEF RulesOf
  <2> QED BY <1>3, <1>6, <2>1, AssignedOnce DEF OneRuleEach
<1>9. Unserved'
  <2> SUFFICES ASSUME NEW a \in run'.assigned, NEW m \in log, m.kind = kind, m.user = a.user PROVE FALSE
    BY <1>2, <1>6 DEF Unserved
  <2>1. PICK n \in log : n.kind = kind /\ n.user = a.user /\ n.part = 1
    BY DEF DigestInv, FirstSent
  <2> QED BY <1>3, <1>6, <2>1 DEF Done, Key1
<1>10. LeadsPassed'
  <2> SUFFICES ASSUME ~failed', NEW a \in run'.assigned, a.rule.audience = "admins" PROVE a.user \notin Leads(RulesOf(run'.kind))
    BY DEF LeadsPassed, RulesOf, Leads
  <2>1. lost = {} /\ R \ lost = R
    BY <1>1
  <2>2. a \in Assign(R) /\ run'.kind = kind
    BY <1>3, <1>6, <2>1
  <2> QED BY <2>2, AssignedNoLead
<1>11. LogTypes' /\ OneRuleLogged' /\ FirstSent' /\ InOrder'
  BY <1>2, <1>6 DEF DigestInv, LogTypes, OneRuleLogged, FirstSent, InOrder
<1>12. PartsSent'
  BY <1>2 DEF DigestInv, PartsSent, Both, NoRun
<1>13. LeadsGetTheirTeam'
  BY <1>1, <1>2 DEF DigestInv, LeadsGetTheirTeam, Leads
<1> QED BY <1>7, <1>8, <1>9, <1>10, <1>11, <1>12, <1>13 DEF DigestInv

\* A part adds one row, of the person and the rule it is sent for.
LEMMA PartAdds ==
  ASSUME DigestInv, Part
  PROVE  \E a \in run.assigned :
           /\ a.user = run.user
           /\ log' = log \cup {[kind |-> run.kind, user |-> a.user, part |-> run.part, rule |-> a.rule]}
           /\ run' = IF run.kind = "digest" /\ run.part = 1 /\ a.user \in Parts2
                     THEN [run EXCEPT !.part = 2]
                     ELSE [run EXCEPT !.assigned = run.assigned \ {a}, !.user = "none", !.part = 0]
<1>1. PICK a \in {x \in run.assigned : x.user = run.user} :
        /\ log' = IF \E m \in log : m.part = run.part /\
                       Key1(m.kind, m.rule, m.user) = Key1(run.kind, a.rule, a.user) THEN log
                 ELSE log \cup {[kind |-> run.kind, user |-> a.user, part |-> run.part, rule |-> a.rule]}
        /\ run' = IF run.kind = "digest" /\ run.part = 1 /\ a.user \in Parts2
                  THEN [run EXCEPT !.part = 2]
                  ELSE [run EXCEPT !.assigned = @ \ {a}, !.user = "none", !.part = 0]
  BY DEF Part
<1>2. ASSUME NEW m \in log, m.part = run.part, Key1(m.kind, m.rule, m.user) = Key1(run.kind, a.rule, a.user)
      PROVE  FALSE
  <2>1. m.kind = run.kind /\ m.user = a.user
    BY <1>2 DEF Key1
  <2> QED BY <1>2, <2>1 DEF DigestInv, Unserved
<1> QED BY <1>1, <1>2

LEMMA PartKeeps == ASSUME DigestInv, Part PROVE DigestInv'
<1>1. PICK a \in run.assigned :
        /\ a.user = run.user
        /\ log' = log \cup {[kind |-> run.kind, user |-> a.user, part |-> run.part, rule |-> a.rule]}
        /\ run' = IF run.kind = "digest" /\ run.part = 1 /\ a.user \in Parts2
                  THEN [run EXCEPT !.part = 2]
                  ELSE [run EXCEPT !.assigned = run.assigned \ {a}, !.user = "none", !.part = 0]
  BY PartAdds
<1> DEFINE row == [kind |-> run.kind, user |-> a.user, part |-> run.part, rule |-> a.rule]
<1>2. row.kind = run.kind /\ row.user = run.user /\ row.part = run.part /\ row.rule = a.rule
      /\ row = [kind |-> row.kind, user |-> row.user, part |-> row.part, rule |-> row.rule]
  BY <1>1
<1>3. log' = log \cup {row}
  BY <1>1
<1> HIDE DEF row
<1>4. run.kind \in Kinds /\ run.part \in {1, 2} /\ UNCHANGED <<failed, died>>
  BY DEF Part, DigestInv, RunTypes
<1>5. run' = [kind |-> run'.kind, assigned |-> run'.assigned, user |-> run'.user, part |-> run'.part]
  BY <1>1 DEF DigestInv, RunTypes
<1>6. \/ /\ run.kind = "digest" /\ run.part = 1 /\ run.user \in Parts2
         /\ run'.kind = run.kind /\ run'.assigned = run.assigned /\ run'.user = run.user /\ run'.part = 2
      \/ /\ ~(run.kind = "digest" /\ run.part = 1 /\ run.user \in Parts2)
         /\ run'.kind = run.kind /\ run'.assigned = run.assigned \ {a} /\ run'.user = "none" /\ run'.part = 0
  BY <1>1 DEF DigestInv, RunTypes
<1>7. LogTypes'
  BY <1>2, <1>3, <1>4 DEF DigestInv, LogTypes
<1>8. RunTypes'
  BY <1>4, <1>5, <1>6 DEF RunTypes, Kinds
<1>9. OneRuleEach'
  BY <1>6 DEF DigestInv, OneRuleEach
\* A row there is for this person is the first part, of the same rule.
<1>10. ASSUME NEW m \in log, m.kind = run.kind, m.user = run.user PROVE m.part = 1 /\ m.rule = a.rule /\ run.part = 2
  BY <1>1, <1>10 DEF DigestInv, Unserved
<1>11. OneRuleLogged'
  BY <1>2, <1>3, <1>10 DEF DigestInv, OneRuleLogged
<1>12. FirstSent'
  <2>1. ASSUME NEW m \in log PROVE \E n \in log' : n.kind = m.kind /\ n.user = m.user /\ n.part = 1
    BY <1>3 DEF DigestInv, FirstSent
  <2>2. \E n \in log' : n.kind = row.kind /\ n.user = row.user /\ n.part = 1
    <3>1. CASE run.part = 1
      BY <1>2, <1>3, <3>1
    <3>2. CASE run.part = 2
      BY <1>2, <2>1, <3>2 DEF DigestInv, InOrder
    <3> QED BY <1>4, <3>1, <3>2
  <2> QED BY <1>3, <2>1, <2>2 DEF FirstSent
<1>13. InOrder'
  <2>1. CASE run'.part = 2
    <3>1. run.user \in Parts2 /\ run'.user = run.user /\ run.kind = "digest" /\ a \in run'.assigned /\ a.user = run'.user
      BY <1>1, <1>6, <2>1
    <3>2. row \in log' /\ row.kind = "digest" /\ row.user = run'.user
      BY <1>2, <1>3, <3>1
    <3>3. run'.kind = "digest"
      BY <1>6, <2>1
    <3> QED BY <3>1, <3>2, <3>3 DEF InOrder
  <2>2. CASE run'.part = 0
    BY <2>2 DEF InOrder
  <2> QED BY <1>6, <2>1, <2>2
<1>14. Unserved'
  <2> SUFFICES ASSUME NEW b \in run'.assigned, NEW m \in log', m.kind = run'.kind, m.user = b.user
               PROVE  run'.part = 2 /\ run'.user = b.user /\ m.part = 1 /\ m.rule = b.rule
    BY DEF Unserved
  <2>1. b \in run.assigned /\ m.kind = run.kind
    BY <1>6
  <2>2. CASE b = a
    BY <1>1, <1>2, <1>3, <1>6, <1>10, <2>1, <2>2
  <2>3. CASE b # a
    <3>1. b.user # run.user
      BY <1>1, <2>1, <2>3 DEF DigestInv, OneRuleEach
    <3>2. m \in log
      BY <1>2, <1>3, <3>1
    <3> QED BY <2>1, <3>1, <3>2 DEF DigestInv, Unserved
  <2> QED BY <2>2, <2>3
<1>15. PartsSent'
  <2> SUFFICES ASSUME NEW m \in log', m.kind = "digest", m.user \in Parts2, ~died
               PROVE  Both(m.user)' \/ (run'.kind = "digest" /\ run'.user = m.user /\ run'.part = 2)
    BY <1>4 DEF PartsSent
  <2>1. CASE m.user = run.user /\ run.kind = "digest"
    <3>1. CASE run.part = 1
      BY <1>6, <2>1, <3>1
    <3>2. CASE run.part = 2
      <4>1. PICK n \in log : n.kind = "digest" /\ n.user = run.user
        BY <3>2 DEF DigestInv, InOrder
      <4>2. n.part = 1
        BY <1>10, <2>1, <4>1
      <4> QED BY <1>2, <1>3, <2>1, <3>2, <4>1, <4>2 DEF Both
    <3> QED BY <1>4, <3>1, <3>2
  <2>2. CASE ~(m.user = run.user /\ run.kind = "digest")
    <3>1. m \in log
      BY <1>2, <1>3, <2>2
    <3>2. Both(m.user)
      BY <2>2, <3>1 DEF DigestInv, PartsSent
    <3> QED BY <1>3, <3>2 DEF Both
  <2> QED BY <2>1, <2>2
<1>16. LeadsPassed'
  BY <1>4, <1>6 DEF DigestInv, LeadsPassed, RulesOf, Leads
<1>17. LeadsGetTheirTeam'
  <2> SUFFICES ASSUME ~failed, NEW m \in log', m.rule.audience = "admins"
               PROVE  m.user \notin Leads({r \in DigestRules : r.due \/ m.kind = "eod_report"})
    BY <1>4 DEF LeadsGetTheirTeam, Leads
  <2>1. CASE m \in log
    BY <2>1 DEF DigestInv, LeadsGetTheirTeam
  <2>2. CASE m = row
    BY <1>1, <1>2, <2>2 DEF DigestInv, LeadsPassed, RulesOf
  <2> QED BY <1>3, <2>1, <2>2
<1> QED BY <1>7, <1>8, <1>9, <1>11, <1>12, <1>13, <1>14, <1>15, <1>16, <1>17 DEF DigestInv

\* The other steps of a run leave the log alone.
LEMMA RunKeeps == ASSUME DigestInv, Recipient \/ RunEnds \/ RunDies PROVE DigestInv'
<1>1. UNCHANGED <<log, failed>>
  BY DEF Recipient, RunEnds, RunDies
<1>2. \/ run' = NoRun
      \/ \E a \in run.assigned : run' = [run EXCEPT !.assigned = run.assigned \ {a}] /\ run.part = 0 /\ run.kind # "none"
      \/ \E a \in run.assigned : run' = [run EXCEPT !.user = a.user, !.part = 1] /\ run.part = 0 /\ run.kind # "none"
  BY DEF Recipient, RunEnds, RunDies
<1>3. RunTypes
  BY DEF DigestInv
<1>4. ASSUME NEW a \in run.assigned, run' = [run EXCEPT !.assigned = run.assigned \ {a}], run.part = 0
      PROVE  run'.kind = run.kind /\ run'.assigned = run.assigned \ {a} /\ run'.user = run.user /\ run'.part = 0
  BY <1>3, <1>4 DEF RunTypes
<1>5. ASSUME NEW a \in run.assigned, run' = [run EXCEPT !.user = a.user, !.part = 1], run.part = 0
      PROVE  run'.kind = run.kind /\ run'.assigned = run.assigned /\ run'.user = a.user /\ run'.part = 1
  BY <1>3, <1>5 DEF RunTypes
<1>6. run'.assigned \subseteq run.assigned /\ (run'.assigned # {} => run'.kind = run.kind)
  <2>1. CASE run' = NoRun
    BY <2>1 DEF NoRun
  <2> QED BY <1>2, <1>4, <1>5, <2>1
<1>7. RunTypes'
  <2>1. CASE run' = NoRun
    BY <2>1 DEF NoRun, RunTypes
  <2>2. ASSUME NEW a \in run.assigned, run' = [run EXCEPT !.assigned = run.assigned \ {a}], run.part = 0, run.kind # "none"
        PROVE  RunTypes'
    BY <1>3, <1>4, <2>2 DEF RunTypes
  <2>3. ASSUME NEW a \in run.assigned, run' = [run EXCEPT !.user = a.user, !.part = 1], run.part = 0, run.kind # "none"
        PROVE  RunTypes'
    BY <1>3, <1>5, <2>3 DEF RunTypes
  <2> QED BY <1>2, <2>1, <2>2, <2>3
<1>8. run'.part # 2 /\ (run'.part > 0 => \E a \in run'.assigned : a.user = run'.user)
  <2>1. ASSUME NEW a \in run.assigned, run' = [run EXCEPT !.assigned = run.assigned \ {a}], run.part = 0
        PROVE  run'.part = 0
    BY <1>4, <2>1
  <2>2. ASSUME NEW a \in run.assigned, run' = [run EXCEPT !.user = a.user, !.part = 1], run.part = 0
        PROVE  run'.part = 1 /\ run'.user = a.user /\ a \in run'.assigned
    BY <1>5, <2>2
  <2>3. run'.part = 0 \/ (run'.part = 1 /\ \E a \in run'.assigned : a.user = run'.user)
    <3>1. run' = NoRun => run'.part = 0
      BY DEF NoRun
    <3> QED BY <1>2, <2>1, <2>2, <3>1
  <2>4. CASE run'.part = 0
    <3>1. run'.part # 2 /\ ~(run'.part > 0)
      BY ONLY <2>4
    <3> QED BY <3>1
  <2>5. CASE run'.part = 1 /\ \E a \in run'.assigned : a.user = run'.user
    <3>1. run'.part # 2
      BY <2>5
    <3> QED BY <2>5, <3>1
  <2> QED BY <2>3, <2>4, <2>5
<1>9. OneRuleEach' /\ OneRuleLogged' /\ FirstSent' /\ LogTypes'
  BY <1>1, <1>6 DEF DigestInv, OneRuleEach, OneRuleLogged, FirstSent, LogTypes
<1>10. InOrder'
  BY <1>8 DEF InOrder
<1>11. Unserved'
  <2> SUFFICES ASSUME NEW a \in run'.assigned, NEW m \in log, m.kind = run'.kind, m.user = a.user PROVE FALSE
    BY <1>1 DEF Unserved
  <2>1. a \in run.assigned /\ run'.kind = run.kind /\ run.part = 2
    BY <1>6 DEF DigestInv, Unserved
  <2>2. run' # NoRun
    BY DEF NoRun
  <2> QED BY <1>2, <2>1, <2>2
<1>12. PartsSent'
  <2>1. run.part = 2 => died'
    <3>1. CASE RunEnds
      BY <3>1 DEF RunEnds, DigestInv, InOrder
    <3>2. CASE RunDies
      BY <3>2 DEF RunDies
    <3>3. CASE Recipient
      <4>1. run.part = 0
        BY <3>3 DEF Recipient
      <4> QED BY <4>1
    <3> QED BY <3>1, <3>2, <3>3
  <2>2. died => died'
    BY DEF Recipient, RunEnds, RunDies
  <2>3. \A u : Both(u)' <=> Both(u)
    BY <1>1 DEF Both
  <2> QED BY <1>1, <2>1, <2>2, <2>3 DEF DigestInv, PartsSent
<1>13. LeadsPassed'
  BY <1>1, <1>6 DEF DigestInv, LeadsPassed, RulesOf, Leads
<1>14. LeadsGetTheirTeam'
  BY <1>1 DEF DigestInv, LeadsGetTheirTeam, Leads
<1> QED BY <1>7, <1>9, <1>10, <1>11, <1>12, <1>13, <1>14 DEF DigestInv

LEMMA DigestNextInv == DigestInv /\ [DigestNext]_digestVars => DigestInv'
<1> SUFFICES ASSUME DigestInv, [DigestNext]_digestVars PROVE DigestInv'
  OBVIOUS
<1>1. CASE DigestStart
  <2>1. RulesOf("digest") = {r \in DigestRules : r.due}
    BY DEF RulesOf
  <2>2. \E ready : Start("digest", RulesOf("digest"), ready)
    BY <1>1, <2>1 DEF DigestStart
  <2> QED BY <2>2, StartKeeps DEF Kinds
<1>2. CASE EodStart
  <2>1. RulesOf("eod_report") = DigestRules
    BY DEF RulesOf
  <2>2. Start("eod_report", RulesOf("eod_report"), DigestRules)
    BY <1>2, <2>1 DEF EodStart
  <2> QED BY <2>2, StartKeeps DEF Kinds
<1>3. CASE UNCHANGED <<run, log, failed, died>>
  <2>1. LogTypes' /\ RunTypes' /\ OneRuleEach' /\ OneRuleLogged' /\ FirstSent'
    BY <1>3 DEF DigestInv, LogTypes, RunTypes, OneRuleEach, OneRuleLogged, FirstSent
  <2>2. Unserved' /\ InOrder'
    BY <1>3 DEF DigestInv, Unserved, InOrder
  <2>3. PartsSent'
    BY <1>3 DEF DigestInv, PartsSent, Both
  <2>4. LeadsPassed' /\ LeadsGetTheirTeam'
    BY <1>3 DEF DigestInv, LeadsPassed, LeadsGetTheirTeam, RulesOf, Leads
  <2> QED BY <2>1, <2>2, <2>3, <2>4 DEF DigestInv
<1> QED BY <1>1, <1>2, <1>3, PartKeeps, RunKeeps DEF DigestNext, digestVars, HourPasses

\* Everybody gets the digest of one rule a day and kind of message, in two parts where
\* their list needs two, and team leads never the whole organisation's, whatever
\* look-ups fail, whenever runs start, die and are repeated (digest_engine.py,
\* eod_report.py).
THEOREM OneDigestADay == DigestSpec => []DigestsExplained
<1>1. ASSUME DigestInv PROVE OneDigestEach
  <2> SUFFICES ASSUME NEW u \in DOMAIN Below, NEW kind \in {"digest", "eod_report"}
               PROVE  /\ \A m, n \in Rows(kind, u) : m.rule = n.rule
                      /\ kind = "digest" /\ u \in Parts2 /\ Rows(kind, u) # {} =>
                           Cardinality(Rows(kind, u)) = 2 \/ died \/ run.user = u
    BY DEF OneDigestEach
  <2>1. \A m, n \in Rows(kind, u) : m.rule = n.rule
    BY <1>1 DEF Rows, DigestInv, OneRuleLogged
  <2>2. ASSUME kind = "digest", u \in Parts2, Rows(kind, u) # {}, ~died, run.user # u
        PROVE  Cardinality(Rows(kind, u)) = 2
    <3>1. Both(u)
      BY <1>1, <2>2 DEF Rows, DigestInv, PartsSent
    <3>2. PICK m, n \in log : /\ m.kind = "digest" /\ m.user = u /\ m.part = 1
                              /\ n.kind = "digest" /\ n.user = u /\ n.part = 2
      BY <3>1 DEF Both
    <3>3. m \in Rows(kind, u) /\ n \in Rows(kind, u)
      BY <2>2, <3>2 DEF Rows
    <3>4. \A x \in Rows(kind, u) : x = [kind |-> kind, user |-> u, part |-> x.part, rule |-> m.rule] /\ x.part \in {1, 2}
      BY <1>1, <2>1, <3>3 DEF Rows, DigestInv, LogTypes
    <3>5. \A x \in Rows(kind, u) : x = m \/ x = n
      BY <3>2, <3>3, <3>4
    <3>6. Rows(kind, u) = {m} \cup {n} /\ n \notin {m}
      <4>1. m # n
        BY <3>2
      <4> DEFINE R == Rows(kind, u)
      <4>2. m \in R /\ n \in R /\ \A x \in R : x = m \/ x = n
        BY <3>3, <3>5
      <4> HIDE DEF R
      <4>3. R = {m} \cup {n}
        BY <4>2
      <4> QED BY <4>1, <4>3 DEF R
    <3>7. IsFiniteSet({m}) /\ Cardinality({m}) = 1
      BY FS_Singleton
    <3>8. Cardinality({m} \cup {n}) = Cardinality({m}) + 1
      BY <3>6, <3>7, FS_AddElement
    <3>9. Cardinality({m} \cup {n}) = 1 + 1
      BY <3>7, <3>8, Zenon
    <3>10. Cardinality(Rows(kind, u)) = 1 + 1
      BY <3>6, <3>9, Zenon
    <3> QED BY <3>10
  <2> QED BY <2>1, <2>2
<1>2. DigestInv => DigestsExplained
  BY <1>1 DEF DigestInv, DigestsExplained
<1> QED BY DigestInitInv, DigestNextInv, <1>2, PTL DEF DigestSpec

-----------------------------------------------------------------------------
(* The rule functions (ClawbackCases) *)
USE CasesAssumption

LEMMA SmallestOfAWeek ==
  ASSUME NEW S, S \subseteq 0 .. 6, NEW k \in S
  PROVE  \E m \in S : \A j \in S : m =< j
<1>1. ASSUME NEW n \in S, \A i \in 0 .. (n - 1) : i \notin S PROVE \E m \in S : \A j \in S : m =< j
  <2>1. ASSUME NEW j \in S PROVE n =< j
    <3>1. n \in Int /\ j \in Int /\ j >= 0
      OBVIOUS
    <3>2. j \notin 0 .. (n - 1)
      BY <1>1
    <3> QED BY <3>1, <3>2
  <2> QED BY <2>1
<1>2. CASE 0 \in S
  <2>1. 0 .. (0 - 1) = {}
    OBVIOUS
  <2> QED BY <1>1, <1>2, <2>1
<1>3. CASE 0 \notin S /\ 1 \in S
  <2>1. \A i \in 0 .. (1 - 1) : i = 0
    OBVIOUS
  <2> QED BY <1>1, <1>3, <2>1
<1>4. CASE 0 \notin S /\ 1 \notin S /\ 2 \in S
  <2>1. \A i \in 0 .. (2 - 1) : i = 0 \/ i = 1
    OBVIOUS
  <2> QED BY <1>1, <1>4, <2>1
<1>5. CASE 0 \notin S /\ 1 \notin S /\ 2 \notin S /\ 3 \in S
  <2>1. \A i \in 0 .. (3 - 1) : i = 0 \/ i = 1 \/ i = 2
    OBVIOUS
  <2> QED BY <1>1, <1>5, <2>1
<1>6. CASE 0 \notin S /\ 1 \notin S /\ 2 \notin S /\ 3 \notin S /\ 4 \in S
  <2>1. \A i \in 0 .. (4 - 1) : i = 0 \/ i = 1 \/ i = 2 \/ i = 3
    OBVIOUS
  <2> QED BY <1>1, <1>6, <2>1
<1>7. CASE 0 \notin S /\ 1 \notin S /\ 2 \notin S /\ 3 \notin S /\ 4 \notin S /\ 5 \in S
  <2>1. \A i \in 0 .. (5 - 1) : i = 0 \/ i = 1 \/ i = 2 \/ i = 3 \/ i = 4
    OBVIOUS
  <2> QED BY <1>1, <1>7, <2>1
<1>8. CASE 0 \notin S /\ 1 \notin S /\ 2 \notin S /\ 3 \notin S /\ 4 \notin S /\ 5 \notin S /\ 6 \in S
  <2>1. \A i \in 0 .. (6 - 1) : i = 0 \/ i = 1 \/ i = 2 \/ i = 3 \/ i = 4 \/ i = 5
    OBVIOUS
  <2> QED BY <1>1, <1>8, <2>1
<1>9. k = 0 \/ k = 1 \/ k = 2 \/ k = 3 \/ k = 4 \/ k = 5 \/ k = 6
  OBVIOUS
<1> QED BY <1>2, <1>3, <1>4, <1>5, <1>6, <1>7, <1>8, <1>9

\* Looking back seven days finds every matched day since the last working one, because
\* the day a week before a working day is a working day.
LEMMA LooksBackFarEnough ==
  ASSUME NEW rules, NEW i, NEW working, NEW d \in Int
  PROVE  (RuleDue(rules, i, d, working) # NoRule)
           <=> /\ IsWorkingDay(d, working)
               /\ \E x \in d - 20 .. d : /\ RuleOfDay(rules, i, x) # NoRule
                                         /\ \A y \in x .. d - 1 : ~IsWorkingDay(y, working)
<1> DEFINE hits == {k \in Gap(d, working) : RuleOfDay(rules, i, d - k) # NoRule}
<1>1. RuleDue(rules, i, d, working)
        = IF ~IsWorkingDay(d, working) \/ hits = {} THEN NoRule
          ELSE RuleOfDay(rules, i, d - (CHOOSE k \in hits : \A j \in hits : k =< j))
  BY DEF RuleDue
<1>2. hits \subseteq 0 .. 6 /\ \A k \in hits : /\ RuleOfDay(rules, i, d - k) # NoRule
                                               /\ \A j \in 1 .. k : ~IsWorkingDay(d - j, working)
  BY DEF Gap, LookBack
<1>3. ASSUME NEW k \in 0 .. 6, RuleOfDay(rules, i, d - k) # NoRule, \A j \in 1 .. k : ~IsWorkingDay(d - j, working)
      PROVE  k \in hits
  BY <1>3 DEF Gap, LookBack
<1> HIDE DEF hits
<1>4. ASSUME RuleDue(rules, i, d, working) # NoRule
      PROVE  /\ IsWorkingDay(d, working)
             /\ \E x \in d - 20 .. d : /\ RuleOfDay(rules, i, x) # NoRule
                                       /\ \A y \in x .. d - 1 : ~IsWorkingDay(y, working)
  <2>1. IsWorkingDay(d, working) /\ hits # {}
    BY <1>1, <1>4
  <2>2. PICK k \in hits : TRUE
    BY <2>1
  <2> DEFINE x == d - k
  <2>3. k \in 0 .. 6 /\ x \in d - 20 .. d /\ RuleOfDay(rules, i, x) # NoRule
    BY <1>2
  <2>4. ASSUME NEW y \in x .. d - 1 PROVE ~IsWorkingDay(y, working)
    <3>1. d - y \in 1 .. k /\ d - (d - y) = y
      BY <2>3
    <3>2. ~IsWorkingDay(d - (d - y), working)
      BY <1>2, <3>1
    <3> QED BY <3>1, <3>2
  <2> HIDE DEF x
  <2> QED BY <2>1, <2>3, <2>4
<1>5. ASSUME IsWorkingDay(d, working), NEW x \in d - 20 .. d, RuleOfDay(rules, i, x) # NoRule,
             \A y \in x .. d - 1 : ~IsWorkingDay(y, working)
      PROVE  RuleDue(rules, i, d, working) # NoRule
  <2> DEFINE k == d - x
  <2>1. k \in 0 .. 20 /\ d - k = x
    OBVIOUS
  <2>2. k <= 6
    <3> SUFFICES ASSUME k >= 7 PROVE FALSE
      BY <2>1
    <3>1. d - 7 \in x .. d - 1 /\ (d - 7) % 7 = d % 7
      BY <2>1
    <3> QED BY <1>5, <3>1 DEF IsWorkingDay
  <2>3. ASSUME NEW j \in 1 .. k PROVE ~IsWorkingDay(d - j, working)
    <3>1. d - j \in x .. d - 1
      BY <2>1
    <3> QED BY <1>5, <3>1
  <2>4. k \in hits
    BY <1>3, <1>5, <2>1, <2>2, <2>3
  <2> HIDE DEF k
  <2>5. \E m \in hits : \A j \in hits : m =< j
    BY <1>2, <2>4, SmallestOfAWeek
  <2>6. (CHOOSE m \in hits : \A j \in hits : m =< j) \in hits
    BY <2>5
  <2> QED BY <1>1, <1>2, <1>5, <2>4, <2>6
<1> QED BY <1>4, <1>5

\* Whatever the rule, the clawback and the working days, a matched day is caught up on
\* the next working day and on no other (clawback_engine.py, rule_due).
THEOREM NoDayIsLost == CasesSpec => []CatchUpComplete
<1>1. CatchUpComplete
  <2> SUFFICES ASSUME IsCase("schedule"), NEW d \in CaseDays
               PROVE  (RuleDue({case.rule}, case.item, d, case.working) # NoRule)
                        <=> /\ IsWorkingDay(d, case.working)
                            /\ \E x \in d - 20 .. d : /\ RuleOfDay({case.rule}, case.item, x) # NoRule
                                                      /\ \A y \in x .. d - 1 : ~IsWorkingDay(y, case.working)
    BY DEF CatchUpComplete
  <2>1. d \in Int
    OBVIOUS
  <2> DEFINE R == {case.rule}
             i == case.item
             w == case.working
  <2> HIDE DEF R, i, w
  <2>2. (RuleDue(R, i, d, w) # NoRule)
          <=> /\ IsWorkingDay(d, w)
              /\ \E x \in d - 20 .. d : /\ RuleOfDay(R, i, x) # NoRule
                                        /\ \A y \in x .. d - 1 : ~IsWorkingDay(y, w)
    BY <2>1, LooksBackFarEnough
  <2> QED BY <2>2 DEF R, i, w
<1> QED BY <1>1, PTL

PickedRules == IsCase("rules") => /\ case.a \in CaseRules /\ ValidRule(case.a)
                                  /\ case.b \in CaseRules /\ ValidRule(case.b)

LEMMA OverlapIsCommonDay ==
  ASSUME NEW a \in CaseRules, NEW b \in CaseRules, ValidRule(a), ValidRule(b)
  PROVE  (a.anchor = b.anchor /\ \E n \in CaseNumbers : InWindow(a, n) /\ InWindow(b, n)) <=> WindowsOverlap(a, b)
<1>1. /\ a.start \in CaseNumbers /\ a.end \in Int
      /\ b.start \in CaseNumbers /\ b.end \in Int
  OBVIOUS
<1>2. (a.end # NoEnd => a.end >= a.start) /\ (b.end # NoEnd => b.end >= b.start)
  BY Zenon DEF ValidRule
<1>3. a.start \in Int /\ b.start \in Int
  BY ONLY <1>1 DEF CaseNumbers
<1>4. /\ a.start \in CaseNumbers /\ a.end \in Int /\ (a.end = NoEnd \/ a.start <= a.end)
      /\ b.start \in CaseNumbers /\ b.end \in Int /\ (b.end = NoEnd \/ b.start <= b.end)
  BY <1>3, <1>1, <1>2
<1>5. ASSUME a.anchor = b.anchor, NEW n \in CaseNumbers, InWindow(a, n), InWindow(b, n) PROVE WindowsOverlap(a, b)
  <2>1. n \in Int
    BY ONLY n \in CaseNumbers DEF CaseNumbers
  <2> QED BY <1>4, <1>3, <1>5, <2>1 DEF InWindow, WindowsOverlap
<1>6. ASSUME WindowsOverlap(a, b) PROVE \E n \in CaseNumbers : InWindow(a, n) /\ InWindow(b, n)
  <2>1. CASE a.start <= b.start
    <3>1. InWindow(a, b.start) /\ InWindow(b, b.start)
      BY <1>4, <1>3, <1>6, <2>1 DEF InWindow, WindowsOverlap
    <3> QED BY <1>4, <3>1
  <2>2. CASE b.start <= a.start
    <3>1. InWindow(a, a.start) /\ InWindow(b, a.start)
      BY <1>4, <1>3, <1>6, <2>2 DEF InWindow, WindowsOverlap
    <3> QED BY <1>4, <3>1
  <2> QED BY <1>3, <2>1, <2>2
<1>7. WindowsOverlap(a, b) => a.anchor = b.anchor
  BY DEF WindowsOverlap
<1> QED BY <1>5, <1>6, <1>7

\* Two rules are refused as overlapping exactly when they share a day number of one
\* anchor (clawback_engine.py, windows_overlap).
THEOREM OverlapIsExact == CasesSpec => []OverlapExact
<1>1. CasesInit => PickedRules
  BY DEF CasesInit, PickedRules, IsCase
<1>2. PickedRules /\ [CasesNext]_casesVars => PickedRules'
  BY DEF PickedRules, IsCase, CasesNext, PickRules, PickSchedule, casesVars
<1>3. PickedRules => OverlapExact
  BY OverlapIsCommonDay DEF PickedRules, OverlapExact
<1> QED BY <1>1, <1>2, <1>3, PTL DEF CasesSpec
=============================================================================
