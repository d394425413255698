----------------------------- MODULE MailProofs -----------------------------
(***************************************************************************)
(* Theorems about the mail service: about MailSync for any mails, rules,   *)
(* mailboxes to begin with and passes, and about MailOutbox for any set of *)
(* messages and request threads and any limits.                            *)
(***************************************************************************)
EXTENDS MailOutbox, MailSync, FoldLemmas, FiniteSetTheorems, SequenceTheorems,
        WellFoundedInduction, TLAPS

-----------------------------------------------------------------------------
\* The mirror.  Types.

MailRow  == [mail : AllMails, folder : Folders, uid : Nat, read : BOOLEAN, deleted : BOOLEAN]
Counters == [total : Nat, unread : Nat]
Mailbox  == [rows : Seq(MailRow), counts : [Folders -> Counters], paths : SUBSET Folders,
             dropped : SUBSET Folders, last : [Folders -> Nat], seen : [Folders -> Nat],
             blocked : SUBSET AllMails, safe : SUBSET AllMails, rules : Seq(Rulings),
             keys : SUBSET (Folders \X Nat), counted : SUBSET Folders, behind : SUBSET Folders,
             moved : SUBSET AllMails, rescanned : SUBSET Folders]

LEMMA FoldersAre ==
  /\ Folders = {"inbox", "sent", "junk", "trash", "work"}
  /\ Served = {"inbox", "sent", "trash", "work"}
  /\ DOMAIN Order = 1..5 /\ \A k \in 1..5 : Order[k] \in Folders
<1>1. DOMAIN Order = 1..5
  BY DEF Order
<1>2. \A f : f \in Folders <=> f \in {"inbox", "sent", "junk", "trash", "work"}
  <2>1. \A f : f \in Folders <=> \E k \in 1..5 : Order[k] = f
    BY <1>1 DEF Folders, Range
  <2>2. /\ Order[1] = "inbox" /\ Order[2] = "sent" /\ Order[3] = "junk" /\ Order[4] = "trash"
        /\ Order[5] = "work"
    BY DEF Order
  <2>3. \A k \in 1..5 : k = 1 \/ k = 2 \/ k = 3 \/ k = 4 \/ k = 5
    OBVIOUS
  <2> QED BY <2>1, <2>2, <2>3
<1>3. Folders = {"inbox", "sent", "junk", "trash", "work"}
  BY <1>2
<1> QED BY <1>1, <1>3 DEF Served, Folders, Range

LEMMA RowsAre ==
  ASSUME NEW rows \in Seq(MailRow)
  PROVE  /\ DOMAIN rows = 1..Len(rows) /\ Len(rows) \in Nat
         /\ \A i \in DOMAIN rows : rows[i] \in MailRow
  BY LenProperties

LEMMA ExactType ==
  ASSUME NEW rows \in Seq(MailRow), NEW f
  PROVE  Exact(rows, f) \in Counters /\ IsFiniteSet(Live(rows, f))
<1>1. IsFiniteSet(DOMAIN rows)
  BY RowsAre, FS_Interval
<1>2. Live(rows, f) \subseteq DOMAIN rows
  BY DEF Live
<1>3. {i \in Live(rows, f) : ~rows[i].read} \subseteq DOMAIN rows
  BY <1>2
<1>4. /\ IsFiniteSet(Live(rows, f)) /\ Cardinality(Live(rows, f)) \in Nat
      /\ Cardinality({i \in Live(rows, f) : ~rows[i].read}) \in Nat
  BY <1>1, <1>2, <1>3, FS_Subset, FS_CardinalityType
<1> QED BY <1>4 DEF Exact, Counters

\* The counters of a folder depend on its live rows and on which of them are read.
Alike(rows, others, f) ==
  \A i : /\ i \in Live(rows, f) <=> i \in Live(others, f)
         /\ i \in Live(rows, f) => rows[i].read = others[i].read
LEMMA ExactAlike ==
  ASSUME NEW rows, NEW others, NEW f, Alike(rows, others, f)
  PROVE  Exact(rows, f) = Exact(others, f)
<1>1. Live(rows, f) = Live(others, f)
  BY DEF Alike
<1>2. {i \in Live(rows, f) : ~rows[i].read} = {i \in Live(others, f) : ~others[i].read}
  BY <1>1 DEF Alike
<1> QED BY <1>1, <1>2 DEF Exact

LEMMA SeenAlike ==
  ASSUME NEW rows, NEW others, NEW f, Seen(rows, f) = Seen(others, f)
  PROVE  Alike(rows, others, f)
<1>1. ASSUME NEW i \in Live(rows, f) PROVE i \in Live(others, f) /\ others[i].read = rows[i].read
  <2>1. <<i, rows[i].read>> \in Seen(others, f)
    BY DEF Seen
  <2> QED BY <2>1 DEF Seen
<1>2. ASSUME NEW i \in Live(others, f) PROVE i \in Live(rows, f)
  <2>1. <<i, others[i].read>> \in Seen(rows, f)
    BY DEF Seen
  <2> QED BY <2>1 DEF Seen
<1> QED BY <1>1, <1>2 DEF Alike

CountsRight(d, B) == \A f \in Folders \ (d.behind \cup B) : d.counts[f] = Exact(d.rows, f)

\* The marks that a transaction leaves for later.
SameMarks(d, e) == e.moved = d.moved /\ e.rescanned = d.rescanned /\ e.keys = d.keys

\* Counting the folders F.
LEMMA Recount ==
  ASSUME NEW d \in Mailbox, NEW F \in SUBSET Folders
  PROVE  LET e == refresh_folder_counts(d, F) IN
         /\ e \in Mailbox /\ e.rows = d.rows /\ e.rules = d.rules /\ e.behind = d.behind \ F
         /\ e.counted = d.counted \cup F /\ e.last = d.last /\ e.seen = d.seen /\ SameMarks(d, e)
         /\ \A f \in Folders : e.counts[f] = IF f \in F THEN Exact(d.rows, f) ELSE d.counts[f]
<1>1. d.rows \in Seq(MailRow) /\ d.counts \in [Folders -> Counters]
  BY DEF Mailbox
<1> DEFINE c == [f \in Folders |-> IF f \in F THEN Exact(d.rows, f) ELSE d.counts[f]]
<1>2. c \in [Folders -> Counters]
  BY <1>1, ExactType
<1>3. refresh_folder_counts(d, F) = [d EXCEPT !.counts = c, !.counted = @ \cup F, !.behind = @ \ F]
  BY DEF refresh_folder_counts
<1>4. \A f \in Folders : c[f] = IF f \in F THEN Exact(d.rows, f) ELSE d.counts[f]
  OBVIOUS
<1> HIDE DEF c
<1> DEFINE e == [d EXCEPT !.counts = c, !.counted = @ \cup F, !.behind = @ \ F]
<1>5. e \in Mailbox
  BY <1>2 DEF Mailbox
<1>6. /\ e.rows = d.rows /\ e.rules = d.rules /\ e.behind = d.behind \ F /\ e.counts = c
      /\ e.counted = d.counted \cup F /\ e.last = d.last /\ e.seen = d.seen /\ SameMarks(d, e)
  BY DEF Mailbox, SameMarks
<1> HIDE DEF e
<1> QED BY <1>3, <1>4, <1>5, <1>6 DEF e


\* A row that is put in another folder, or changed otherwise in place.
Replaced(d, i, r) == [d EXCEPT !.rows[i] = r]
LEMMA ReplacedType ==
  ASSUME NEW d \in Mailbox, NEW i \in DOMAIN d.rows, NEW r \in MailRow
  PROVE  LET e == Replaced(d, i, r) IN
         /\ e \in Mailbox /\ DOMAIN e.rows = DOMAIN d.rows /\ Len(e.rows) = Len(d.rows)
         /\ e.rows[i] = r /\ \A j \in DOMAIN d.rows \ {i} : e.rows[j] = d.rows[j]
         /\ e.rules = d.rules /\ e.counts = d.counts /\ e.behind = d.behind
         /\ e.counted = d.counted /\ e.last = d.last /\ e.seen = d.seen /\ SameMarks(d, e)
<1>1. d.rows \in Seq(MailRow)
  BY DEF Mailbox
<1> DEFINE R == [d.rows EXCEPT ![i] = r]
<1>2. /\ R \in Seq(MailRow) /\ DOMAIN R = DOMAIN d.rows /\ Len(R) = Len(d.rows) /\ R[i] = r
      /\ \A j \in DOMAIN d.rows \ {i} : R[j] = d.rows[j]
  <2>1. Len(R) = Len(d.rows) /\ R \in Seq(MailRow)
    BY <1>1, ExceptSeq
  <2> QED BY <1>1, <2>1, LenProperties
<1>3. Replaced(d, i, r) = [d EXCEPT !.rows = R]
  BY DEF Replaced
<1> HIDE DEF R
<1> DEFINE e == [d EXCEPT !.rows = R]
<1>4. e \in Mailbox
  BY <1>2 DEF Mailbox
<1>5. /\ e.rows = R /\ e.rules = d.rules /\ e.counts = d.counts /\ e.behind = d.behind
      /\ e.counted = d.counted /\ e.last = d.last /\ e.seen = d.seen /\ SameMarks(d, e)
  BY DEF Mailbox, SameMarks
<1> HIDE DEF e
<1> QED BY <1>2, <1>3, <1>4, <1>5 DEF e

\* Only the folders F see a difference between two mailboxes.
LEMMA OthersAlike ==
  ASSUME NEW d \in Mailbox, NEW i \in DOMAIN d.rows, NEW r \in MailRow,
         NEW f \in Folders, f # d.rows[i].folder, f # r.folder
  PROVE  Alike(Replaced(d, i, r).rows, d.rows, f)
<1>1. /\ DOMAIN Replaced(d, i, r).rows = DOMAIN d.rows
      /\ Replaced(d, i, r).rows[i] = r
      /\ \A j \in DOMAIN d.rows \ {i} : Replaced(d, i, r).rows[j] = d.rows[j]
  BY ReplacedType
<1> QED BY <1>1 DEF Alike, Live

\* What a move does.
MovedRow(r, g) == [r EXCEPT !.folder = g, !.uid = NoUid]
LEMMA MoveIs ==
  ASSUME NEW d \in Mailbox, NEW i \in DOMAIN d.rows, NEW g \in Folders, d.rows[i].folder # g
  PROVE  LET e == move_message(d, i, g) IN
         /\ e \in Mailbox /\ DOMAIN e.rows = DOMAIN d.rows
         /\ e.rows[i] = MovedRow(d.rows[i], g)
         /\ \A j \in DOMAIN d.rows \ {i} : e.rows[j] = d.rows[j]
         /\ e.rules = d.rules /\ e.last = d.last /\ e.seen = d.seen
         /\ e.counted = d.counted \cup {d.rows[i].folder, g}
         /\ e.moved = d.moved \cup {d.rows[i].mail} /\ e.rescanned = d.rescanned /\ e.keys = d.keys
         /\ \A B : CountsRight(d, B) => CountsRight(e, B)
<1>1. d.rows[i] \in MailRow
  BY RowsAre DEF Mailbox
<1> DEFINE
  f == d.rows[i].folder
  r == MovedRow(d.rows[i], g)
  x == Replaced(d, i, r)
  y == [x EXCEPT !.moved = @ \cup {d.rows[i].mail}]
  e == refresh_folder_counts(y, {f, g})
<1>2. r \in MailRow /\ r.folder = g /\ f \in Folders /\ d.rows[i].mail \in AllMails
  BY <1>1, FoldersAre DEF MailRow, NoUid, MovedRow
<1>3. move_message(d, i, g) = e
  <2>1. [d EXCEPT !.rows[i].folder = g, !.rows[i].uid = NoUid, !.moved = @ \cup {d.rows[i].mail}] = y
    BY <1>1 DEF Replaced, MovedRow, Mailbox, MailRow
  <2> QED BY <2>1 DEF move_message
<1>4. /\ x \in Mailbox /\ DOMAIN x.rows = DOMAIN d.rows
      /\ x.rows[i] = r /\ \A j \in DOMAIN d.rows \ {i} : x.rows[j] = d.rows[j]
      /\ x.rules = d.rules /\ x.counts = d.counts /\ x.behind = d.behind
      /\ x.counted = d.counted /\ x.last = d.last /\ x.seen = d.seen /\ SameMarks(d, x)
  BY <1>2, ReplacedType
<1>5. \A h \in Folders \ {f, g} : Alike(x.rows, d.rows, h)
  BY <1>2, OthersAlike
<1> HIDE DEF x, r, f
<1>6. /\ y \in Mailbox /\ y.rows = x.rows /\ y.rules = x.rules /\ y.counts = x.counts
      /\ y.behind = x.behind /\ y.counted = x.counted /\ y.last = x.last /\ y.seen = x.seen
      /\ y.moved = x.moved \cup {d.rows[i].mail} /\ y.rescanned = x.rescanned /\ y.keys = x.keys
  BY <1>2, <1>4 DEF Mailbox
<1> HIDE DEF y
<1>7. {f, g} \in SUBSET Folders
  BY <1>2
<1>8. /\ e \in Mailbox /\ e.rows = y.rows /\ e.rules = y.rules /\ e.behind = y.behind \ {f, g}
      /\ e.counted = y.counted \cup {f, g} /\ e.last = y.last /\ e.seen = y.seen /\ SameMarks(y, e)
      /\ \A h \in Folders : e.counts[h] = IF h \in {f, g} THEN Exact(y.rows, h) ELSE y.counts[h]
  BY <1>6, <1>7, Recount
<1> HIDE DEF e
<1>9. ASSUME NEW B, CountsRight(d, B) PROVE CountsRight(e, B)
  <2>1. SUFFICES ASSUME NEW h \in Folders \ (e.behind \cup B) PROVE e.counts[h] = Exact(e.rows, h)
    BY DEF CountsRight
  <2>2. CASE h \in {f, g}
    BY <1>8, <2>2
  <2>3. CASE h \notin {f, g}
    <3>1. h \in Folders \ (d.behind \cup B)
      BY <1>4, <1>6, <1>8, <2>3
    <3>2. d.counts[h] = Exact(d.rows, h)
      BY <1>9, <3>1 DEF CountsRight
    <3>3. Exact(x.rows, h) = Exact(d.rows, h)
      BY <1>5, <2>3, ExactAlike
    <3> QED BY <1>4, <1>6, <1>8, <2>3, <3>2, <3>3
  <2> QED BY <2>2, <2>3
<1>10. e.counted = d.counted \cup {d.rows[i].folder, g} /\ e.rows[i] = MovedRow(d.rows[i], g)
  BY <1>4, <1>6, <1>8 DEF f, r
<1>11. e.moved = d.moved \cup {d.rows[i].mail} /\ e.rescanned = d.rescanned /\ e.keys = d.keys
  BY <1>4, <1>6, <1>8 DEF SameMarks
<1> QED BY <1>3, <1>4, <1>6, <1>8, <1>9, <1>10, <1>11

\* A rule reads a message.
Noted(d, i) == [d EXCEPT !.rows[i].read = TRUE,
                         !.behind = IF d.rows[i].read THEN @ ELSE @ \cup {d.rows[i].folder}]
LEMMA NotedIs ==
  ASSUME NEW d \in Mailbox, NEW i \in DOMAIN d.rows
  PROVE  LET e == Noted(d, i) IN
         /\ e \in Mailbox /\ DOMAIN e.rows = DOMAIN d.rows
         /\ e.rows[i] = [d.rows[i] EXCEPT !.read = TRUE]
         /\ \A j \in DOMAIN d.rows \ {i} : e.rows[j] = d.rows[j]
         /\ e.rules = d.rules /\ e.last = d.last /\ e.seen = d.seen
         /\ e.counted = d.counted /\ SameMarks(d, e)
         /\ \A B : CountsRight(d, B) => CountsRight(e, B)
<1>1. d.rows[i] \in MailRow
  BY RowsAre DEF Mailbox
<1> DEFINE
  f == d.rows[i].folder
  r == [d.rows[i] EXCEPT !.read = TRUE]
  x == Replaced(d, i, r)
  b == IF d.rows[i].read THEN d.behind ELSE d.behind \cup {f}
  e == [x EXCEPT !.behind = b]
<1>2. r \in MailRow /\ r.folder = f /\ f \in Folders
  BY <1>1 DEF MailRow
<1>3. Noted(d, i) = e
  BY <1>1 DEF Replaced, Mailbox, MailRow, Noted
<1>4. /\ x \in Mailbox /\ DOMAIN x.rows = DOMAIN d.rows
      /\ x.rows[i] = r /\ \A j \in DOMAIN d.rows \ {i} : x.rows[j] = d.rows[j]
      /\ x.rules = d.rules /\ x.counts = d.counts /\ x.behind = d.behind
      /\ x.counted = d.counted /\ x.last = d.last /\ x.seen = d.seen /\ SameMarks(d, x)
  <2> HIDE DEF r, f
  <2> QED BY <1>2, ReplacedType
<1>5. \A h \in Folders \ {f} : Alike(x.rows, d.rows, h)
  BY <1>2, OthersAlike
<1>6. d.rows[i].read => r = d.rows[i]
  BY <1>1 DEF MailRow
<1>7. ASSUME d.rows[i].read PROVE \A h : Alike(x.rows, d.rows, h)
  BY <1>4, <1>6, <1>7 DEF Alike, Live
<1>8. b \in SUBSET Folders
  BY <1>2 DEF Mailbox
<1>9. d.behind \subseteq b /\ (~d.rows[i].read => f \in b)
  OBVIOUS
<1> HIDE DEF x, b
<1>10. /\ e \in Mailbox /\ e.rows = x.rows /\ e.rules = x.rules /\ e.counts = x.counts
      /\ e.behind = b /\ e.counted = x.counted /\ e.last = x.last /\ e.seen = x.seen /\ SameMarks(d, e)
  BY <1>4, <1>8 DEF Mailbox, SameMarks
<1> HIDE DEF e
<1>11. ASSUME NEW B, CountsRight(d, B) PROVE CountsRight(e, B)
  <2>1. SUFFICES ASSUME NEW h \in Folders \ (e.behind \cup B) PROVE e.counts[h] = Exact(e.rows, h)
    BY DEF CountsRight
  <2>2. h \in Folders \ (d.behind \cup B)
    BY <1>9, <1>10
  <2>3. d.counts[h] = Exact(d.rows, h)
    BY <1>11, <2>2 DEF CountsRight
  <2>4. Alike(x.rows, d.rows, h)
    BY <1>5, <1>7, <1>9, <1>10
  <2> QED BY <1>4, <1>10, <2>3, <2>4, ExactAlike
<1> QED BY <1>3, <1>4, <1>10, <1>11

-----------------------------------------------------------------------------
\* What rules and moves do to some of the rows.

Evolved(d, e, I) ==
  /\ e \in Mailbox /\ DOMAIN e.rows = DOMAIN d.rows
  /\ \A j \in DOMAIN d.rows : j \notin I => e.rows[j] = d.rows[j]
  /\ \A j \in DOMAIN d.rows :
       /\ e.rows[j].mail = d.rows[j].mail /\ e.rows[j].deleted = d.rows[j].deleted
       /\ \/ e.rows[j].folder = d.rows[j].folder /\ e.rows[j].uid = d.rows[j].uid
          \/ e.rows[j].uid = NoUid /\ d.rows[j].mail \in e.moved
       /\ e.rows[j].folder \in e.counted \cup {d.rows[j].folder}
  /\ d.counted \subseteq e.counted
  /\ d.moved \subseteq e.moved /\ e.rescanned = d.rescanned /\ e.keys = d.keys
  /\ e.rules = d.rules /\ e.last = d.last /\ e.seen = d.seen
  /\ \A B : CountsRight(d, B) => CountsRight(e, B)

LEMMA EvolvedRefl ==
  ASSUME NEW d \in Mailbox, NEW I PROVE Evolved(d, d, I)
  BY DEF Evolved

LEMMA EvolvedTrans ==
  ASSUME NEW d, NEW e, NEW x, NEW I, Evolved(d, e, I), Evolved(e, x, I)
  PROVE  Evolved(d, x, I)
<1>1. \A B : CountsRight(d, B) => CountsRight(x, B)
  BY DEF Evolved
<1>2. ASSUME NEW j \in DOMAIN d.rows
      PROVE  /\ x.rows[j].mail = d.rows[j].mail /\ x.rows[j].deleted = d.rows[j].deleted
             /\ \/ x.rows[j].folder = d.rows[j].folder /\ x.rows[j].uid = d.rows[j].uid
                \/ x.rows[j].uid = NoUid /\ d.rows[j].mail \in x.moved
             /\ x.rows[j].folder \in x.counted \cup {d.rows[j].folder}
             /\ j \notin I => x.rows[j] = d.rows[j]
  BY DEF Evolved
<1>3. /\ x \in Mailbox /\ DOMAIN x.rows = DOMAIN d.rows /\ d.counted \subseteq x.counted
      /\ x.rules = d.rules /\ x.last = d.last /\ x.seen = d.seen
      /\ d.moved \subseteq x.moved /\ x.rescanned = d.rescanned /\ x.keys = d.keys
  BY DEF Evolved
<1> QED BY <1>1, <1>2, <1>3 DEF Evolved

LEMMA MoveEvolves ==
  ASSUME NEW d \in Mailbox, NEW I, NEW i \in DOMAIN d.rows, i \in I, NEW g \in Folders
  PROVE  Evolved(d, move_message(d, i, g), I)
<1>1. CASE d.rows[i].folder = g
  <2>1. move_message(d, i, g) = d
    BY <1>1 DEF move_message
  <2> QED BY <2>1, EvolvedRefl
<1>2. CASE d.rows[i].folder # g
  <2> DEFINE e == move_message(d, i, g)
  <2>1. /\ e \in Mailbox /\ DOMAIN e.rows = DOMAIN d.rows
        /\ e.rows[i] = MovedRow(d.rows[i], g)
        /\ \A j \in DOMAIN d.rows \ {i} : e.rows[j] = d.rows[j]
        /\ e.rules = d.rules /\ e.last = d.last /\ e.seen = d.seen
        /\ e.counted = d.counted \cup {d.rows[i].folder, g}
        /\ e.moved = d.moved \cup {d.rows[i].mail} /\ e.rescanned = d.rescanned /\ e.keys = d.keys
        /\ \A B : CountsRight(d, B) => CountsRight(e, B)
    BY <1>2, MoveIs
  <2>2. d.rows[i] \in MailRow
    BY RowsAre DEF Mailbox
  <2>3. /\ MovedRow(d.rows[i], g).mail = d.rows[i].mail /\ MovedRow(d.rows[i], g).uid = NoUid
        /\ MovedRow(d.rows[i], g).folder = g /\ MovedRow(d.rows[i], g).deleted = d.rows[i].deleted
    BY <2>2 DEF MovedRow, MailRow
  <2> HIDE DEF e
  <2>4. Evolved(d, e, I)
    BY <2>1, <2>3 DEF Evolved
  <2> QED BY <2>4 DEF e
<1> QED BY <1>1, <1>2

LEMMA ActEvolves ==
  ASSUME NEW d \in Mailbox, NEW I, NEW i \in DOMAIN d.rows, i \in I, NEW a
  PROVE  Evolved(d, Act(d, i, a), I)
<1>1. CASE a = "mark_read"
  <2> DEFINE e == Noted(d, i)
  <2>1. Act(d, i, a) = e
    <3>1. a \notin Folders /\ a # "delete"
      BY <1>1, FoldersAre
    <3> QED BY <1>1, <3>1 DEF Act, Noted
  <2>2. /\ e \in Mailbox /\ DOMAIN e.rows = DOMAIN d.rows
        /\ e.rows[i] = [d.rows[i] EXCEPT !.read = TRUE]
        /\ \A j \in DOMAIN d.rows \ {i} : e.rows[j] = d.rows[j]
        /\ e.rules = d.rules /\ e.last = d.last /\ e.seen = d.seen
        /\ e.counted = d.counted /\ SameMarks(d, e)
        /\ \A B : CountsRight(d, B) => CountsRight(e, B)
    BY NotedIs
  <2>3. d.rows[i] \in MailRow
    BY RowsAre DEF Mailbox
  <2>4. /\ e.rows[i].mail = d.rows[i].mail /\ e.rows[i].folder = d.rows[i].folder
        /\ e.rows[i].uid = d.rows[i].uid /\ e.rows[i].deleted = d.rows[i].deleted
    BY <2>2, <2>3 DEF MailRow
  <2> HIDE DEF e
  <2>5. ASSUME NEW j \in DOMAIN d.rows
        PROVE  /\ e.rows[j].mail = d.rows[j].mail /\ e.rows[j].folder = d.rows[j].folder
               /\ e.rows[j].uid = d.rows[j].uid /\ e.rows[j].deleted = d.rows[j].deleted
    BY <2>2, <2>4
  <2>6. /\ e \in Mailbox /\ DOMAIN e.rows = DOMAIN d.rows
        /\ e.rules = d.rules /\ e.last = d.last /\ e.seen = d.seen /\ d.counted \subseteq e.counted
        /\ d.moved \subseteq e.moved /\ e.rescanned = d.rescanned /\ e.keys = d.keys
    BY <2>2 DEF SameMarks
  <2>7. \A j \in DOMAIN d.rows : j \notin I => e.rows[j] = d.rows[j]
    BY <2>2
  <2>8. \A B : CountsRight(d, B) => CountsRight(e, B)
    BY <2>2
  <2>9. Evolved(d, e, I)
    BY <2>5, <2>6, <2>7, <2>8 DEF Evolved
  <2> QED BY <2>1, <2>9
<1>2. CASE a = "delete"
  <2>1. Act(d, i, a) = move_message(d, i, "trash") /\ "trash" \in Folders
    <3>1. a \notin Folders /\ a # "mark_read" /\ "trash" \in Folders
      BY <1>2, FoldersAre
    <3> QED BY <1>2, <3>1 DEF Act
  <2> QED BY <2>1, MoveEvolves
<1>3. CASE a \notin {"mark_read", "delete"} /\ a \in Folders
  <2>1. Act(d, i, a) = move_message(d, i, a)
    BY <1>3 DEF Act
  <2> QED BY <1>3, <2>1, MoveEvolves
<1>4. CASE a \notin {"mark_read", "delete"} /\ a \notin Folders
  <2>1. Act(d, i, a) = d
    BY <1>4 DEF Act
  <2> QED BY <2>1, EvolvedRefl
<1> QED BY <1>1, <1>2, <1>3, <1>4

-----------------------------------------------------------------------------
\* The rules.

\* A rule, applied to a message: its actions keep what each action keeps.
LEMMA RuleKeeps ==
  ASSUME NEW T, NEW d \in T, NEW i, NEW rule \in Rulings, \A e \in T : \A a : Act(e, i, a) \in T
  PROVE  RuleApplied(d, i, rule) \in T
<1> DEFINE
  acts == rule.actions
  n == Len(acts)
  F == [x \in T \X (1..n) |-> Act(x[1], i, acts[x[2]])]
  Folded(g) == g = [s \in SUBSET (1..n) |-> IF s = {} THEN d
                                            ELSE Act(g[s \ {Greatest(s)}], i, acts[Greatest(s)])]
  h == CHOOSE g : Folded(g)
<1>1. n \in Nat /\ DOMAIN acts = 1..n
  BY LenProperties DEF Rulings
<1> HIDE DEF n
<1>2. \A s \in (SUBSET (1..n)) \ {{}} : Greatest(s) \in s
  BY <1>1, GreatestIs
<1>3. PICK g : FoldsUp(g, 1..n, T, d, F)
  <2>1. Step(F, T, 1..n)
    BY DEF Step
  <2> HIDE DEF F
  <2> QED BY <1>1, <2>1, UpwardFold
<1>4. Folded(g)
  <2>1. ASSUME NEW s \in SUBSET (1..n), s # {}
        PROVE  g[s] = Act(g[s \ {Greatest(s)}], i, acts[Greatest(s)])
    <3>1. <<g[s \ {Greatest(s)}], Greatest(s)>> \in T \X (1..n)
      BY <1>2, <1>3, <2>1 DEF FoldsUp
    <3>2. g[s] = F[<<g[s \ {Greatest(s)}], Greatest(s)>>]
      BY <1>3, <2>1 DEF FoldsUp
    <3> QED BY <3>1, <3>2
  <2>2. g[{}] = d /\ g \in [SUBSET (1..n) -> T]
    BY <1>3 DEF FoldsUp
  <2> HIDE DEF F
  <2> QED BY <2>1, <2>2
<1>5. Folded(h)
  <2> HIDE DEF Folded
  <2> QED BY <1>4
<1>6. RuleApplied(d, i, rule) = IF d.rows[i].mail \in rule.match THEN h[1..n] ELSE d
  BY <1>1 DEF RuleApplied, FoldLeft, MapThenFoldSet, Max, Greatest
<1> HIDE DEF h
<1>7. h[1..n] \in T
  <2>1. h[{}] \in T
    <3>1. {} \in SUBSET (1..n)
      OBVIOUS
    <3> QED BY <1>5, <3>1
  <2>2. ASSUME NEW s \in (SUBSET (1..n)) \ {{}}, h[s \ {Greatest(s)}] \in T PROVE h[s] \in T
    BY <1>5, <2>2
  <2> HIDE DEF Folded
  <2>3. \A s \in SUBSET (1..n) : h[s] \in T
    BY <1>1, <2>1, <2>2, FoldedIn
  <2> QED BY <2>3
<1> QED BY <1>6, <1>7

LEMMA LowestOf ==
  ASSUME NEW T \in SUBSET Nat, T # {} PROVE Min(T) \in T /\ \A y \in T : Min(T) <= y
<1>1. \E x \in T : \A y \in T : x <= y
  BY LeastNat
<1> QED BY <1>1 DEF Min

\* So do the rules that are reached, and the lists of senders.
LEMMA ApplyKeeps ==
  ASSUME NEW T, NEW d \in T, d.rules \in Seq(Rulings), NEW i, \A e \in T : \A a : Act(e, i, a) \in T,
         move_message(d, i, "junk") \in T
  PROVE  apply_rules(d, i) \in T
<1> DEFINE
  m == d.rows[i].mail
  stops == {k \in DOMAIN d.rules : m \in d.rules[k].match /\ d.rules[k].stop}
  last == IF stops = {} THEN Len(d.rules) ELSE Min(stops)
  reached == SubSeq(d.rules, 1, last)
  n == Len(reached)
  F == [x \in T \X (1..n) |-> RuleApplied(x[1], i, reached[x[2]])]
  Folded(g) == g = [s \in SUBSET (1..n) |-> IF s = {} THEN d
                                            ELSE RuleApplied(g[s \ {Greatest(s)}], i, reached[Greatest(s)])]
  h == CHOOSE g : Folded(g)
<1>1. last \in 0..Len(d.rules) /\ Len(d.rules) \in Nat /\ DOMAIN d.rules = 1..Len(d.rules)
  <2>1. Len(d.rules) \in Nat /\ DOMAIN d.rules = 1..Len(d.rules)
    BY LenProperties
  <2>2. stops \in SUBSET (1..Len(d.rules)) /\ stops \in SUBSET Nat
    BY <2>1
  <2> HIDE DEF stops
  <2>3. stops # {} => Min(stops) \in stops
    BY <2>2, LowestOf
  <2>4. CASE stops = {}
    <3>1. last = Len(d.rules)
      BY <2>4
    <3> QED BY <2>1, <3>1
  <2>5. CASE stops # {}
    <3>1. last = Min(stops)
      BY <2>5
    <3>2. Min(stops) \in 1..Len(d.rules)
      BY <2>2, <2>3, <2>5
    <3> QED BY <2>1, <3>1, <3>2
  <2> QED BY <2>4, <2>5
<1> HIDE DEF last
<1>2. reached \in Seq(Rulings)
  <2>1. 1 \in Int /\ last \in Int /\ \A k \in 1..last : d.rules[k] \in Rulings
    <3>1. \A k \in 1..last : k \in 1..Len(d.rules)
      BY <1>1
    <3> QED BY <1>1, <3>1, LenProperties
  <2> QED BY <2>1, SubSeqProperties
<1> HIDE DEF reached
<1>3. n \in Nat /\ DOMAIN reached = 1..n /\ \A k \in 1..n : reached[k] \in Rulings
  BY <1>2, LenProperties
<1> HIDE DEF n
<1>4. \A s \in (SUBSET (1..n)) \ {{}} : Greatest(s) \in s
  BY <1>3, GreatestIs
<1>5. ASSUME NEW e \in T, NEW k \in 1..n PROVE RuleApplied(e, i, reached[k]) \in T
  BY <1>3, <1>5, RuleKeeps
<1>6. PICK g : FoldsUp(g, 1..n, T, d, F)
  <2>1. Step(F, T, 1..n)
    BY <1>5 DEF Step
  <2> HIDE DEF F
  <2> QED BY <1>3, <2>1, UpwardFold
<1>7. Folded(g)
  <2>1. ASSUME NEW s \in SUBSET (1..n), s # {}
        PROVE  g[s] = RuleApplied(g[s \ {Greatest(s)}], i, reached[Greatest(s)])
    <3>1. <<g[s \ {Greatest(s)}], Greatest(s)>> \in T \X (1..n)
      BY <1>4, <1>6, <2>1 DEF FoldsUp
    <3>2. g[s] = F[<<g[s \ {Greatest(s)}], Greatest(s)>>]
      BY <1>6, <2>1 DEF FoldsUp
    <3> QED BY <3>1, <3>2
  <2>2. g[{}] = d /\ g \in [SUBSET (1..n) -> T]
    BY <1>6 DEF FoldsUp
  <2> HIDE DEF F
  <2> QED BY <2>1, <2>2
<1>8. Folded(h)
  <2> HIDE DEF Folded
  <2> QED BY <1>7
<1>9. /\ m \in d.safe => apply_rules(d, i) = d
      /\ m \in d.blocked \ d.safe => apply_rules(d, i) = move_message(d, i, "junk")
      /\ m \notin d.safe /\ m \notin d.blocked \ d.safe => apply_rules(d, i) = h[1..n]
  BY <1>3 DEF apply_rules, FoldLeft, MapThenFoldSet, Max, Greatest, reached, last
<1> HIDE DEF h, m
<1>10. h[1..n] \in T
  <2>1. h[{}] \in T
    <3>1. {} \in SUBSET (1..n)
      OBVIOUS
    <3> QED BY <1>8, <3>1
  <2>2. ASSUME NEW s \in (SUBSET (1..n)) \ {{}}, h[s \ {Greatest(s)}] \in T PROVE h[s] \in T
    <3>1. Greatest(s) \in 1..n
      BY <1>4
    <3>2. h[s] = RuleApplied(h[s \ {Greatest(s)}], i, reached[Greatest(s)])
      BY <1>8
    <3> QED BY <1>5, <2>2, <3>1, <3>2
  <2> HIDE DEF Folded
  <2>3. \A s \in SUBSET (1..n) : h[s] \in T
    BY <1>3, <2>1, <2>2, FoldedIn
  <2> QED BY <2>3
<1> QED BY <1>9, <1>10


\* Moving messages one after the other.
LEMMA MovedKeeps ==
  ASSUME NEW n \in Nat, NEW R \in SUBSET (1..n), NEW T, NEW d \in T, NEW f,
         \A e \in T : \A i \in R : move_message(e, i, f) \in T
  PROVE  MovedAll(d, R, f) \in T
<1> DEFINE
  F == [x \in T \X R |-> move_message(x[1], x[2], f)]
  Folded(g) == g = [s \in SUBSET R |-> IF s = {} THEN d
                                       ELSE move_message(g[s \ {Greatest(s)}], Greatest(s), f)]
  h == CHOOSE g : Folded(g)
<1>1. \A s \in (SUBSET R) \ {{}} : Greatest(s) \in s
  <2>1. \A s \in (SUBSET R) \ {{}} : s \in (SUBSET (1..n)) \ {{}}
    OBVIOUS
  <2> QED BY <2>1, GreatestIs
<1>2. PICK g : FoldsUp(g, R, T, d, F)
  <2>1. Step(F, T, R)
    BY DEF Step
  <2> HIDE DEF F
  <2> QED BY <2>1, UpwardFold
<1>3. Folded(g)
  <2>1. ASSUME NEW s \in SUBSET R, s # {}
        PROVE  g[s] = move_message(g[s \ {Greatest(s)}], Greatest(s), f)
    <3>1. <<g[s \ {Greatest(s)}], Greatest(s)>> \in T \X R
      BY <1>1, <1>2, <2>1 DEF FoldsUp
    <3>2. g[s] = F[<<g[s \ {Greatest(s)}], Greatest(s)>>]
      BY <1>2, <2>1 DEF FoldsUp
    <3> QED BY <3>1, <3>2
  <2>2. g[{}] = d /\ g \in [SUBSET R -> T]
    BY <1>2 DEF FoldsUp
  <2> HIDE DEF F
  <2> QED BY <2>1, <2>2
<1>4. Folded(h)
  <2> HIDE DEF Folded
  <2> QED BY <1>3
<1>5. MovedAll(d, R, f) = h[R]
  BY DEF MovedAll, Ascending, MapThenFoldSet, Max, Greatest
<1> HIDE DEF h
<1>6. h[{}] \in T
  <2>1. {} \in SUBSET R
    OBVIOUS
  <2> QED BY <1>4, <2>1
<1>7. ASSUME NEW s \in (SUBSET R) \ {{}}, h[s \ {Greatest(s)}] \in T PROVE h[s] \in T
  <2>1. Greatest(s) \in R
    BY <1>1
  <2>2. h[s] = move_message(h[s \ {Greatest(s)}], Greatest(s), f)
    BY <1>4
  <2> QED BY <1>7, <2>1, <2>2
<1> HIDE DEF Folded
<1>8. \A s \in SUBSET R : h[s] \in T
  BY <1>6, <1>7, FoldedIn
<1> QED BY <1>5, <1>8

\* A rule that is run on messages.
LEMMA AppliedKeeps ==
  ASSUME NEW n \in Nat, NEW R \in SUBSET (1..n), NEW T, NEW d \in T, NEW rule,
         \A e \in T : \A i \in R : RuleApplied(e, i, rule) \in T
  PROVE  AppliedAll(d, R, rule) \in T
<1> DEFINE
  F == [x \in T \X R |-> RuleApplied(x[1], x[2], rule)]
  Folded(g) == g = [s \in SUBSET R |-> IF s = {} THEN d
                                       ELSE RuleApplied(g[s \ {Greatest(s)}], Greatest(s), rule)]
  h == CHOOSE g : Folded(g)
<1>1. \A s \in (SUBSET R) \ {{}} : Greatest(s) \in s
  <2>1. \A s \in (SUBSET R) \ {{}} : s \in (SUBSET (1..n)) \ {{}}
    OBVIOUS
  <2> QED BY <2>1, GreatestIs
<1>2. PICK g : FoldsUp(g, R, T, d, F)
  <2>1. Step(F, T, R)
    BY DEF Step
  <2> HIDE DEF F
  <2> QED BY <2>1, UpwardFold
<1>3. Folded(g)
  <2>1. ASSUME NEW s \in SUBSET R, s # {}
        PROVE  g[s] = RuleApplied(g[s \ {Greatest(s)}], Greatest(s), rule)
    <3>1. <<g[s \ {Greatest(s)}], Greatest(s)>> \in T \X R
      BY <1>1, <1>2, <2>1 DEF FoldsUp
    <3>2. g[s] = F[<<g[s \ {Greatest(s)}], Greatest(s)>>]
      BY <1>2, <2>1 DEF FoldsUp
    <3> QED BY <3>1, <3>2
  <2>2. g[{}] = d /\ g \in [SUBSET R -> T]
    BY <1>2 DEF FoldsUp
  <2> HIDE DEF F
  <2> QED BY <2>1, <2>2
<1>4. Folded(h)
  <2> HIDE DEF Folded
  <2> QED BY <1>3
<1>5. AppliedAll(d, R, rule) = h[R]
  BY DEF AppliedAll, Ascending, MapThenFoldSet, Max, Greatest
<1> HIDE DEF h
<1>6. h[{}] \in T
  <2>1. {} \in SUBSET R
    OBVIOUS
  <2> QED BY <1>4, <2>1
<1>7. ASSUME NEW s \in (SUBSET R) \ {{}}, h[s \ {Greatest(s)}] \in T PROVE h[s] \in T
  <2>1. Greatest(s) \in R
    BY <1>1
  <2>2. h[s] = RuleApplied(h[s \ {Greatest(s)}], Greatest(s), rule)
    BY <1>4
  <2> QED BY <1>7, <2>1, <2>2
<1> HIDE DEF Folded
<1>8. \A s \in SUBSET R : h[s] \in T
  BY <1>6, <1>7, FoldedIn
<1> QED BY <1>5, <1>8

\* Storing what was fetched, and what is done (W) for the uids that were taken.
\* What an upsert makes of a value that holds for the uids s it had before, holds for them
\* and its own uid.
LEMMA UpsertedOnce ==
  ASSUME NEW n \in Nat, NEW R \in SUBSET (1..n), NEW T, NEW d \in T, NEW f, NEW P, <<{}, d>> \in P,
         \A e \in T : \A i \in R : _upsert_message(e, f, i, box[f][i]) \in T,
         \A s \in SUBSET R : \A i \in s : \A e \in T :
           <<s \ {i}, e>> \in P => <<s, _upsert_message(e, f, i, box[f][i])>> \in P
  PROVE  UpsertedAll(d, f, R) \in T /\ <<R, UpsertedAll(d, f, R)>> \in P
<1> DEFINE
  F == [x \in T \X R |-> _upsert_message(x[1], f, x[2], box[f][x[2]])]
  Folded(g) == g = [s \in SUBSET R |-> IF s = {} THEN d
                                       ELSE _upsert_message(g[s \ {Greatest(s)}], f, Greatest(s), box[f][Greatest(s)])]
  h == CHOOSE g : Folded(g)
<1>1. \A s \in (SUBSET R) \ {{}} : Greatest(s) \in s
  <2>1. \A s \in (SUBSET R) \ {{}} : s \in (SUBSET (1..n)) \ {{}}
    OBVIOUS
  <2> QED BY <2>1, GreatestIs
<1>2. PICK g : FoldsUp(g, R, T, d, F)
  <2>1. Step(F, T, R)
    BY DEF Step
  <2> HIDE DEF F
  <2> QED BY <2>1, UpwardFold
<1>3. Folded(g)
  <2>1. ASSUME NEW s \in SUBSET R, s # {}
        PROVE  g[s] = _upsert_message(g[s \ {Greatest(s)}], f, Greatest(s), box[f][Greatest(s)])
    <3>1. <<g[s \ {Greatest(s)}], Greatest(s)>> \in T \X R
      BY <1>1, <1>2, <2>1 DEF FoldsUp
    <3>2. g[s] = F[<<g[s \ {Greatest(s)}], Greatest(s)>>]
      BY <1>2, <2>1 DEF FoldsUp
    <3> QED BY <3>1, <3>2
  <2>2. g[{}] = d /\ g \in [SUBSET R -> T]
    BY <1>2 DEF FoldsUp
  <2> HIDE DEF F
  <2> QED BY <2>1, <2>2
<1>4. Folded(h)
  <2> HIDE DEF Folded
  <2> QED BY <1>3
<1>5. UpsertedAll(d, f, R) = h[R]
  BY DEF UpsertedAll, Ascending, MapThenFoldSet, Max, Greatest
<1> HIDE DEF h
<1>6. h[{}] \in T /\ <<{}, h[{}]>> \in P
  <2>1. {} \in SUBSET R
    OBVIOUS
  <2> QED BY <1>4, <2>1
<1> DEFINE U == {s \in SUBSET R : h[s] \in T /\ <<s, h[s]>> \in P}
<1>7. ASSUME NEW s \in (SUBSET R) \ {{}}, s \ {Greatest(s)} \in U PROVE s \in U
  <2>1. Greatest(s) \in R /\ Greatest(s) \in s
    BY <1>1
  <2>2. h[s] = _upsert_message(h[s \ {Greatest(s)}], f, Greatest(s), box[f][Greatest(s)])
    BY <1>4
  <2> HIDE DEF Folded
  <2>3. h[s \ {Greatest(s)}] \in T /\ <<s \ {Greatest(s)}, h[s \ {Greatest(s)}]>> \in P
    BY <1>7
  <2> QED BY <2>1, <2>2, <2>3
<1> HIDE DEF Folded
<1>8. {} \in U
  <2>1. {} \in SUBSET R
    OBVIOUS
  <2> QED BY <1>6, <2>1
<1>9. IsFiniteSet(R)
  <2>1. IsFiniteSet(1..n)
    BY FS_Interval
  <2> QED BY <2>1, FS_Subset
<1>10. ASSUME NEW s \in (SUBSET R) \ {{}} PROVE \E x \in s : s \ {x} \in U => s \in U
  BY <1>1, <1>7
<1> HIDE DEF U
<1>11. \A s \in SUBSET R : s \in U
  BY <1>8, <1>9, <1>10, SubsetInduction
<1> QED BY <1>5, <1>11 DEF U

LEMMA UpsertedKeeps ==
  ASSUME NEW n \in Nat, NEW R \in SUBSET (1..n), NEW T, NEW d \in T, NEW f, NEW W,
         \A e \in T : \A i \in R :
           LET x == _upsert_message(e, f, i, box[f][i]) IN
           x \in T /\ <<i, x>> \in W /\ \A j \in R : <<j, e>> \in W => <<j, x>> \in W
  PROVE  UpsertedAll(d, f, R) \in T /\ \A i \in R : <<i, UpsertedAll(d, f, R)>> \in W
<1> DEFINE P == {y \in (SUBSET R) \X T : \A i \in y[1] : <<i, y[2]>> \in W}
<1>1. <<{}, d>> \in P
  OBVIOUS
<1>2. ASSUME NEW s \in SUBSET R, NEW i \in s, NEW e \in T, <<s \ {i}, e>> \in P
      PROVE  <<s, _upsert_message(e, f, i, box[f][i])>> \in P
  <2> DEFINE x == _upsert_message(e, f, i, box[f][i])
  <2>1. x \in T /\ <<i, x>> \in W /\ \A j \in R : <<j, e>> \in W => <<j, x>> \in W
    OBVIOUS
  <2> HIDE DEF x
  <2>2. \A j \in s \ {i} : <<j, e>> \in W
    BY <1>2
  <2>3. \A j \in s : <<j, x>> \in W
    BY <2>1, <2>2
  <2>4. <<s, x>> \in P
    BY <2>1, <2>3
  <2> QED BY <2>4 DEF x
<1> HIDE DEF P
<1>3. \A e \in T : \A i \in R : _upsert_message(e, f, i, box[f][i]) \in T
  OBVIOUS
<1>4. UpsertedAll(d, f, R) \in T /\ <<R, UpsertedAll(d, f, R)>> \in P
  BY <1>1, <1>2, <1>3, UpsertedOnce
<1> QED BY <1>4 DEF P

LEMMA ApplyEvolves ==
  ASSUME NEW d \in Mailbox, NEW i \in DOMAIN d.rows
  PROVE  Evolved(d, apply_rules(d, i), {i})
<1> DEFINE T == {e \in Mailbox : Evolved(d, e, {i})}
<1>1. d \in T
  BY EvolvedRefl
<1>2. ASSUME NEW e \in T, NEW x, Evolved(e, x, {i}) PROVE x \in T
  <2>1. Evolved(d, x, {i})
    BY <1>2, EvolvedTrans
  <2> QED BY <2>1 DEF Evolved
<1>3. ASSUME NEW e \in T PROVE e \in Mailbox /\ i \in DOMAIN e.rows /\ i \in {i}
  BY DEF Evolved
<1>4. \A e \in T : \A a : Act(e, i, a) \in T
  <2>1. ASSUME NEW e \in T, NEW a PROVE Evolved(e, Act(e, i, a), {i})
    BY <1>3, ActEvolves
  <2> QED BY <1>2, <2>1
<1>5. move_message(d, i, "junk") \in T
  <2>1. "junk" \in Folders
    BY FoldersAre
  <2>2. Evolved(d, move_message(d, i, "junk"), {i})
    BY <1>1, <1>3, <2>1, MoveEvolves
  <2> QED BY <1>1, <1>2, <2>2
<1>6. d.rules \in Seq(Rulings)
  BY DEF Mailbox
<1> HIDE DEF T
<1>7. apply_rules(d, i) \in T
  BY <1>1, <1>4, <1>5, <1>6, ApplyKeeps
<1> QED BY <1>7 DEF T

-----------------------------------------------------------------------------
\* What a mail that was fetched does.

NewRow(f, u, m) == [mail |-> m, folder |-> f, uid |-> u, read |-> f = "sent", deleted |-> FALSE]
Added(d, f, u, m) == [d EXCEPT !.rows = Append(@, NewRow(f, u, m)), !.keys = @ \cup {<<f, u>>}]
LEMMA AddedIs ==
  ASSUME NEW d \in Mailbox, NEW f \in Folders, NEW u \in Nat, NEW m \in AllMails
  PROVE  LET e == Added(d, f, u, m)
             n == Len(d.rows) IN
         /\ e \in Mailbox /\ n \in Nat /\ DOMAIN d.rows = 1..n /\ DOMAIN e.rows = 1..(n + 1)
         /\ e.rows[n + 1] = NewRow(f, u, m) /\ \A j \in 1..n : e.rows[j] = d.rows[j]
         /\ e.rules = d.rules /\ e.last = d.last /\ e.seen = d.seen
         /\ e.counted = d.counted
         /\ e.moved = d.moved /\ e.rescanned = d.rescanned /\ e.keys = d.keys \cup {<<f, u>>}
         /\ \A B : f \in B /\ CountsRight(d, B) => CountsRight(e, B)
<1> DEFINE
  n == Len(d.rows)
  r == NewRow(f, u, m)
  R == Append(d.rows, r)
  K == d.keys \cup {<<f, u>>}
  e == [d EXCEPT !.rows = R, !.keys = K]
<1>1. r \in MailRow /\ r.folder = f
  <2>1. (f = "sent") \in BOOLEAN
    OBVIOUS
  <2> QED BY <2>1 DEF NewRow, MailRow
<1> HIDE DEF r
<1>2. d.rows \in Seq(MailRow) /\ n \in Nat /\ DOMAIN d.rows = 1..n
  <2>1. d.rows \in Seq(MailRow)
    BY DEF Mailbox
  <2> QED BY <2>1, LenProperties
<1>3. /\ R \in Seq(MailRow) /\ DOMAIN R = 1..(n + 1) /\ R[n + 1] = r
      /\ \A j \in 1..n : R[j] = d.rows[j]
  BY <1>1, <1>2, AppendProperties, LenProperties
<1>4. K \in SUBSET (Folders \X Nat)
  BY DEF Mailbox
<1>5. Added(d, f, u, m) = e
  BY DEF Added, r
<1> HIDE DEF R, K
<1>6. e \in Mailbox
  BY <1>3, <1>4 DEF Mailbox
<1>7. /\ e.rows = R /\ e.rules = d.rules /\ e.last = d.last /\ e.seen = d.seen
      /\ e.counted = d.counted /\ e.behind = d.behind /\ e.counts = d.counts
      /\ e.moved = d.moved /\ e.rescanned = d.rescanned /\ e.keys = K
  BY DEF Mailbox
<1> HIDE DEF e
<1>8. ASSUME NEW B, f \in B, CountsRight(d, B) PROVE CountsRight(e, B)
  <2>1. SUFFICES ASSUME NEW h \in Folders \ (d.behind \cup B) PROVE d.counts[h] = Exact(e.rows, h)
    BY <1>7 DEF CountsRight
  <2>2. d.counts[h] = Exact(d.rows, h) /\ h # f
    BY <1>8, <2>1 DEF CountsRight
  <2>3. \A j \in 1..(n + 1) : j \in 1..n \/ j = n + 1
    BY <1>2
  <2>4. \A j \in 1..n : j \in 1..(n + 1) /\ j # n + 1
    BY <1>2
  <2>5. Alike(e.rows, d.rows, h)
    <3>1. \A j : j \in Live(e.rows, h) => j \in 1..n
      BY <1>1, <1>3, <1>7, <2>2, <2>3 DEF Live
    <3>2. \A j \in 1..n : (j \in Live(e.rows, h) <=> j \in Live(d.rows, h)) /\ e.rows[j] = d.rows[j]
      BY <1>2, <1>3, <1>7, <2>4 DEF Live
    <3>3. \A j : j \in Live(d.rows, h) => j \in 1..n
      BY <1>2 DEF Live
    <3> QED BY <3>1, <3>2, <3>3 DEF Alike
  <2> QED BY <2>2, <2>5, ExactAlike
<1>9. e.rows[n + 1] = NewRow(f, u, m)
  BY <1>3, <1>7 DEF r
<1>10. e.keys = d.keys \cup {<<f, u>>}
  BY <1>7 DEF K
<1> QED BY <1>2, <1>3, <1>5, <1>6, <1>7, <1>8, <1>9, <1>10

\* A mail m that is found in folder f under the uid u.
Upserted(d, e, f, u, m) ==
  /\ e \in Mailbox /\ DOMAIN d.rows \subseteq DOMAIN e.rows
  /\ \A j \in DOMAIN d.rows :
       /\ e.rows[j].mail = d.rows[j].mail /\ e.rows[j].folder = d.rows[j].folder
       /\ e.rows[j].read = d.rows[j].read /\ e.rows[j].deleted = d.rows[j].deleted
       /\ \/ e.rows[j].uid = d.rows[j].uid
          \/ /\ e.rows[j].folder = f /\ e.rows[j].mail = m /\ e.rows[j].uid = u
             /\ d.rows[j].uid = NoUid
  /\ \A j \in DOMAIN e.rows \ DOMAIN d.rows :
       /\ e.rows[j].mail = m /\ e.rows[j].folder \in e.counted \cup {f}
       /\ \/ e.rows[j].folder = f /\ e.rows[j].uid = u
          \/ e.rows[j].uid = NoUid /\ m \in e.moved
       /\ <<f, u>> \in e.keys /\ SameMail(d, f, m) = {}
       /\ \A k \in DOMAIN e.rows \ DOMAIN d.rows : k = j
  /\ d.moved \subseteq e.moved /\ e.rescanned = d.rescanned /\ d.keys \subseteq e.keys
  /\ d.counted \subseteq e.counted
  /\ e.rules = d.rules /\ e.last = d.last /\ e.seen = d.seen
  /\ \A B : f \in B /\ CountsRight(d, B) => CountsRight(e, B)
  /\ Holds(d, f, u) = {} => \E j \in DOMAIN e.rows : e.rows[j].mail = m

LEMMA AdoptedIs ==
  ASSUME NEW d \in Mailbox, NEW i \in DOMAIN d.rows, NEW u \in Nat
  PROVE  LET e == [d EXCEPT !.rows[i].uid = u] IN
         /\ e \in Mailbox /\ DOMAIN e.rows = DOMAIN d.rows
         /\ e.rows[i] = [d.rows[i] EXCEPT !.uid = u]
         /\ \A j \in DOMAIN d.rows \ {i} : e.rows[j] = d.rows[j]
         /\ e.rules = d.rules /\ e.last = d.last /\ e.seen = d.seen
         /\ e.counted = d.counted /\ SameMarks(d, e)
         /\ \A B : CountsRight(d, B) => CountsRight(e, B)
<1>1. d.rows[i] \in MailRow
  BY RowsAre DEF Mailbox
<1> DEFINE
  r == [d.rows[i] EXCEPT !.uid = u]
  x == Replaced(d, i, r)
<1>2. /\ r \in MailRow /\ r.folder = d.rows[i].folder /\ r.read = d.rows[i].read
      /\ r.deleted = d.rows[i].deleted
  BY <1>1 DEF MailRow
<1>3. [d EXCEPT !.rows[i].uid = u] = x
  BY <1>1 DEF Replaced, Mailbox, MailRow
<1>4. /\ x \in Mailbox /\ DOMAIN x.rows = DOMAIN d.rows
      /\ x.rows[i] = r /\ \A j \in DOMAIN d.rows \ {i} : x.rows[j] = d.rows[j]
      /\ x.rules = d.rules /\ x.counts = d.counts /\ x.behind = d.behind
      /\ x.counted = d.counted /\ x.last = d.last /\ x.seen = d.seen /\ SameMarks(d, x)
  BY <1>2, ReplacedType
<1> HIDE DEF x, r
<1>5. \A h : Alike(x.rows, d.rows, h)
  BY <1>2, <1>4 DEF Alike, Live
<1>6. ASSUME NEW B, CountsRight(d, B) PROVE CountsRight(x, B)
  BY <1>4, <1>5, <1>6, ExactAlike DEF CountsRight
<1>7. x.rows[i] = [d.rows[i] EXCEPT !.uid = u]
  BY <1>4 DEF r
<1> QED BY <1>3, <1>4, <1>6, <1>7

LEMMA UpsertIs ==
  ASSUME NEW d \in Mailbox, NEW f \in Folders, NEW u \in Nat, NEW m \in AllMails
  PROVE  Upserted(d, _upsert_message(d, f, u, m), f, u, m)
<1> DEFINE
  twins == SameMail(d, f, m)
  e == _upsert_message(d, f, u, m)
<1>1. /\ DOMAIN d.rows = 1..Len(d.rows) /\ Len(d.rows) \in Nat /\ \A j \in DOMAIN d.rows : d.rows[j] \in MailRow
  BY RowsAre DEF Mailbox
<1>2. Upserted(d, d, f, u, m) \/ Holds(d, f, u) = {}
  BY DEF Upserted
<1>3. CASE Holds(d, f, u) # {}
  <2>1. e = d
    BY <1>3 DEF _upsert_message
  <2> QED BY <1>2, <1>3, <2>1
<1>4. CASE Holds(d, f, u) = {} /\ twins # {}
  <2> DEFINE i == Min(twins)
  <2>1. i \in DOMAIN d.rows /\ d.rows[i].folder = f /\ d.rows[i].mail = m
    <3>1. twins \in SUBSET Nat
      BY <1>1 DEF SameMail, Live
    <3>2. i \in twins
      BY <1>4, <3>1, LowestOf
    <3> QED BY <3>2 DEF SameMail, Live
  <2>2. e = IF d.rows[i].uid # NoUid THEN d ELSE [d EXCEPT !.rows[i].uid = u]
    BY <1>4 DEF _upsert_message
  <2> HIDE DEF e, i
  <2>3. CASE d.rows[i].uid # NoUid
    <3>1. e = d
      BY <2>2, <2>3
    <3>2. Upserted(d, d, f, u, m)
      BY <2>1 DEF Upserted
    <3> QED BY <3>1, <3>2 DEF e
  <2>4. CASE d.rows[i].uid = NoUid
    <3> DEFINE x == [d EXCEPT !.rows[i].uid = u]
    <3>1. e = x
      BY <2>2, <2>4
    <3>2. /\ x \in Mailbox /\ DOMAIN x.rows = DOMAIN d.rows
          /\ x.rows[i] = [d.rows[i] EXCEPT !.uid = u]
          /\ \A j \in DOMAIN d.rows \ {i} : x.rows[j] = d.rows[j]
          /\ x.rules = d.rules /\ x.last = d.last /\ x.seen = d.seen
          /\ x.counted = d.counted /\ SameMarks(d, x)
          /\ \A B : CountsRight(d, B) => CountsRight(x, B)
      BY <2>1, AdoptedIs
    <3>3. /\ x.rows[i].mail = d.rows[i].mail /\ x.rows[i].folder = d.rows[i].folder
          /\ x.rows[i].read = d.rows[i].read /\ x.rows[i].deleted = d.rows[i].deleted
          /\ x.rows[i].uid = u
      BY <1>1, <2>1, <3>2 DEF MailRow
    <3> HIDE DEF x
    <3>4. \A j \in DOMAIN d.rows :
             /\ x.rows[j].mail = d.rows[j].mail /\ x.rows[j].folder = d.rows[j].folder
             /\ x.rows[j].read = d.rows[j].read /\ x.rows[j].deleted = d.rows[j].deleted
             /\ \/ x.rows[j].uid = d.rows[j].uid
                \/ /\ x.rows[j].folder = f /\ x.rows[j].mail = m /\ x.rows[j].uid = u
                   /\ d.rows[j].uid = NoUid
      BY <2>1, <2>4, <3>2, <3>3
    <3>5. \E j \in DOMAIN x.rows : x.rows[j].mail = m
      BY <2>1, <3>2, <3>3
    <3>6. Upserted(d, x, f, u, m)
      BY <3>2, <3>4, <3>5 DEF Upserted, SameMarks
    <3> QED BY <3>1, <3>6 DEF e
  <2> QED BY <2>3, <2>4
<1>5. CASE Holds(d, f, u) = {} /\ twins = {}
  <2> DEFINE
    n == Len(d.rows)
    x == Added(d, f, u, m)
  <2>1. e = IF f = "inbox" THEN apply_rules(x, n + 1) ELSE x
    <3>1. Len(Append(d.rows, NewRow(f, u, m))) = n + 1
      BY DEF Mailbox
    <3> QED BY <1>5, <3>1 DEF _upsert_message, Added, NewRow
  <2>2. /\ x \in Mailbox /\ n \in Nat /\ DOMAIN d.rows = 1..n /\ DOMAIN x.rows = 1..(n + 1)
        /\ x.rows[n + 1] = NewRow(f, u, m) /\ \A j \in 1..n : x.rows[j] = d.rows[j]
        /\ x.rules = d.rules /\ x.last = d.last /\ x.seen = d.seen
        /\ x.counted = d.counted
        /\ x.moved = d.moved /\ x.rescanned = d.rescanned /\ x.keys = d.keys \cup {<<f, u>>}
        /\ \A B : f \in B /\ CountsRight(d, B) => CountsRight(x, B)
    BY AddedIs
  <2> HIDE DEF x, n
  <2>3. Evolved(x, e, {n + 1})
    <3>1. CASE f = "inbox"
      <4>1. n + 1 \in DOMAIN x.rows
        BY <2>2
      <4>2. Evolved(x, apply_rules(x, n + 1), {n + 1})
        BY <2>2, <4>1, ApplyEvolves
      <4> QED BY <2>1, <3>1, <4>2
    <3>2. CASE f # "inbox"
      <4>1. Evolved(x, x, {n + 1})
        BY <2>2, EvolvedRefl
      <4> QED BY <2>1, <3>2, <4>1
    <3> QED BY <3>1, <3>2
  <2> HIDE DEF e
  <2>4. /\ NewRow(f, u, m).mail = m /\ NewRow(f, u, m).folder = f /\ NewRow(f, u, m).uid = u
    BY DEF NewRow
  <2>5. DOMAIN e.rows = 1..(n + 1) /\ e \in Mailbox /\ x.counted \subseteq e.counted
    BY <2>2, <2>3 DEF Evolved
  <2>6. ASSUME NEW j \in 1..n PROVE e.rows[j] = d.rows[j]
    BY <2>2, <2>3 DEF Evolved
  <2>7. /\ e.rows[n + 1].mail = m /\ e.rows[n + 1].folder \in e.counted \cup {f}
        /\ \/ e.rows[n + 1].folder = f /\ e.rows[n + 1].uid = u
           \/ e.rows[n + 1].uid = NoUid /\ m \in e.moved
    <3>1. n + 1 \in DOMAIN x.rows
      BY <2>2
    <3> QED BY <2>2, <2>3, <2>4, <3>1 DEF Evolved
  <2>8. ASSUME NEW B, f \in B, CountsRight(d, B) PROVE CountsRight(e, B)
    BY <2>2, <2>3, <2>8 DEF Evolved
  <2>9. e.rules = d.rules /\ e.last = d.last /\ e.seen = d.seen
    BY <2>2, <2>3 DEF Evolved
  <2>10. n + 1 \in DOMAIN e.rows /\ DOMAIN d.rows \subseteq DOMAIN e.rows
         /\ \A j \in DOMAIN e.rows \ DOMAIN d.rows : j = n + 1
    BY <2>2, <2>5
  <2>11. /\ d.moved \subseteq e.moved /\ e.rescanned = d.rescanned /\ d.keys \subseteq e.keys
         /\ <<f, u>> \in e.keys /\ SameMail(d, f, m) = {}
    BY <1>5, <2>2, <2>3 DEF Evolved
  <2>12. Upserted(d, e, f, u, m)
    BY <2>2, <2>5, <2>6, <2>7, <2>8, <2>9, <2>10, <2>11 DEF Upserted
  <2> QED BY <2>12 DEF e
<1> QED BY <1>3, <1>4, <1>5

LEMMA GreatestOf ==
  ASSUME NEW n \in Nat, NEW T \in SUBSET (0..n), T # {} PROVE Max(T) \in T /\ \A y \in T : y <= Max(T)
<1> DEFINE D == {n - x : x \in T}
<1>1. D \in SUBSET Nat /\ D # {}
  <2>1. \A x \in T : x \in 0..n /\ n - x \in Nat
    OBVIOUS
  <2> QED BY <2>1
<1>2. PICK c \in D : \A e \in D : c <= e
  BY <1>1, LeastNat
<1>3. PICK x \in T : c = n - x
  BY <1>2
<1>4. ASSUME NEW y \in T PROVE x >= y
  <2>1. n - y \in D /\ x \in Nat /\ y \in Nat
    OBVIOUS
  <2> QED BY <1>2, <1>3, <2>1
<1>5. \E z \in T : \A y \in T : z >= y
  BY <1>4
<1>6. Max(T) \in T /\ \A y \in T : Max(T) >= y
  BY <1>5 DEF Max
<1> QED BY <1>6

\* What a pass has made (d) of the rows it began with (s), while the folders B are not
\* counted yet: these rows have at most another uid, every other row is in a folder that
\* it has counted, and the counters are right.
Within(s, d, B) ==
  /\ d \in Mailbox /\ DOMAIN s.rows \subseteq DOMAIN d.rows
  /\ \A j \in DOMAIN s.rows :
       /\ d.rows[j].mail = s.rows[j].mail /\ d.rows[j].folder = s.rows[j].folder
       /\ d.rows[j].read = s.rows[j].read /\ d.rows[j].deleted = s.rows[j].deleted
  /\ \A j \in DOMAIN d.rows \ DOMAIN s.rows : d.rows[j].folder \in d.counted \cup B
  /\ CountsRight(d, B)

\* The folders G number the mails as the server does.
BoxOK(b) == b \in [Served -> Seq(AllMails \cup {Gone})]
UidsTrue(b, d, G) ==
  \A g \in G : \A j \in DOMAIN d.rows : d.rows[j].folder = g /\ d.rows[j].uid # NoUid =>
    /\ d.rows[j].uid \in DOMAIN b[g]
    /\ b[g][d.rows[j].uid] \in {Gone, d.rows[j].mail}
Has(d, m) == \E j \in DOMAIN d.rows : d.rows[j].mail = m
Grows(d, e) == \A j \in DOMAIN d.rows : j \in DOMAIN e.rows /\ e.rows[j].mail = d.rows[j].mail

LEMMA UpsertWithin ==
  ASSUME NEW s \in Mailbox, NEW d, NEW e, NEW f, NEW u, NEW m, NEW B,
         Within(s, d, B), f \in B, Upserted(d, e, f, u, m)
  PROVE  Within(s, e, B)
<1>1. ASSUME NEW j \in DOMAIN s.rows
      PROVE  /\ j \in DOMAIN e.rows
             /\ e.rows[j].mail = s.rows[j].mail /\ e.rows[j].folder = s.rows[j].folder
             /\ e.rows[j].read = s.rows[j].read /\ e.rows[j].deleted = s.rows[j].deleted
  BY DEF Within, Upserted
<1>2. ASSUME NEW j \in DOMAIN e.rows \ DOMAIN s.rows PROVE e.rows[j].folder \in e.counted \cup B
  <2>1. CASE j \in DOMAIN d.rows
    BY <2>1 DEF Within, Upserted
  <2>2. CASE j \notin DOMAIN d.rows
    BY <2>2 DEF Upserted
  <2> QED BY <2>1, <2>2
<1>3. CountsRight(e, B) /\ e \in Mailbox
  BY DEF Within, Upserted
<1> QED BY <1>1, <1>2, <1>3 DEF Within

LEMMA UpsertTrue ==
  ASSUME NEW d, NEW e, NEW G, NEW f, NEW u \in DOMAIN box[f], u # NoUid,
         Upserted(d, e, f, u, box[f][u]), UidsTrue(box, d, G)
  PROVE  UidsTrue(box, e, G) /\ Grows(d, e)
<1>1. ASSUME NEW g \in G, NEW j \in DOMAIN e.rows, e.rows[j].folder = g, e.rows[j].uid # NoUid
      PROVE  /\ e.rows[j].uid \in DOMAIN box[g]
             /\ box[g][e.rows[j].uid] \in {Gone, e.rows[j].mail}
  <2>1. CASE j \in DOMAIN d.rows
    BY <1>1, <2>1 DEF UidsTrue, Upserted
  <2>2. CASE j \notin DOMAIN d.rows
    BY <1>1, <2>2 DEF Upserted
  <2> QED BY <2>1, <2>2
<1>2. Grows(d, e)
  BY DEF Grows, Upserted
<1> QED BY <1>1, <1>2 DEF UidsTrue

LEMMA UpsertHas ==
  ASSUME NEW d, NEW e, NEW G, NEW f \in G, NEW u \in DOMAIN box[f], u # NoUid, box[f][u] # Gone,
         Upserted(d, e, f, u, box[f][u]), UidsTrue(box, d, G)
  PROVE  Has(e, box[f][u])
<1>1. CASE Holds(d, f, u) = {}
  BY <1>1 DEF Upserted, Has
<1>2. CASE Holds(d, f, u) # {}
  <2>1. PICK j \in DOMAIN d.rows : d.rows[j].folder = f /\ d.rows[j].uid = u
    BY <1>2 DEF Holds
  <2>2. d.rows[j].mail = box[f][u]
    BY <2>1 DEF UidsTrue
  <2>3. j \in DOMAIN e.rows /\ e.rows[j].mail = d.rows[j].mail
    BY DEF Upserted
  <2> QED BY <2>2, <2>3 DEF Has
<1> QED BY <1>1, <1>2

LEMMA GrowsHas ==
  ASSUME NEW d, NEW e, NEW m, Grows(d, e), Has(d, m) PROVE Has(e, m)
  BY DEF Grows, Has

\* The fetched mails of a folder are stored.
LEMMA StoredIs ==
  ASSUME BoxOK(box), NEW s \in Mailbox, NEW d, Within(s, d, {}), NEW f \in Served, NEW U \in SUBSET Nat,
         NEW G, UidsTrue(box, d, G)
  PROVE  LET e == Stored(d, f, U)
             there == U \cap Present(f) IN
         /\ Within(s, e, {}) /\ UidsTrue(box, e, G) /\ Grows(d, e)
         /\ e.last[f] \in there \cup {d.last[f]} /\ \A g \in Folders \ {f} : e.last[g] = d.last[g]
         /\ f \in G => \A u \in there : Has(e, box[f][u])
         /\ e.rows = UpsertedAll(d, f, there).rows /\ SameMarks(UpsertedAll(d, f, there), e)
         /\ \A u \in there \cup {d.last[f]} : u <= e.last[f]
<1> DEFINE
  there == U \cap Present(f)
  n == Len(box[f])
  T == {x \in Mailbox : /\ Within(s, x, {f}) /\ UidsTrue(box, x, G) /\ Grows(d, x)
                        /\ x.last = d.last /\ x.seen = d.seen /\ x.rules = d.rules}
  W == {y \in there \X T : f \in G => Has(y[2], box[f][y[1]])}
  a == UpsertedAll(d, f, there)
<1>1. /\ n \in Nat /\ DOMAIN box[f] = 1..n /\ there \in SUBSET (1..n) /\ f \in Folders
      /\ \A u \in there : /\ u \in DOMAIN box[f] /\ box[f][u] # Gone /\ box[f][u] \in AllMails
                          /\ u \in Nat /\ u # NoUid
  <2>1. box[f] \in Seq(AllMails \cup {Gone})
    BY DEF BoxOK
  <2>2. n \in Nat /\ DOMAIN box[f] = 1..n /\ \A u \in 1..n : box[f][u] \in AllMails \cup {Gone}
    BY <2>1, LenProperties
  <2>3. there \in SUBSET (1..n)
    BY <2>2 DEF Present
  <2>4. \A u \in 1..n : u \in Nat /\ u # NoUid
    BY <2>2 DEF NoUid
  <2>5. \A u \in there : box[f][u] # Gone
    BY DEF Present
  <2> QED BY <2>2, <2>3, <2>4, <2>5, FoldersAre
<1> HIDE DEF n, there
<1>2. d \in T
  <2>1. Within(s, d, {f}) /\ d \in Mailbox
    BY DEF Within, CountsRight
  <2> QED BY <2>1 DEF Grows
<1>3. ASSUME NEW x \in T, NEW u \in there
      PROVE  LET y == _upsert_message(x, f, u, box[f][u]) IN
             y \in T /\ <<u, y>> \in W /\ \A v \in there : <<v, x>> \in W => <<v, y>> \in W
  <2> DEFINE y == _upsert_message(x, f, u, box[f][u])
  <2>1. Upserted(x, y, f, u, box[f][u])
    BY <1>1, UpsertIs
  <2> HIDE DEF y
  <2>2. Within(s, y, {f})
    BY <2>1, UpsertWithin
  <2>3. UidsTrue(box, y, G) /\ Grows(x, y)
    BY <1>1, <2>1, UpsertTrue
  <2>4. f \in G => Has(y, box[f][u])
    BY <1>1, <2>1, UpsertHas
  <2>5. y \in Mailbox /\ y.last = d.last /\ y.seen = d.seen /\ y.rules = d.rules
    BY <2>1 DEF Upserted
  <2>6. Grows(d, y)
    BY <2>3 DEF Grows
  <2>7. y \in T
    BY <2>2, <2>3, <2>5, <2>6
  <2>8. <<u, y>> \in W
    BY <2>4, <2>7
  <2>9. ASSUME NEW v \in there, <<v, x>> \in W PROVE <<v, y>> \in W
    BY <2>3, <2>7, <2>9, GrowsHas
  <2> QED BY <2>7, <2>8, <2>9 DEF y
<1>4. a \in T /\ \A u \in there : <<u, a>> \in W
  <2> HIDE DEF T, W
  <2> QED BY <1>1, <1>2, <1>3, UpsertedKeeps
<1> HIDE DEF a
<1> DEFINE
  l == [d.last EXCEPT ![f] = Max(there \cup {@})]
  b == [a EXCEPT !.last = l]
  e == refresh_folder_counts(b, {f})
<1>5. Stored(d, f, U) = e
  <2>1. [a EXCEPT !.last[f] = Max(there \cup {@})] = b
    BY <1>4 DEF Mailbox
  <2> QED BY <2>1 DEF Stored, a, there
<1>6. /\ l \in [Folders -> Nat]
      /\ l[f] \in there \cup {d.last[f]} /\ \A g \in Folders \ {f} : l[g] = d.last[g]
      /\ \A u \in there \cup {d.last[f]} : u <= l[f]
  <2>1. d.last \in [Folders -> Nat]
    BY DEF Within, Mailbox
  <2>2. n \in Nat /\ d.last[f] \in Nat /\ n + d.last[f] \in Nat
    BY <1>1, <2>1
  <2>3. \A u \in 1..n : u \in 0..(n + d.last[f])
    BY <2>2
  <2>4. d.last[f] \in 0..(n + d.last[f])
    BY <2>2
  <2> DEFINE M == there \cup {d.last[f]}
  <2>5. M \in SUBSET (0..(n + d.last[f])) /\ M # {} /\ M \in SUBSET Nat
    BY <1>1, <2>2, <2>3, <2>4
  <2> HIDE DEF M
  <2>6. Max(M) \in M /\ \A y \in M : y <= Max(M)
    BY <2>2, <2>5, GreatestOf
  <2>7. Max(M) \in Nat
    BY <2>5, <2>6
  <2>8. l = [d.last EXCEPT ![f] = Max(M)]
    BY DEF M
  <2> HIDE DEF l
  <2>9. l[f] = Max(M) /\ l \in [Folders -> Nat] /\ \A g \in Folders \ {f} : l[g] = d.last[g]
    BY <1>1, <2>1, <2>7, <2>8
  <2> QED BY <2>6, <2>9 DEF M
<1> HIDE DEF l
<1>7. /\ b \in Mailbox /\ b.rows = a.rows /\ b.counts = a.counts /\ b.behind = a.behind
      /\ b.counted = a.counted /\ b.last = l /\ SameMarks(a, b)
  BY <1>4, <1>6 DEF Mailbox, SameMarks
<1> HIDE DEF b
<1>8. {f} \in SUBSET Folders
  BY <1>1
<1>9. /\ e \in Mailbox /\ e.rows = b.rows /\ e.behind = b.behind \ {f}
      /\ e.counted = b.counted \cup {f} /\ e.last = b.last /\ SameMarks(b, e)
      /\ \A h \in Folders : e.counts[h] = IF h \in {f} THEN Exact(b.rows, h) ELSE b.counts[h]
  BY <1>7, <1>8, Recount
<1> HIDE DEF e
<1>10. CountsRight(e, {})
  <2>1. CountsRight(a, {f})
    BY <1>4 DEF Within
  <2> QED BY <1>7, <1>9, <2>1 DEF CountsRight
<1>11. Within(s, e, {})
  <2>1. Within(s, a, {f})
    BY <1>4
  <2> QED BY <1>7, <1>9, <1>10, <2>1 DEF Within
<1>12. UidsTrue(box, e, G) /\ Grows(d, e)
  <2>1. UidsTrue(box, a, G) /\ Grows(d, a)
    BY <1>4
  <2> QED BY <1>7, <1>9, <2>1 DEF UidsTrue, Grows
<1>13. f \in G => \A u \in there : Has(e, box[f][u])
  <2>1. f \in G => \A u \in there : Has(a, box[f][u])
    BY <1>4
  <2> QED BY <1>7, <1>9, <2>1 DEF Has
<1>14. /\ e.last[f] \in there \cup {d.last[f]}
       /\ \A g \in Folders \ {f} : e.last[g] = d.last[g]
  BY <1>6, <1>7, <1>9
<1>15. e.rows = a.rows /\ SameMarks(a, e) /\ \A u \in there \cup {d.last[f]} : u <= e.last[f]
  BY <1>6, <1>7, <1>9 DEF SameMarks
<1> QED BY <1>5, <1>11, <1>12, <1>13, <1>14, <1>15 DEF there, a

-----------------------------------------------------------------------------
\* The invariant: of the mailbox (d) and of a pass (t), for the server's folders b and
\* the folders G that number their mails as they did at the beginning.

PresentIn(b, g) == {u \in DOMAIN b[g] : b[g][u] # Gone}
\* A mail that last_uid has passed has a row.
Covered(b, d, G) ==
  \A g \in G : /\ d.last[g] \in 0..Len(b[g])
               /\ \A u \in PresentIn(b, g) : u <= d.last[g] => Has(d, b[g][u])
MailboxOK(b, d, G) ==
  /\ d \in Mailbox /\ d.counted = {} /\ CountsRight(d, {})
  /\ UidsTrue(b, d, G) /\ Covered(b, d, G)

\* What a pass has found in the folder it is at: every mail up to the highest of them.
InFlight(b, t) ==
  \A w \in t.uids :
    /\ w \in DOMAIN b[t.at]
    /\ \A u \in PresentIn(b, t.at) : t.tx.last[t.at] < u /\ u <= w => u \in t.uids
Statuses == {"pending", "connected", "error", "disconnected"}
Turns == {k \in DOMAIN Order : Order[k] \in Served}
Passes == [snap : Mailbox, status : Statuses, tx : Mailbox, todo : SUBSET Turns,
           at : Served \cup {"none"}, uids : SUBSET Nat]
PassOK(b, d, t, G) ==
  /\ t \in Passes /\ Within(t.snap, t.tx, {}) /\ Grows(t.snap, d)
  /\ UidsTrue(b, t.tx, G) /\ Covered(b, t.tx, G)
  /\ t.at \in G => InFlight(b, t)

\* A handler writes e where the mailbox was d.
Rewrites(d, e, G) ==
  /\ e \in Mailbox /\ CountsRight(e, {}) /\ Grows(d, e)
  /\ \A j \in DOMAIN e.rows :
       \/ e.rows[j].uid = NoUid
       \/ e.rows[j].folder \notin G
       \/ /\ j \in DOMAIN d.rows /\ e.rows[j].folder = d.rows[j].folder
          /\ e.rows[j].uid = d.rows[j].uid
  /\ \A g \in G : e.last[g] \in {d.last[g], 0}
\* It stores the mails O at most, one of them, in the sent folder.  Every other row is where
\* it was, with its uid, unless its mail is marked, and so is a last_uid that goes back.
Leaves(d, e, O) ==
  /\ d.moved \subseteq e.moved /\ d.rescanned \subseteq e.rescanned
  /\ e.rescanned = {} => e.last = d.last
  /\ \A j \in DOMAIN d.rows :
       /\ j \in DOMAIN e.rows /\ e.rows[j].mail = d.rows[j].mail
       /\ d.rows[j].deleted => e.rows[j].deleted
       /\ \/ e.rows[j].folder = d.rows[j].folder /\ e.rows[j].uid = d.rows[j].uid
          \/ e.rows[j].mail \in e.moved
  /\ \A j \in DOMAIN e.rows \ DOMAIN d.rows :
       /\ e.rows[j].mail \in O /\ e.rows[j].folder = "sent"
       /\ \A k \in DOMAIN e.rows \ DOMAIN d.rows : k = j
LEMMA LeftBehind ==
  ASSUME NEW d, NEW e \in Mailbox, NEW O, Leaves(d, e, O)
  PROVE  Leaves(d, [e EXCEPT !.counted = {}], O)
<1> DEFINE x == [e EXCEPT !.counted = {}]
<1>1. x.rows = e.rows /\ x.last = e.last /\ x.moved = e.moved /\ x.rescanned = e.rescanned
  BY DEF Mailbox
<1> HIDE DEF x
<1>2. Leaves(d, x, O)
  BY <1>1 DEF Leaves
<1> QED BY <1>2 DEF x

LEMMA HandlerOK ==
  ASSUME NEW b, BoxOK(b), NEW G \in SUBSET Served, NEW d, MailboxOK(b, d, G), NEW e, Rewrites(d, e, G)
  PROVE  MailboxOK(b, [e EXCEPT !.counted = {}], G) /\ Grows(d, [e EXCEPT !.counted = {}])
<1> DEFINE x == [e EXCEPT !.counted = {}]
<1>1. /\ x \in Mailbox /\ x.counted = {} /\ x.rows = e.rows /\ x.counts = e.counts
      /\ x.behind = e.behind /\ x.last = e.last
  <2>1. e \in Mailbox
    BY DEF Rewrites
  <2> QED BY <2>1 DEF Mailbox
<1> HIDE DEF x
<1>2. CountsRight(x, {}) /\ Grows(d, x)
  BY <1>1 DEF CountsRight, Grows, Rewrites
<1>3. UidsTrue(b, x, G)
  <2>1. ASSUME NEW g \in G, NEW j \in DOMAIN x.rows, x.rows[j].folder = g, x.rows[j].uid # NoUid
        PROVE  x.rows[j].uid \in DOMAIN b[g] /\ b[g][x.rows[j].uid] \in {Gone, x.rows[j].mail}
    <3>1. /\ j \in DOMAIN d.rows /\ x.rows[j].folder = d.rows[j].folder
          /\ x.rows[j].uid = d.rows[j].uid
      BY <1>1, <2>1 DEF Rewrites
    <3>2. x.rows[j].mail = d.rows[j].mail
      BY <1>2, <3>1 DEF Grows
    <3> QED BY <2>1, <3>1, <3>2 DEF MailboxOK, UidsTrue
  <2> QED BY <2>1 DEF UidsTrue
<1>4. Covered(b, x, G)
  <2>1. SUFFICES ASSUME NEW g \in G
                 PROVE  /\ x.last[g] \in 0..Len(b[g])
                        /\ \A u \in PresentIn(b, g) : u <= x.last[g] => Has(x, b[g][u])
    BY DEF Covered
  <2>2. DOMAIN b[g] = 1..Len(b[g]) /\ Len(b[g]) \in Nat
    <3>1. b[g] \in Seq(AllMails \cup {Gone})
      BY DEF BoxOK
    <3> QED BY <3>1, LenProperties
  <2>3. CASE x.last[g] = d.last[g]
    <3>1. ASSUME NEW u \in PresentIn(b, g), u <= x.last[g] PROVE Has(x, b[g][u])
      <4>1. Has(d, b[g][u])
        BY <2>3, <3>1 DEF MailboxOK, Covered
      <4> QED BY <1>2, <4>1, GrowsHas
    <3> QED BY <2>3, <3>1 DEF MailboxOK, Covered
  <2>4. CASE x.last[g] = 0
    <3>1. \A u \in PresentIn(b, g) : ~ (u <= 0)
      BY <2>2 DEF PresentIn
    <3> QED BY <2>2, <2>4, <3>1
  <2> QED BY <1>1, <2>3, <2>4 DEF Rewrites
<1> QED BY <1>1, <1>2, <1>3, <1>4 DEF MailboxOK, x

\* Moves and rules.
LEMMA EvolvedOK ==
  ASSUME NEW b, BoxOK(b), NEW G \in SUBSET Served, NEW d, MailboxOK(b, d, G), NEW e, NEW I,
         Evolved(d, e, I)
  PROVE  Rewrites(d, e, G) /\ Leaves(d, e, {})
<1>1. CountsRight(e, {})
  BY DEF Evolved, MailboxOK
<1>2. Grows(d, e)
  BY DEF Evolved, Grows
<1>3. Rewrites(d, e, G)
  BY <1>1, <1>2 DEF Evolved, Rewrites
<1>4. Leaves(d, e, {})
  BY DEF Evolved, Leaves
<1> QED BY <1>3, <1>4

LEMMA RowIndices ==
  ASSUME NEW d \in Mailbox, NEW I, I \subseteq DOMAIN d.rows
  PROVE  Len(d.rows) \in Nat /\ I \in SUBSET (1..Len(d.rows))
  BY RowsAre DEF Mailbox

LEMMA MovedAllIs ==
  ASSUME NEW d \in Mailbox, NEW I, I \subseteq DOMAIN d.rows, NEW f \in Folders
  PROVE  Evolved(d, MovedAll(d, I, f), I)
<1> DEFINE T == {e \in Mailbox : Evolved(d, e, I)}
<1>1. d \in T
  BY EvolvedRefl
<1>2. ASSUME NEW e \in T, NEW i \in I PROVE move_message(e, i, f) \in T
  <2>1. i \in DOMAIN e.rows
    BY DEF Evolved
  <2>2. Evolved(e, move_message(e, i, f), I)
    BY <2>1, MoveEvolves
  <2>3. Evolved(d, move_message(e, i, f), I)
    BY <2>2, EvolvedTrans
  <2> QED BY <2>3 DEF Evolved
<1> HIDE DEF T
<1>3. MovedAll(d, I, f) \in T
  BY <1>1, <1>2, RowIndices, MovedKeeps
<1> QED BY <1>3 DEF T

LEMMA AppliedAllIs ==
  ASSUME NEW d \in Mailbox, NEW I, I \subseteq DOMAIN d.rows, NEW rule \in Rulings
  PROVE  Evolved(d, AppliedAll(d, I, rule), I)
<1> DEFINE T == {e \in Mailbox : Evolved(d, e, I)}
<1>1. d \in T
  BY EvolvedRefl
<1>2. ASSUME NEW e \in T, NEW i \in I PROVE RuleApplied(e, i, rule) \in T
  <2>1. \A x \in T : \A a : Act(x, i, a) \in T
    <3>1. ASSUME NEW x \in T, NEW a PROVE Act(x, i, a) \in T
      <4>1. i \in DOMAIN x.rows
        BY DEF Evolved
      <4>2. Evolved(x, Act(x, i, a), I)
        BY <4>1, ActEvolves
      <4>3. Evolved(d, Act(x, i, a), I)
        BY <4>2, EvolvedTrans
      <4> QED BY <4>3 DEF Evolved
    <3> QED BY <3>1
  <2> HIDE DEF T
  <2> QED BY <2>1, RuleKeeps
<1> HIDE DEF T
<1>3. AppliedAll(d, I, rule) \in T
  BY <1>1, <1>2, RowIndices, AppliedKeeps
<1> QED BY <1>3 DEF T

-----------------------------------------------------------------------------
\* Handlers that rewrite rows in place.

LEMMA FunctionIsSeq ==
  ASSUME NEW S, NEW n \in Nat, NEW R \in [1..n -> S] PROVE R \in Seq(S) /\ Len(R) = n
  BY SeqDef, LenProperties

\* Rows R in place of those of d; only the folders C may see a difference.
LEMMA RowsSet ==
  ASSUME NEW d \in Mailbox, NEW R \in [DOMAIN d.rows -> MailRow],
         \A j \in DOMAIN d.rows : R[j].mail = d.rows[j].mail,
         NEW C, \A h \in Folders \ C : Alike(R, d.rows, h)
  PROVE  LET x == [d EXCEPT !.rows = R] IN
         /\ x \in Mailbox /\ x.rows = R /\ x.counts = d.counts /\ x.behind = d.behind
         /\ x.counted = d.counted /\ x.last = d.last /\ SameMarks(d, x) /\ Grows(d, x)
         /\ CountsRight(d, {}) => CountsRight(x, C)
<1> DEFINE x == [d EXCEPT !.rows = R]
<1>1. R \in Seq(MailRow)
  BY RowsAre, FunctionIsSeq DEF Mailbox
<1>2. /\ x \in Mailbox /\ x.rows = R /\ x.counts = d.counts /\ x.behind = d.behind
      /\ x.counted = d.counted /\ x.last = d.last /\ SameMarks(d, x)
  BY <1>1 DEF Mailbox, SameMarks
<1> HIDE DEF x
<1>3. Grows(d, x)
  BY <1>2 DEF Grows
<1>4. ASSUME CountsRight(d, {}) PROVE CountsRight(x, C)
  BY <1>2, <1>4, ExactAlike DEF CountsRight
<1> QED BY <1>2, <1>3, <1>4 DEF x

\* The folders C were counted before the rows were written, and are known to be behind.
LEMMA CountedBefore ==
  ASSUME NEW d \in Mailbox, CountsRight(d, {}), NEW R \in [DOMAIN d.rows -> MailRow],
         \A j \in DOMAIN d.rows : R[j].mail = d.rows[j].mail,
         NEW C \in SUBSET Folders, \A h \in Folders \ C : Alike(R, d.rows, h)
  PROVE  LET e == [refresh_folder_counts(d, C) EXCEPT !.rows = R, !.behind = @ \cup C] IN
         /\ e \in Mailbox /\ e.rows = R /\ e.last = d.last /\ CountsRight(e, {}) /\ Grows(d, e)
         /\ SameMarks(d, e)
<1> DEFINE
  y == refresh_folder_counts(d, C)
  e == [y EXCEPT !.rows = R, !.behind = @ \cup C]
<1>1. /\ y \in Mailbox /\ y.rows = d.rows /\ y.behind = d.behind \ C /\ y.last = d.last
      /\ SameMarks(d, y)
      /\ \A f \in Folders : e.counts[f] = IF f \in C THEN Exact(d.rows, f) ELSE d.counts[f]
  <2>1. /\ y \in Mailbox /\ y.rows = d.rows /\ y.behind = d.behind \ C /\ y.last = d.last
        /\ SameMarks(d, y)
        /\ \A f \in Folders : y.counts[f] = IF f \in C THEN Exact(d.rows, f) ELSE d.counts[f]
    BY Recount
  <2> HIDE DEF y
  <2> QED BY <2>1 DEF Mailbox
<1> HIDE DEF y
<1>2. R \in Seq(MailRow)
  BY RowsAre, FunctionIsSeq DEF Mailbox
<1>3. /\ e \in Mailbox /\ e.rows = R /\ e.last = d.last /\ e.behind = d.behind \cup C
      /\ SameMarks(d, e)
  BY <1>1, <1>2 DEF Mailbox, SameMarks
<1> HIDE DEF e
<1>4. Grows(d, e)
  BY <1>3 DEF Grows
<1>5. CountsRight(e, {})
  <2>1. SUFFICES ASSUME NEW h \in Folders \ e.behind PROVE e.counts[h] = Exact(e.rows, h)
    BY DEF CountsRight
  <2>2. h \notin C /\ h \in Folders \ d.behind
    BY <1>3
  <2>3. e.counts[h] = d.counts[h] /\ d.counts[h] = Exact(d.rows, h)
    BY <1>1, <2>2 DEF CountsRight
  <2>4. Exact(R, h) = Exact(d.rows, h)
    BY <2>2, ExactAlike
  <2> QED BY <1>3, <2>3, <2>4
<1> QED BY <1>3, <1>4, <1>5 DEF e, y

\* The folders F are counted after the rows were written; X is known to be behind.
LEMMA CountedAfter ==
  ASSUME NEW d \in Mailbox, CountsRight(d, {}), NEW R \in [DOMAIN d.rows -> MailRow],
         \A j \in DOMAIN d.rows : R[j].mail = d.rows[j].mail,
         NEW F \in SUBSET Folders, NEW X \in SUBSET Folders,
         \A h \in Folders \ (F \cup X) : Alike(R, d.rows, h)
  PROVE  LET e == refresh_folder_counts([d EXCEPT !.rows = R], F) IN
         /\ e \in Mailbox /\ e.rows = R /\ e.last = d.last /\ Grows(d, e) /\ CountsRight(e, X)
         /\ SameMarks(d, e)
<1> DEFINE
  x == [d EXCEPT !.rows = R]
  e == refresh_folder_counts(x, F)
<1>1. /\ x \in Mailbox /\ x.rows = R /\ x.counts = d.counts /\ x.behind = d.behind
      /\ x.last = d.last /\ Grows(d, x) /\ CountsRight(x, F \cup X) /\ SameMarks(d, x)
  BY RowsSet
<1> HIDE DEF x
<1>2. /\ e \in Mailbox /\ e.rows = x.rows /\ e.behind = x.behind \ F /\ e.last = x.last
      /\ SameMarks(x, e)
      /\ \A f \in Folders : e.counts[f] = IF f \in F THEN Exact(x.rows, f) ELSE x.counts[f]
  BY <1>1, Recount
<1> HIDE DEF e
<1>3. CountsRight(e, X)
  BY <1>1, <1>2 DEF CountsRight
<1>4. SameMarks(d, e)
  BY <1>1, <1>2 DEF SameMarks
<1> QED BY <1>1, <1>2, <1>3, <1>4 DEF Grows, e, x

-----------------------------------------------------------------------------
\* The handlers.

\* Rows of I that are read, unread or deleted.
Flagged(d, R, I) ==
  /\ R \in [DOMAIN d.rows -> MailRow]
  /\ \A j \in DOMAIN d.rows :
       /\ R[j].mail = d.rows[j].mail /\ R[j].folder = d.rows[j].folder /\ R[j].uid = d.rows[j].uid
       /\ d.rows[j].deleted => R[j].deleted
       /\ j \notin I => R[j] = d.rows[j]
LEMMA ReadFlags ==
  ASSUME NEW d \in Mailbox, NEW I, NEW v \in BOOLEAN
  PROVE  Flagged(d, [i \in DOMAIN d.rows |-> IF i \in I THEN [d.rows[i] EXCEPT !.read = v]
                                             ELSE d.rows[i]], I)
<1>1. \A j \in DOMAIN d.rows : d.rows[j] \in MailRow
  BY RowsAre DEF Mailbox
<1>2. ASSUME NEW j \in DOMAIN d.rows
      PROVE  LET r == [d.rows[j] EXCEPT !.read = v] IN
             /\ r \in MailRow /\ r.mail = d.rows[j].mail /\ r.folder = d.rows[j].folder
             /\ r.uid = d.rows[j].uid /\ r.deleted = d.rows[j].deleted
  BY <1>1 DEF MailRow
<1> DEFINE R == [i \in DOMAIN d.rows |-> IF i \in I THEN [d.rows[i] EXCEPT !.read = v] ELSE d.rows[i]]
<1>3. \A j \in DOMAIN d.rows : R[j] = IF j \in I THEN [d.rows[j] EXCEPT !.read = v] ELSE d.rows[j]
  OBVIOUS
<1>4. R \in [DOMAIN d.rows -> MailRow]
  BY <1>1, <1>2
<1> HIDE DEF R
<1>5. Flagged(d, R, I)
  BY <1>1, <1>2, <1>3, <1>4 DEF Flagged
<1> QED BY <1>5 DEF R

LEMMA DeletedFlags ==
  ASSUME NEW d \in Mailbox, NEW I
  PROVE  Flagged(d, [i \in DOMAIN d.rows |-> IF i \in I THEN [d.rows[i] EXCEPT !.deleted = TRUE]
                                             ELSE d.rows[i]], I)
<1>1. \A j \in DOMAIN d.rows : d.rows[j] \in MailRow
  BY RowsAre DEF Mailbox
<1>2. ASSUME NEW j \in DOMAIN d.rows
      PROVE  LET r == [d.rows[j] EXCEPT !.deleted = TRUE] IN
             /\ r \in MailRow /\ r.mail = d.rows[j].mail /\ r.folder = d.rows[j].folder
             /\ r.uid = d.rows[j].uid /\ r.deleted
  BY <1>1 DEF MailRow
<1> DEFINE R == [i \in DOMAIN d.rows |-> IF i \in I THEN [d.rows[i] EXCEPT !.deleted = TRUE] ELSE d.rows[i]]
<1>3. \A j \in DOMAIN d.rows : R[j] = IF j \in I THEN [d.rows[j] EXCEPT !.deleted = TRUE] ELSE d.rows[j]
  OBVIOUS
<1>4. R \in [DOMAIN d.rows -> MailRow]
  BY <1>1, <1>2
<1> HIDE DEF R
<1>5. Flagged(d, R, I)
  BY <1>1, <1>2, <1>3, <1>4 DEF Flagged
<1> QED BY <1>5 DEF R

LEMMA FlaggedAlike ==
  ASSUME NEW d, NEW I, NEW R, Flagged(d, R, I), NEW h,
         \A i \in I : i \in DOMAIN d.rows => d.rows[i].folder # h
  PROVE  Alike(R, d.rows, h)
<1>1. DOMAIN R = DOMAIN d.rows
  BY DEF Flagged
<1>2. \A j \in DOMAIN d.rows : R[j] = d.rows[j] \/ (R[j].folder # h /\ d.rows[j].folder # h)
  BY DEF Flagged
<1> QED BY <1>1, <1>2 DEF Alike, Live

\* mark_read, mark_unread and the permanent deletion.
LEMMA FlagOK ==
  ASSUME NEW d \in Mailbox, CountsRight(d, {}), NEW I, I \subseteq DOMAIN d.rows, NEW R, Flagged(d, R, I),
         NEW C \in SUBSET Folders, \A i \in I : d.rows[i].folder \in C, NEW G \in SUBSET Served
  PROVE  LET e == [refresh_folder_counts(d, C) EXCEPT !.rows = R, !.behind = @ \cup C] IN
         Rewrites(d, e, G) /\ Leaves(d, e, {})
<1>1. \A h \in Folders \ C : Alike(R, d.rows, h)
  <2> SUFFICES ASSUME NEW h \in Folders \ C PROVE Alike(R, d.rows, h)
    OBVIOUS
  <2>1. \A i \in I : i \in DOMAIN d.rows => d.rows[i].folder # h
    OBVIOUS
  <2> QED BY <2>1, FlaggedAlike
<1> DEFINE e == [refresh_folder_counts(d, C) EXCEPT !.rows = R, !.behind = @ \cup C]
<1>2. R \in [DOMAIN d.rows -> MailRow] /\ \A j \in DOMAIN d.rows : R[j].mail = d.rows[j].mail
  BY DEF Flagged
<1>3. /\ e \in Mailbox /\ e.rows = R /\ e.last = d.last /\ CountsRight(e, {}) /\ Grows(d, e)
      /\ SameMarks(d, e)
  BY <1>1, <1>2, CountedBefore
<1> HIDE DEF e
<1>4. Rewrites(d, e, G)
  BY <1>3 DEF Rewrites, Flagged
<1>5. Leaves(d, e, {})
  BY <1>3 DEF Leaves, Flagged, SameMarks
<1> QED BY <1>4, <1>5 DEF e

\* empty_folder.
LEMMA EmptyOK ==
  ASSUME NEW d \in Mailbox, CountsRight(d, {}), NEW f \in Folders, NEW R, Flagged(d, R, Live(d.rows, f)),
         NEW G \in SUBSET Served
  PROVE  LET e == refresh_folder_counts([d EXCEPT !.rows = R], {f}) IN
         Rewrites(d, e, G) /\ Leaves(d, e, {})
<1>1. \A h \in Folders \ ({f} \cup {}) : Alike(R, d.rows, h)
  BY FlaggedAlike DEF Live
<1> DEFINE e == refresh_folder_counts([d EXCEPT !.rows = R], {f})
<1>2. R \in [DOMAIN d.rows -> MailRow] /\ \A j \in DOMAIN d.rows : R[j].mail = d.rows[j].mail
  BY DEF Flagged
<1>3. /\ e \in Mailbox /\ e.rows = R /\ e.last = d.last /\ Grows(d, e) /\ CountsRight(e, {})
      /\ SameMarks(d, e)
  <2>1. {f} \in SUBSET Folders /\ {} \in SUBSET Folders
    OBVIOUS
  <2> QED BY <1>1, <1>2, <2>1, CountedAfter
<1> HIDE DEF e
<1>4. Rewrites(d, e, G)
  BY <1>3 DEF Rewrites, Flagged
<1>5. Leaves(d, e, {})
  BY <1>3 DEF Leaves, Flagged, SameMarks
<1> QED BY <1>4, <1>5 DEF e

\* delete_folder: what was in the custom folder is in the trash, with the uids it had.
LEMMA DropOK ==
  ASSUME NEW d \in Mailbox, CountsRight(d, {}), NEW G \in SUBSET Served, NEW uids,
         uids = {d.rows[i].uid : i \in Live(d.rows, "work")} \ {NoUid}, "trash" \in G => uids = {}
  PROVE  LET rows == Live(d.rows, "work")
             R == [i \in DOMAIN d.rows |-> IF i \in rows THEN [d.rows[i] EXCEPT !.folder = "trash"]
                                           ELSE d.rows[i]]
             e == [refresh_folder_counts([d EXCEPT !.rows = R], {"trash"})
                     EXCEPT !.dropped = @ \cup {"work"}, !.behind = @ \cup {"work"},
                            !.moved = @ \cup {d.rows[i].mail : i \in rows}]
         IN Rewrites(d, e, G) /\ Leaves(d, e, {})
<1> DEFINE
  rows == Live(d.rows, "work")
  R == [i \in DOMAIN d.rows |-> IF i \in rows THEN [d.rows[i] EXCEPT !.folder = "trash"] ELSE d.rows[i]]
  M == {d.rows[i].mail : i \in rows}
  y == refresh_folder_counts([d EXCEPT !.rows = R], {"trash"})
  e == [y EXCEPT !.dropped = @ \cup {"work"}, !.behind = @ \cup {"work"}, !.moved = @ \cup M]
<1>1. \A j \in DOMAIN d.rows : d.rows[j] \in MailRow
  BY RowsAre DEF Mailbox
<1>2. /\ rows \subseteq DOMAIN d.rows /\ \A j \in rows : d.rows[j].folder = "work"
      /\ {"trash"} \in SUBSET Folders /\ {"work"} \in SUBSET Folders
  BY FoldersAre DEF Live
<1>3. M \in SUBSET AllMails
  BY <1>1, <1>2 DEF MailRow
<1>4. ASSUME NEW j \in DOMAIN d.rows
      PROVE  LET r == [d.rows[j] EXCEPT !.folder = "trash"] IN
             /\ r \in MailRow /\ r.mail = d.rows[j].mail /\ r.folder = "trash"
             /\ r.uid = d.rows[j].uid /\ r.deleted = d.rows[j].deleted
  BY <1>1, FoldersAre DEF MailRow
<1>5. \A j \in rows : d.rows[j].uid = NoUid \/ "trash" \notin G
  OBVIOUS
<1> HIDE DEF rows
<1>6. R \in [DOMAIN d.rows -> MailRow]
  BY <1>1, <1>4
<1>7. \A j \in DOMAIN d.rows :
        /\ j \in rows => /\ R[j].mail = d.rows[j].mail /\ R[j].folder = "trash"
                         /\ R[j].uid = d.rows[j].uid /\ R[j].deleted = d.rows[j].deleted
        /\ j \notin rows => R[j] = d.rows[j]
  BY <1>4
<1> HIDE DEF R
<1>8. \A h \in Folders \ ({"trash"} \cup {"work"}) : Alike(R, d.rows, h)
  BY <1>2, <1>6, <1>7 DEF Alike, Live
<1>9. /\ y \in Mailbox /\ y.rows = R /\ y.last = d.last /\ Grows(d, y) /\ CountsRight(y, {"work"})
      /\ SameMarks(d, y)
  <2>1. \A j \in DOMAIN d.rows : R[j].mail = d.rows[j].mail
    BY <1>7
  <2> QED BY <1>2, <1>6, <1>8, <2>1, CountedAfter
<1>10. \A j \in rows : d.rows[j].mail \in M
  OBVIOUS
<1> HIDE DEF y, M
<1>11. /\ e \in Mailbox /\ e.rows = R /\ e.last = d.last /\ e.counts = y.counts
       /\ e.behind = y.behind \cup {"work"}
       /\ e.moved = d.moved \cup M /\ e.rescanned = d.rescanned
  BY <1>2, <1>3, <1>9 DEF Mailbox, SameMarks
<1> HIDE DEF e
<1>12. CountsRight(e, {}) /\ Grows(d, e)
  BY <1>9, <1>11 DEF CountsRight, Grows
<1>13. Rewrites(d, e, G)
  BY <1>5, <1>6, <1>7, <1>11, <1>12 DEF Rewrites
<1>14. Leaves(d, e, {})
  <2>1. DOMAIN e.rows = DOMAIN d.rows
    BY <1>6, <1>11
  <2>2. ASSUME NEW j \in DOMAIN d.rows
        PROVE  /\ e.rows[j].mail = d.rows[j].mail /\ e.rows[j].deleted = d.rows[j].deleted
               /\ \/ e.rows[j].folder = d.rows[j].folder /\ e.rows[j].uid = d.rows[j].uid
                  \/ e.rows[j].mail \in e.moved
    BY <1>7, <1>11, <1>10
  <2> QED BY <1>11, <2>1, <2>2 DEF Leaves
<1> QED BY <1>13, <1>14 DEF e, y, M, R, rows

\* resync.
LEMMA RescanOK ==
  ASSUME NEW d \in Mailbox, CountsRight(d, {}), NEW G \in SUBSET Served
  PROVE  LET e == [d EXCEPT !.last = [f \in Folders |-> 0], !.seen = [f \in Folders |-> 0],
                            !.rescanned = @ \cup {f \in Folders : d.last[f] # 0}]
         IN Rewrites(d, e, G) /\ Leaves(d, e, {})
<1> DEFINE
  z == [f \in Folders |-> 0]
  X == {f \in Folders : d.last[f] # 0}
  e == [d EXCEPT !.last = z, !.seen = z, !.rescanned = @ \cup X]
<1>1. z \in [Folders -> Nat] /\ (\A f \in Folders : z[f] = 0) /\ X \in SUBSET Folders
  OBVIOUS
<1>2. \A f \in G : f \in Folders
  BY FoldersAre
<1>3. X = {} => z = d.last
  <2>1. d.last \in [Folders -> Nat]
    BY DEF Mailbox
  <2> QED BY <1>1, <2>1
<1> HIDE DEF z, X
<1>4. /\ e \in Mailbox /\ e.rows = d.rows /\ e.counts = d.counts /\ e.behind = d.behind /\ e.last = z
      /\ e.moved = d.moved /\ e.rescanned = d.rescanned \cup X
  BY <1>1 DEF Mailbox
<1> HIDE DEF e
<1>5. CountsRight(e, {}) /\ Grows(d, e)
  BY <1>4 DEF CountsRight, Grows
<1>6. Rewrites(d, e, G)
  BY <1>1, <1>2, <1>4, <1>5 DEF Rewrites
<1>7. Leaves(d, e, {})
  BY <1>4, <1>3 DEF Leaves
<1> QED BY <1>6, <1>7 DEF e, z, X

\* The mailbox as it is.
LEMMA SameOK ==
  ASSUME NEW d \in Mailbox, CountsRight(d, {}), NEW G PROVE Rewrites(d, d, G) /\ Leaves(d, d, {})
  BY DEF Rewrites, Leaves, Grows

\* junk and not-junk list the senders, too.
LEMMA ListedOK ==
  ASSUME NEW d, NEW e, NEW G, Rewrites(d, e, G), Leaves(d, e, {}), NEW who \in SUBSET AllMails
  PROVE  /\ LET x == [e EXCEPT !.blocked = @ \cup who] IN Rewrites(d, x, G) /\ Leaves(d, x, {})
         /\ LET x == [e EXCEPT !.safe = @ \cup who] IN Rewrites(d, x, G) /\ Leaves(d, x, {})
<1>1. e \in Mailbox
  BY DEF Rewrites
<1>2. ASSUME NEW x, x = [e EXCEPT !.blocked = @ \cup who] \/ x = [e EXCEPT !.safe = @ \cup who]
      PROVE  Rewrites(d, x, G) /\ Leaves(d, x, {})
  <2>1. /\ x \in Mailbox /\ x.rows = e.rows /\ x.counts = e.counts /\ x.behind = e.behind
        /\ x.last = e.last /\ x.moved = e.moved /\ x.rescanned = e.rescanned
    <3>1. CASE x = [e EXCEPT !.blocked = @ \cup who]
      BY <1>1, <3>1 DEF Mailbox
    <3>2. CASE x = [e EXCEPT !.safe = @ \cup who]
      BY <1>1, <3>2 DEF Mailbox
    <3> QED BY <1>2, <3>1, <3>2
  <2>2. CountsRight(x, {}) /\ Grows(d, x)
    BY <2>1 DEF Rewrites, CountsRight, Grows
  <2>3. Rewrites(d, x, G)
    BY <2>1, <2>2 DEF Rewrites
  <2>4. Leaves(d, x, {})
    BY <2>1 DEF Leaves
  <2> QED BY <2>3, <2>4
<1> QED BY <1>2

\* The send worker files the row of an own mail.
OwnRow(o) == [mail |-> o, folder |-> "sent", uid |-> NoUid, read |-> TRUE, deleted |-> FALSE]
FiledIn(d, rows, o) ==
  [d EXCEPT !.rows = Append(@, OwnRow(o)), !.counts["sent"] = Exact(Append(rows, OwnRow(o)), "sent"),
            !.behind = IF Seen(rows, "sent") = Seen(d.rows, "sent") THEN @ \ {"sent"} ELSE @ \cup {"sent"}]

\* Of two views with the same live rows in a folder, each with one more live row.
LEMMA AppendedExact ==
  ASSUME NEW A \in Seq(MailRow), NEW B \in Seq(MailRow), NEW f, Seen(A, f) = Seen(B, f),
         NEW r \in MailRow, r.folder = f, ~r.deleted
  PROVE  Exact(Append(A, r), f) = Exact(Append(B, r), f)
<1> DEFINE
  a == Len(A) + 1
  b == Len(B) + 1
  S == Live(A, f)
  SU == {i \in S : ~A[i].read}
  U == {i \in S \cup {a} : ~Append(A, r)[i].read}
  V == {i \in S \cup {b} : ~Append(B, r)[i].read}
<1>1. Alike(A, B, f) /\ Live(B, f) = S
  <2>1. Alike(A, B, f)
    BY SeenAlike
  <2>2. \A i : i \in Live(A, f) <=> i \in Live(B, f)
    BY <2>1 DEF Alike
  <2> QED BY <2>1, <2>2
<1>2. /\ Len(A) \in Nat /\ Len(B) \in Nat /\ DOMAIN A = 1..Len(A) /\ DOMAIN B = 1..Len(B)
      /\ DOMAIN Append(A, r) = 1..a /\ DOMAIN Append(B, r) = 1..b
      /\ Append(A, r)[a] = r /\ Append(B, r)[b] = r
      /\ \A i \in 1..Len(A) : Append(A, r)[i] = A[i]
      /\ \A i \in 1..Len(B) : Append(B, r)[i] = B[i]
  BY RowsAre, AppendProperties
<1>3. /\ a \notin S /\ b \notin S /\ IsFiniteSet(S) /\ S \subseteq 1..Len(A) /\ S \subseteq 1..Len(B)
  <2>1. S \subseteq 1..Len(A) /\ S \subseteq 1..Len(B)
    BY <1>1, <1>2 DEF Live
  <2>2. a \notin 1..Len(A) /\ b \notin 1..Len(B)
    BY <1>2
  <2> QED BY <2>1, <2>2, ExactType
<1>4. Live(Append(A, r), f) = S \cup {a}
  BY <1>2 DEF Live
<1>5. Live(Append(B, r), f) = S \cup {b}
  <2>1. Live(Append(B, r), f) = Live(B, f) \cup {b}
    BY <1>2 DEF Live
  <2> QED BY <1>1, <2>1
<1>6. \A i \in S : /\ Append(A, r)[i] = A[i] /\ Append(B, r)[i] = B[i] /\ A[i].read = B[i].read
                   /\ i # a /\ i # b
  BY <1>1, <1>2, <1>3 DEF Alike
<1>7. U = (IF r.read THEN SU ELSE SU \cup {a}) /\ V = (IF r.read THEN SU ELSE SU \cup {b})
  BY <1>2, <1>6
<1>8. SU \subseteq S /\ IsFiniteSet(SU)
  BY <1>3, FS_Subset
<1>9. Cardinality(S \cup {a}) = Cardinality(S) + 1 /\ Cardinality(S \cup {b}) = Cardinality(S) + 1
  BY <1>3, FS_AddElement
<1>10. /\ Cardinality(SU \cup {a}) = Cardinality(SU) + 1
       /\ Cardinality(SU \cup {b}) = Cardinality(SU) + 1
  BY <1>3, <1>8, FS_AddElement
<1>11. Cardinality(U) = Cardinality(V)
  BY <1>7, <1>10
<1>12. /\ {i \in Live(Append(A, r), f) : ~Append(A, r)[i].read} = U
       /\ {i \in Live(Append(B, r), f) : ~Append(B, r)[i].read} = V
  BY <1>4, <1>5
<1> HIDE DEF U, V, S, SU
<1> QED BY <1>4, <1>5, <1>9, <1>11, <1>12 DEF Exact

LEMMA FiledOK ==
  ASSUME NEW d \in Mailbox, CountsRight(d, {}), NEW G \in SUBSET Served, NEW o \in Own,
         NEW rows \in Seq(MailRow)
  PROVE  Rewrites(d, FiledIn(d, rows, o), G) /\ Leaves(d, FiledIn(d, rows, o), {o})
<1> DEFINE
  n == Len(d.rows)
  r == OwnRow(o)
  R == Append(d.rows, r)
  x == Exact(Append(rows, r), "sent")
  same == Seen(rows, "sent") = Seen(d.rows, "sent")
  c == [d.counts EXCEPT !["sent"] = x]
  late == IF same THEN d.behind \ {"sent"} ELSE d.behind \cup {"sent"}
  e == FiledIn(d, rows, o)
<1>1. r \in MailRow /\ r.folder = "sent" /\ r.uid = NoUid /\ r.mail = o /\ ~r.deleted
  BY FoldersAre DEF MailRow, AllMails, NoUid, OwnRow
<1> HIDE DEF r
<1>2. d.rows \in Seq(MailRow) /\ n \in Nat /\ DOMAIN d.rows = 1..n
  <2>1. d.rows \in Seq(MailRow)
    BY DEF Mailbox
  <2> QED BY <2>1, LenProperties
<1>3. /\ R \in Seq(MailRow) /\ DOMAIN R = 1..(n + 1) /\ R[n + 1] = r
      /\ \A j \in 1..n : R[j] = d.rows[j]
  BY <1>1, <1>2, AppendProperties, LenProperties
<1>4. x \in Counters
  <2>1. Append(rows, r) \in Seq(MailRow)
    BY <1>1, AppendProperties
  <2> QED BY <2>1, ExactType
<1>5. same => x = Exact(R, "sent")
  BY <1>1, <1>2, AppendedExact
<1>6. e = [d EXCEPT !.rows = R, !.counts = c, !.behind = late]
  BY DEF FiledIn, r, Mailbox
<1> HIDE DEF R, x, same, e
<1>7. /\ c \in [Folders -> Counters] /\ c["sent"] = x
      /\ \A f \in Folders : f # "sent" => c[f] = d.counts[f]
  BY <1>4, FoldersAre DEF Mailbox
<1>8. late \in SUBSET Folders
  BY FoldersAre DEF Mailbox
<1>9. same => late = d.behind \ {"sent"}
  OBVIOUS
<1>10. ~same => late = d.behind \cup {"sent"}
  OBVIOUS
<1> HIDE DEF c, late
<1>11. /\ e \in Mailbox /\ e.rows = R /\ e.counts = c /\ e.behind = late /\ e.last = d.last
       /\ SameMarks(d, e)
  BY <1>3, <1>6, <1>7, <1>8 DEF Mailbox, SameMarks
<1>12. \A j \in 1..(n + 1) : j \in 1..n \/ j = n + 1
  BY <1>2
<1>13. \A j \in 1..n : j \in 1..(n + 1) /\ j # n + 1
  BY <1>2
<1>14. ASSUME NEW h \in Folders, h # "sent" PROVE Alike(R, d.rows, h)
  <2>1. \A j : j \in Live(R, h) => j \in 1..n
    BY <1>1, <1>3, <1>12, <1>14 DEF Live
  <2>2. \A j \in 1..n : (j \in Live(R, h) <=> j \in Live(d.rows, h)) /\ R[j] = d.rows[j]
    BY <1>2, <1>3, <1>13 DEF Live
  <2>3. \A j : j \in Live(d.rows, h) => j \in 1..n
    BY <1>2 DEF Live
  <2> QED BY <2>1, <2>2, <2>3 DEF Alike
<1>15. CountsRight(e, {})
  <2>1. SUFFICES ASSUME NEW h \in Folders \ e.behind PROVE e.counts[h] = Exact(e.rows, h)
    BY DEF CountsRight
  <2>2. CASE h = "sent"
    BY <1>5, <1>7, <1>10, <1>11, <2>1, <2>2
  <2>3. CASE h # "sent"
    <3>1. h \notin d.behind
      BY <1>9, <1>10, <1>11, <2>1, <2>3
    <3>2. d.counts[h] = Exact(d.rows, h)
      BY <3>1 DEF CountsRight
    <3> QED BY <1>7, <1>11, <1>14, <2>3, <3>2, ExactAlike
  <2> QED BY <2>2, <2>3
<1>16. Grows(d, e)
  BY <1>2, <1>3, <1>11, <1>13 DEF Grows
<1>17. Rewrites(d, e, G)
  <2>1. ASSUME NEW j \in DOMAIN e.rows
        PROVE  \/ e.rows[j].uid = NoUid
               \/ /\ j \in DOMAIN d.rows /\ e.rows[j].folder = d.rows[j].folder
                  /\ e.rows[j].uid = d.rows[j].uid
    BY <1>1, <1>2, <1>3, <1>11, <1>12
  <2> QED BY <1>11, <1>15, <1>16, <2>1 DEF Rewrites
<1>18. Leaves(d, e, {o})
  <2>1. \A j \in DOMAIN d.rows : j \in DOMAIN e.rows /\ e.rows[j] = d.rows[j]
    BY <1>2, <1>3, <1>11, <1>13
  <2>2. \A j \in DOMAIN e.rows \ DOMAIN d.rows : j = n + 1 /\ e.rows[j] = r
    BY <1>2, <1>3, <1>11, <1>12
  <2>3. e.moved = d.moved /\ e.rescanned = d.rescanned /\ e.last = d.last
    BY <1>11 DEF SameMarks
  <2> QED BY <1>1, <2>1, <2>2, <2>3 DEF Leaves
<1> QED BY <1>17, <1>18 DEF e

-----------------------------------------------------------------------------
\* What the server may do to a folder that keeps its numbers: mails are added at the end
\* and expunged.
BoxGrows(b, c, G) ==
  \A g \in G : Len(b[g]) <= Len(c[g]) /\ \A u \in DOMAIN b[g] : c[g][u] \in {Gone, b[g][u]}

LEMMA Uids ==
  ASSUME NEW b, BoxOK(b), NEW g \in Served
  PROVE  /\ b[g] \in Seq(AllMails \cup {Gone}) /\ Len(b[g]) \in Nat /\ DOMAIN b[g] = 1..Len(b[g])
         /\ \A u \in 1..Len(b[g]) : b[g][u] \in AllMails \cup {Gone}
<1>1. b[g] \in Seq(AllMails \cup {Gone})
  BY DEF BoxOK
<1> QED BY <1>1, LenProperties

LEMMA GrowingBox ==
  ASSUME NEW b, BoxOK(b), NEW c, BoxOK(c), NEW G \in SUBSET Served, BoxGrows(b, c, G), NEW d
  PROVE  /\ UidsTrue(b, d, G) => UidsTrue(c, d, G)
         /\ Covered(b, d, G) => Covered(c, d, G)
<1>1. ASSUME NEW g \in G
      PROVE  /\ Len(b[g]) \in Nat /\ DOMAIN b[g] = 1..Len(b[g])
             /\ Len(c[g]) \in Nat /\ DOMAIN c[g] = 1..Len(c[g]) /\ Len(b[g]) <= Len(c[g])
             /\ DOMAIN b[g] \subseteq DOMAIN c[g]
             /\ \A u \in DOMAIN b[g] : c[g][u] \in {Gone, b[g][u]}
  <2>1. /\ Len(b[g]) \in Nat /\ DOMAIN b[g] = 1..Len(b[g])
        /\ Len(c[g]) \in Nat /\ DOMAIN c[g] = 1..Len(c[g])
    BY Uids
  <2>2. Len(b[g]) <= Len(c[g]) /\ \A u \in DOMAIN b[g] : c[g][u] \in {Gone, b[g][u]}
    BY DEF BoxGrows
  <2> QED BY <2>1, <2>2
<1>2. ASSUME UidsTrue(b, d, G) PROVE UidsTrue(c, d, G)
  <2>1. SUFFICES ASSUME NEW g \in G, NEW j \in DOMAIN d.rows, d.rows[j].folder = g, d.rows[j].uid # NoUid
                 PROVE  d.rows[j].uid \in DOMAIN c[g] /\ c[g][d.rows[j].uid] \in {Gone, d.rows[j].mail}
    BY DEF UidsTrue
  <2>2. d.rows[j].uid \in DOMAIN b[g] /\ b[g][d.rows[j].uid] \in {Gone, d.rows[j].mail}
    BY <1>2, <2>1 DEF UidsTrue
  <2> QED BY <1>1, <2>2
<1>3. ASSUME Covered(b, d, G) PROVE Covered(c, d, G)
  <2>1. SUFFICES ASSUME NEW g \in G
                 PROVE  /\ d.last[g] \in 0..Len(c[g])
                        /\ \A u \in PresentIn(c, g) : u <= d.last[g] => Has(d, c[g][u])
    BY DEF Covered
  <2>2. /\ d.last[g] \in 0..Len(b[g])
        /\ \A u \in PresentIn(b, g) : u <= d.last[g] => Has(d, b[g][u])
    BY <1>3 DEF Covered
  <2>3. d.last[g] \in 0..Len(c[g])
    BY <1>1, <2>2
  <2>4. ASSUME NEW u \in PresentIn(c, g), u <= d.last[g] PROVE Has(d, c[g][u])
    <3>1. u \in DOMAIN c[g] /\ c[g][u] # Gone
      BY DEF PresentIn
    <3>2. u \in DOMAIN b[g]
      BY <1>1, <2>2, <2>4, <3>1
    <3>3. c[g][u] = b[g][u] /\ u \in PresentIn(b, g)
      BY <1>1, <3>1, <3>2 DEF PresentIn
    <3> QED BY <2>2, <2>4, <3>3
  <2> QED BY <2>3, <2>4
<1> QED BY <1>2, <1>3

LEMMA GrowingFlight ==
  ASSUME NEW b, BoxOK(b), NEW c, BoxOK(c), NEW G \in SUBSET Served, BoxGrows(b, c, G), NEW t,
         t.at \in G, InFlight(b, t)
  PROVE  InFlight(c, t)
<1> DEFINE g == t.at
<1>1. /\ Len(b[g]) \in Nat /\ DOMAIN b[g] = 1..Len(b[g])
      /\ Len(c[g]) \in Nat /\ DOMAIN c[g] = 1..Len(c[g])
  BY Uids
<1>2. Len(b[g]) <= Len(c[g]) /\ \A u \in DOMAIN b[g] : c[g][u] \in {Gone, b[g][u]}
  BY DEF BoxGrows
<1>3. SUFFICES ASSUME NEW w \in t.uids
               PROVE  /\ w \in DOMAIN c[g]
                      /\ \A u \in PresentIn(c, g) : t.tx.last[g] < u /\ u <= w => u \in t.uids
  BY DEF InFlight
<1>4. /\ w \in DOMAIN b[g]
      /\ \A u \in PresentIn(b, g) : t.tx.last[g] < u /\ u <= w => u \in t.uids
  BY DEF InFlight
<1>5. ASSUME NEW u \in PresentIn(c, g), t.tx.last[g] < u, u <= w PROVE u \in t.uids
  <2>1. u \in DOMAIN c[g] /\ c[g][u] # Gone
    BY DEF PresentIn
  <2>2. u \in DOMAIN b[g]
    BY <1>1, <1>4, <1>5, <2>1
  <2>3. u \in PresentIn(b, g)
    BY <1>2, <2>1, <2>2 DEF PresentIn
  <2> QED BY <1>4, <1>5, <2>3
<1>6. w \in DOMAIN c[g]
  BY <1>1, <1>2, <1>4
<1> QED BY <1>5, <1>6

LEMMA BoxChange ==
  ASSUME NEW b, BoxOK(b), NEW c, BoxOK(c), NEW G \in SUBSET Served, BoxGrows(b, c, G), NEW d
  PROVE  /\ MailboxOK(b, d, G) => MailboxOK(c, d, G)
         /\ \A t : PassOK(b, d, t, G) => PassOK(c, d, t, G)
<1>1. ASSUME MailboxOK(b, d, G) PROVE MailboxOK(c, d, G)
  BY <1>1, GrowingBox DEF MailboxOK
<1>2. ASSUME NEW t, PassOK(b, d, t, G) PROVE PassOK(c, d, t, G)
  <2>1. UidsTrue(c, t.tx, G) /\ Covered(c, t.tx, G)
    BY <1>2, GrowingBox DEF PassOK
  <2>2. t.at \in G => InFlight(c, t)
    BY <1>2, GrowingFlight DEF PassOK
  <2> QED BY <1>2, <2>1, <2>2 DEF PassOK
<1> QED BY <1>1, <1>2

\* Fewer folders keep their numbers.
LEMMA FewerFolders ==
  ASSUME NEW b, NEW G, NEW H, H \subseteq G, NEW d
  PROVE  /\ MailboxOK(b, d, G) => MailboxOK(b, d, H)
         /\ \A t : PassOK(b, d, t, G) => PassOK(b, d, t, H)
<1>1. ASSUME NEW e PROVE /\ UidsTrue(b, e, G) => UidsTrue(b, e, H)
                         /\ Covered(b, e, G) => Covered(b, e, H)
  BY DEF UidsTrue, Covered
<1> QED BY <1>1 DEF MailboxOK, PassOK

\* The mailbox grows under a pass.
LEMMA PassStays ==
  ASSUME NEW b, NEW G, NEW d, NEW e, Grows(d, e), NEW t, PassOK(b, d, t, G)
  PROVE  PassOK(b, e, t, G)
<1>1. Grows(t.snap, e)
  BY DEF PassOK, Grows
<1> QED BY <1>1 DEF PassOK

-----------------------------------------------------------------------------
\* The server's steps.

\* A renumbered folder is a sequence of mails.
OneKept(kept, m) == IF m = Gone THEN kept ELSE Append(kept, m)
\* What is left of the mails at the places s: each comes from one of them, and none before it.
Gleaned(mails, s, kept) ==
  /\ \A j \in DOMAIN kept : \E i \in s : j <= i /\ mails[i] = kept[j]
  /\ \A i \in s : mails[i] # Gone => \E j \in DOMAIN kept : kept[j] = mails[i]
  /\ \A j, l \in DOMAIN kept : j # l /\ kept[j] = kept[l] =>
       \E i, k \in s : i # k /\ mails[i] = kept[j] /\ mails[k] = kept[j]

LEMMA KeptOne ==
  ASSUME NEW S, NEW mails, NEW n \in Nat, NEW s \in SUBSET (1..n), NEW k \in s, \A i \in s : i <= k,
         NEW kept \in Seq(S), mails[k] \in S, Gleaned(mails, s \ {k}, kept)
  PROVE  Gleaned(mails, s, OneKept(kept, mails[k]))
<1>1. CASE mails[k] = Gone
  <2>1. OneKept(kept, mails[k]) = kept
    BY <1>1 DEF OneKept
  <2>2. \A j \in DOMAIN kept : \E i \in s : j <= i /\ mails[i] = kept[j]
    BY DEF Gleaned
  <2>3. \A i \in s : mails[i] # Gone => \E j \in DOMAIN kept : kept[j] = mails[i]
    BY <1>1 DEF Gleaned
  <2>4. \A j, l \in DOMAIN kept : j # l /\ kept[j] = kept[l] =>
          \E i, h \in s : i # h /\ mails[i] = kept[j] /\ mails[h] = kept[j]
    BY DEF Gleaned
  <2> QED BY <2>1, <2>2, <2>3, <2>4 DEF Gleaned
<1>2. CASE mails[k] # Gone
  <2> DEFINE
    l == Len(kept)
    e == Append(kept, mails[k])
  <2>1. l \in Nat /\ DOMAIN kept = 1..l
    BY LenProperties
  <2>2. DOMAIN e = 1..(l + 1) /\ e[l + 1] = mails[k] /\ \A j \in 1..l : e[j] = kept[j]
    BY AppendProperties
  <2> HIDE DEF l, e
  <2>3. l + 1 <= k
    <3>1. CASE l = 0
      BY <3>1
    <3>2. CASE l # 0
      <4>1. l \in DOMAIN kept
        BY <2>1, <3>2
      <4>2. PICK i \in s \ {k} : l <= i
        BY <4>1 DEF Gleaned
      <4> QED BY <2>1, <4>2
    <3> QED BY <3>1, <3>2
  <2>4. \A j \in DOMAIN e : \E i \in s : j <= i /\ mails[i] = e[j]
    BY <2>1, <2>2, <2>3 DEF Gleaned
  <2>5. \A i \in s : mails[i] # Gone => \E j \in DOMAIN e : e[j] = mails[i]
    <3>1. ASSUME NEW i \in s \ {k}, mails[i] # Gone PROVE \E j \in DOMAIN e : e[j] = mails[i]
      <4>1. PICK j \in DOMAIN kept : kept[j] = mails[i]
        BY <3>1 DEF Gleaned
      <4> QED BY <2>1, <2>2, <4>1
    <3>2. l + 1 \in DOMAIN e
      BY <2>1, <2>2
    <3> QED BY <2>2, <3>1, <3>2
  <2>6. ASSUME NEW j \in DOMAIN e, NEW x \in DOMAIN e, j # x, e[j] = e[x]
        PROVE  \E i, y \in s : i # y /\ mails[i] = e[j] /\ mails[y] = e[j]
    <3>1. CASE j \in 1..l /\ x \in 1..l
      <4>1. PICK i \in s \ {k}, y \in s \ {k} : i # y /\ mails[i] = kept[j] /\ mails[y] = kept[j]
        BY <2>1, <2>2, <2>6, <3>1 DEF Gleaned
      <4> QED BY <2>2, <3>1, <4>1
    <3>2. ASSUME NEW z \in 1..l, e[z] = mails[k]
          PROVE  \E i, y \in s : i # y /\ mails[i] = mails[k] /\ mails[y] = mails[k]
      <4>1. PICK i \in s \ {k} : mails[i] = kept[z]
        BY <2>1 DEF Gleaned
      <4> QED BY <2>2, <3>2, <4>1
    <3>3. CASE j = l + 1 \/ x = l + 1
      BY <2>1, <2>2, <2>6, <3>2, <3>3
    <3> QED BY <2>1, <2>2, <3>1, <3>3
  <2>7. Gleaned(mails, s, e)
    BY <2>4, <2>5, <2>6 DEF Gleaned
  <2> QED BY <1>2, <2>7 DEF OneKept, e
<1> QED BY <1>1, <1>2

LEMMA KeptType ==
  ASSUME NEW mails \in Seq(AllMails \cup {Gone})
  PROVE  /\ Kept(mails) \in Seq(AllMails \cup {Gone})
         /\ Gleaned(mails, DOMAIN mails, Kept(mails))
<1> DEFINE
  T == Seq(AllMails \cup {Gone})
  n == Len(mails)
  F == [x \in T \X (1..n) |-> OneKept(x[1], mails[x[2]])]
  Folded(g) == g = [s \in SUBSET (1..n) |-> IF s = {} THEN <<>>
                                            ELSE OneKept(g[s \ {Greatest(s)}], mails[Greatest(s)])]
  h == CHOOSE g : Folded(g)
<1>1. n \in Nat /\ DOMAIN mails = 1..n /\ \A k \in 1..n : mails[k] \in AllMails \cup {Gone}
  BY LenProperties
<1>2. <<>> \in T
  OBVIOUS
<1>3. ASSUME NEW e \in T, NEW k \in 1..n PROVE OneKept(e, mails[k]) \in T
  BY <1>1, AppendProperties DEF OneKept
<1> HIDE DEF n, T
<1>4. \A s \in (SUBSET (1..n)) \ {{}} : Greatest(s) \in s
  BY <1>1, GreatestIs
<1>5. PICK g : FoldsUp(g, 1..n, T, <<>>, F)
  <2>1. Step(F, T, 1..n)
    BY <1>3 DEF Step
  <2> HIDE DEF F
  <2> QED BY <1>1, <1>2, <2>1, UpwardFold
<1>6. Folded(g)
  <2>1. ASSUME NEW s \in SUBSET (1..n), s # {}
        PROVE  g[s] = OneKept(g[s \ {Greatest(s)}], mails[Greatest(s)])
    <3>1. <<g[s \ {Greatest(s)}], Greatest(s)>> \in T \X (1..n)
      BY <1>4, <1>5, <2>1 DEF FoldsUp
    <3>2. g[s] = F[<<g[s \ {Greatest(s)}], Greatest(s)>>]
      BY <1>5, <2>1 DEF FoldsUp
    <3> QED BY <3>1, <3>2
  <2>2. g[{}] = <<>> /\ g \in [SUBSET (1..n) -> T]
    BY <1>5 DEF FoldsUp
  <2> HIDE DEF F
  <2> QED BY <2>1, <2>2
<1>7. Folded(h)
  <2> HIDE DEF Folded
  <2> QED BY <1>6
<1>8. Kept(mails) = h[1..n]
  BY <1>1 DEF Kept, FoldLeft, MapThenFoldSet, Max, Greatest, OneKept, n
<1> HIDE DEF h
<1>9. \A s \in SUBSET (1..n) : h[s] \in T
  <2>1. h[{}] \in T
    <3>1. {} \in SUBSET (1..n)
      OBVIOUS
    <3> QED BY <1>2, <1>7, <3>1
  <2>2. ASSUME NEW s \in (SUBSET (1..n)) \ {{}}, h[s \ {Greatest(s)}] \in T PROVE h[s] \in T
    <3>1. Greatest(s) \in 1..n
      BY <1>4
    <3>2. h[s] = OneKept(h[s \ {Greatest(s)}], mails[Greatest(s)])
      BY <1>7
    <3> QED BY <1>3, <2>2, <3>1, <3>2
  <2> HIDE DEF Folded
  <2> QED BY <1>1, <2>1, <2>2, FoldedIn
<1>10. h[{}] = <<>>
  <2>1. {} \in SUBSET (1..n)
    OBVIOUS
  <2> QED BY <1>7, <2>1
<1> DEFINE U == {s \in SUBSET (1..n) : Gleaned(mails, s, h[s])}
<1>11. {} \in U
  BY <1>10 DEF Gleaned
<1>12. ASSUME NEW s \in (SUBSET (1..n)) \ {{}}, s \ {Greatest(s)} \in U PROVE s \in U
  <2> DEFINE k == Greatest(s)
  <2>1. k \in s /\ \A i \in s : i <= k
    BY <1>1, GreatestBounds
  <2>2. h[s] = OneKept(h[s \ {k}], mails[k])
    BY <1>7
  <2> HIDE DEF Folded, k
  <2>3. h[s \ {k}] \in T /\ mails[k] \in AllMails \cup {Gone} /\ Gleaned(mails, s \ {k}, h[s \ {k}])
    BY <1>1, <1>9, <1>12, <2>1 DEF k
  <2>4. Gleaned(mails, s, OneKept(h[s \ {k}], mails[k]))
    BY <1>1, <2>1, <2>3, KeptOne DEF T
  <2> QED BY <2>2, <2>4
<1>13. IsFiniteSet(1..n)
  BY <1>1, FS_Interval
<1>14. ASSUME NEW s \in (SUBSET (1..n)) \ {{}} PROVE \E x \in s : s \ {x} \in U => s \in U
  BY <1>4, <1>12
<1> HIDE DEF U
<1>15. \A s \in SUBSET (1..n) : s \in U
  BY <1>11, <1>13, <1>14, SubsetInduction
<1>16. Gleaned(mails, 1..n, h[1..n])
  BY <1>15 DEF U
<1> QED BY <1>1, <1>8, <1>9, <1>16 DEF T

\* A mail comes in at the end of a folder.
LEMMA MailComes ==
  ASSUME NEW b, BoxOK(b), NEW f \in Served, NEW m \in AllMails, NEW G \in SUBSET Served
  PROVE  LET c == [b EXCEPT ![f] = Append(@, m)] IN BoxOK(c) /\ BoxGrows(b, c, G)
<1> DEFINE c == [b EXCEPT ![f] = Append(@, m)]
<1>1. /\ Append(b[f], m) \in Seq(AllMails \cup {Gone}) /\ Len(Append(b[f], m)) = Len(b[f]) + 1
      /\ \A u \in 1..Len(b[f]) : Append(b[f], m)[u] = b[f][u]
  BY Uids, AppendProperties
<1>2. c[f] = Append(b[f], m) /\ \A g \in Served \ {f} : c[g] = b[g]
  BY DEF BoxOK
<1>3. BoxOK(c)
  BY <1>1 DEF BoxOK
<1> HIDE DEF c
<1>4. ASSUME NEW g \in G
      PROVE  Len(b[g]) <= Len(c[g]) /\ \A u \in DOMAIN b[g] : c[g][u] \in {Gone, b[g][u]}
  <2>1. CASE g = f
    BY <1>1, <1>2, <2>1, Uids
  <2>2. CASE g # f
    BY <1>2, <2>2, Uids
  <2> QED BY <2>1, <2>2
<1> QED BY <1>3, <1>4 DEF BoxGrows, c

\* A mail is expunged.
LEMMA MailGoes ==
  ASSUME NEW b, BoxOK(b), NEW f \in Served, NEW u \in DOMAIN b[f], NEW G \in SUBSET Served
  PROVE  LET c == [b EXCEPT ![f][u] = Gone] IN BoxOK(c) /\ BoxGrows(b, c, G)
<1> DEFINE
  s == [b[f] EXCEPT ![u] = Gone]
  c == [b EXCEPT ![f] = s]
<1>1. [b EXCEPT ![f][u] = Gone] = c
  OBVIOUS
<1>2. /\ s \in Seq(AllMails \cup {Gone}) /\ Len(s) = Len(b[f])
      /\ \A v \in DOMAIN b[f] : s[v] \in {Gone, b[f][v]}
  <2>1. b[f] \in Seq(AllMails \cup {Gone}) /\ DOMAIN b[f] = 1..Len(b[f])
    BY Uids
  <2> QED BY <2>1, ExceptSeq
<1> HIDE DEF s
<1>3. c[f] = s /\ \A g \in Served \ {f} : c[g] = b[g]
  BY DEF BoxOK
<1>4. BoxOK(c)
  BY <1>2 DEF BoxOK
<1> HIDE DEF c
<1>5. ASSUME NEW g \in G
      PROVE  Len(b[g]) <= Len(c[g]) /\ \A v \in DOMAIN b[g] : c[g][v] \in {Gone, b[g][v]}
  <2>1. CASE g = f
    BY <1>2, <1>3, <2>1, Uids
  <2>2. CASE g # f
    BY <1>3, <2>2, Uids
  <2> QED BY <2>1, <2>2
<1>6. BoxOK(c) /\ BoxGrows(b, c, G)
  BY <1>4, <1>5 DEF BoxGrows
<1> QED BY <1>1, <1>6 DEF c, s

LEMMA BoxGrowsTwice ==
  ASSUME NEW b, NEW c, NEW d, BoxOK(b), BoxOK(c), BoxOK(d), NEW G \in SUBSET Served,
         BoxGrows(b, c, G), BoxGrows(c, d, G)
  PROVE  BoxGrows(b, d, G)
<1>1. ASSUME NEW g \in G
      PROVE  Len(b[g]) <= Len(d[g]) /\ \A u \in DOMAIN b[g] : d[g][u] \in {Gone, b[g][u]}
  <2>1. /\ DOMAIN b[g] = 1..Len(b[g]) /\ Len(b[g]) \in Nat /\ Len(c[g]) \in Nat
        /\ Len(d[g]) \in Nat /\ DOMAIN c[g] = 1..Len(c[g])
    BY Uids
  <2>2. /\ Len(b[g]) <= Len(c[g]) /\ \A u \in DOMAIN b[g] : c[g][u] \in {Gone, b[g][u]}
        /\ Len(c[g]) <= Len(d[g]) /\ \A u \in DOMAIN c[g] : d[g][u] \in {Gone, c[g][u]}
    BY DEF BoxGrows
  <2>3. \A u \in DOMAIN b[g] : u \in DOMAIN c[g]
    BY <2>1, <2>2
  <2> QED BY <2>1, <2>2, <2>3
<1> QED BY <1>1 DEF BoxGrows

\* Another client removes a mail or files it elsewhere.
LEMMA MailFiled ==
  ASSUME NEW b, BoxOK(b), NEW f \in Served, NEW u \in DOMAIN b[f], b[f][u] # Gone, NEW g \in Served,
         f # g, NEW G \in SUBSET Served
  PROVE  LET c == [b EXCEPT ![f][u] = Gone, ![g] = Append(@, b[f][u])] IN
         BoxOK(c) /\ BoxGrows(b, c, G)
<1> DEFINE
  a == [b EXCEPT ![f][u] = Gone]
  c == [a EXCEPT ![g] = Append(@, b[f][u])]
<1>1. [b EXCEPT ![f][u] = Gone, ![g] = Append(@, b[f][u])] = c
  BY DEF BoxOK
<1>2. b[f][u] \in AllMails
  BY Uids
<1>3. BoxOK(a) /\ BoxGrows(b, a, G)
  BY MailGoes
<1> HIDE DEF a
<1>4. BoxOK(c) /\ BoxGrows(a, c, G)
  BY <1>2, <1>3, MailComes
<1>5. BoxGrows(b, c, G)
  <2> HIDE DEF c
  <2> QED BY <1>3, <1>4, BoxGrowsTwice
<1> QED BY <1>1, <1>4, <1>5

\* A folder is renumbered.
LEMMA FolderRenumbered ==
  ASSUME NEW b, BoxOK(b), NEW f \in Served, NEW G \in SUBSET Served
  PROVE  LET c == [b EXCEPT ![f] = Kept(@)] IN BoxOK(c) /\ BoxGrows(b, c, G \ {f})
<1> DEFINE c == [b EXCEPT ![f] = Kept(@)]
<1>1. Kept(b[f]) \in Seq(AllMails \cup {Gone})
  BY Uids, KeptType
<1>2. BoxOK(c)
  BY <1>1 DEF BoxOK
<1>3. \A g \in Served \ {f} : c[g] = b[g]
  BY DEF BoxOK
<1> HIDE DEF c
<1>4. BoxGrows(b, c, G \ {f})
  BY <1>3, Uids DEF BoxGrows
<1> QED BY <1>2, <1>4 DEF c

-----------------------------------------------------------------------------
\* The steps of a pass.

LEMMA SelectedIs ==
  ASSUME valid \in [Served -> Nat], NEW d \in Mailbox, NEW f \in Served
  PROVE  LET e == Selected(d, f) IN
         /\ e \in Mailbox /\ e.rows = d.rows /\ e.counts = d.counts /\ e.behind = d.behind
         /\ e.counted = d.counted
         /\ \A g \in Folders : e.last[g] \in {d.last[g], 0}
         /\ e.moved = d.moved /\ e.keys = d.keys /\ d.rescanned \subseteq e.rescanned
         /\ e.rescanned = {} => e.last = d.last
<1> DEFINE
  S == [d.seen EXCEPT ![f] = valid[f]]
  L == [d.last EXCEPT ![f] = 0]
  R == IF d.last[f] = 0 THEN d.rescanned ELSE d.rescanned \cup {f}
  e == [d EXCEPT !.seen = S, !.last = L, !.rescanned = R]
<1>1. Selected(d, f) = IF d.seen[f] = valid[f] THEN d ELSE e
  BY DEF Selected, Mailbox
<1>2. f \in Folders /\ d.last \in [Folders -> Nat] /\ d.seen \in [Folders -> Nat]
  BY FoldersAre DEF Mailbox
<1>3. /\ S \in [Folders -> Nat] /\ L \in [Folders -> Nat]
      /\ \A g \in Folders : L[g] \in {d.last[g], 0}
  BY <1>2
<1>4. R \in SUBSET Folders /\ d.rescanned \subseteq R
  BY <1>2 DEF Mailbox
<1>5. R = {} => L = d.last
  BY <1>2
<1> HIDE DEF S, L, R
<1>6. /\ e \in Mailbox /\ e.rows = d.rows /\ e.counts = d.counts /\ e.behind = d.behind
      /\ e.counted = d.counted /\ e.last = L
      /\ e.moved = d.moved /\ e.keys = d.keys /\ e.rescanned = R
  BY <1>3, <1>4 DEF Mailbox
<1> HIDE DEF e
<1> QED BY <1>1, <1>3, <1>4, <1>6, <1>5

\* Selecting a folder loses nothing of what a pass knows.
LEMMA ResetOK ==
  ASSUME NEW b, BoxOK(b), NEW G \in SUBSET Served, NEW s, NEW d \in Mailbox, NEW e \in Mailbox,
         e.rows = d.rows, e.counts = d.counts, e.behind = d.behind, e.counted = d.counted,
         \A g \in Folders : e.last[g] \in {d.last[g], 0},
         Within(s, d, {}), UidsTrue(b, d, G), Covered(b, d, G)
  PROVE  Within(s, e, {}) /\ UidsTrue(b, e, G) /\ Covered(b, e, G)
<1>1. CountsRight(e, {})
  BY DEF Within, CountsRight
<1>2. Within(s, e, {})
  BY <1>1 DEF Within
<1>3. UidsTrue(b, e, G)
  BY DEF UidsTrue
<1>4. Covered(b, e, G)
  <2>1. SUFFICES ASSUME NEW g \in G
                 PROVE  /\ e.last[g] \in 0..Len(b[g])
                        /\ \A u \in PresentIn(b, g) : u <= e.last[g] => Has(e, b[g][u])
    BY DEF Covered
  <2>2. /\ Len(b[g]) \in Nat /\ \A u \in PresentIn(b, g) : u \in 1..Len(b[g])
    BY Uids DEF PresentIn
  <2>3. g \in Folders
    BY FoldersAre
  <2>4. CASE e.last[g] = d.last[g]
    BY <2>4 DEF Covered, Has
  <2>5. CASE e.last[g] = 0
    <3>1. \A u \in PresentIn(b, g) : ~ (u <= 0)
      BY <2>2
    <3> QED BY <2>2, <2>5, <3>1
  <2> QED BY <2>3, <2>4, <2>5
<1> QED BY <1>2, <1>3, <1>4

LEMMA TurnIs ==
  ASSUME NEW T \in SUBSET Turns
  PROVE  Later(T) \in SUBSET Turns /\ (T # {} => Order[Min(T)] \in Served)
<1>1. Turns \in SUBSET Nat
  BY FoldersAre DEF Turns
<1>2. T # {} => Min(T) \in T
  BY <1>1, LowestOf
<1> QED BY <1>2 DEF Later, Turns

LEMMA StartOK ==
  ASSUME NEW b, NEW G \in SUBSET Served, NEW d, MailboxOK(b, d, G), NEW s \in Statuses,
         NEW T \in SUBSET Turns
  PROVE  PassOK(b, d, [snap |-> d, status |-> s, tx |-> [d EXCEPT !.paths = @ \cup Served],
                       todo |-> T, at |-> "none", uids |-> {}], G)
<1> DEFINE
  e == [d EXCEPT !.paths = @ \cup Served]
  t == [snap |-> d, status |-> s, tx |-> e, todo |-> T, at |-> "none", uids |-> {}]
<1>1. d \in Mailbox /\ Served \in SUBSET Folders
  BY FoldersAre DEF MailboxOK
<1>2. /\ e \in Mailbox /\ e.rows = d.rows /\ e.counts = d.counts /\ e.behind = d.behind
      /\ e.counted = d.counted /\ e.last = d.last
  BY <1>1 DEF Mailbox
<1> HIDE DEF e
<1>3. Within(d, e, {})
  <2>1. CountsRight(e, {})
    BY <1>2 DEF MailboxOK, CountsRight
  <2> QED BY <1>2, <2>1 DEF Within
<1>4. UidsTrue(b, e, G) /\ Covered(b, e, G)
  BY <1>2 DEF MailboxOK, UidsTrue, Covered, Has
<1>5. t \in Passes
  BY <1>1, <1>2 DEF Passes
<1>6. "none" \notin G
  BY FoldersAre
<1>7. t.snap = d /\ t.tx = e /\ t.at = "none"
  OBVIOUS
<1>8. Grows(d, d)
  BY DEF Grows
<1> HIDE DEF t
<1>9. PassOK(b, d, t, G)
  BY <1>3, <1>4, <1>5, <1>6, <1>7, <1>8 DEF PassOK
<1> QED BY <1>9 DEF t, e

\* A pass goes on to the next folder.
LEMMA PassedOK ==
  ASSUME valid \in [Served -> Nat], NEW b, BoxOK(b), NEW G \in SUBSET Served, NEW d, NEW t,
         PassOK(b, d, t, G), t.at = "none", t.todo # {},
         NEW e \in {t.tx, Selected(t.tx, Order[Min(t.todo)])}
  PROVE  PassOK(b, d, [t EXCEPT !.tx = e, !.todo = Later(@)], G)
<1> DEFINE x == [t EXCEPT !.tx = e, !.todo = Later(@)]
<1>1. t \in Passes /\ t.todo \in SUBSET Turns /\ t.tx \in Mailbox
  BY DEF PassOK, Passes
<1>2. Later(t.todo) \in SUBSET Turns /\ Order[Min(t.todo)] \in Served
  BY <1>1, TurnIs
<1>3. /\ e \in Mailbox /\ e.rows = t.tx.rows /\ e.counts = t.tx.counts /\ e.behind = t.tx.behind
      /\ e.counted = t.tx.counted /\ \A g \in Folders : e.last[g] \in {t.tx.last[g], 0}
  <2>1. CASE e = t.tx
    BY <1>1, <2>1
  <2>2. CASE e # t.tx
    <3>1. e = Selected(t.tx, Order[Min(t.todo)])
      BY <2>2
    <3> QED BY <1>1, <1>2, <3>1, SelectedIs
  <2> QED BY <2>1, <2>2
<1>4. Within(t.snap, e, {}) /\ UidsTrue(b, e, G) /\ Covered(b, e, G)
  <2>1. Within(t.snap, t.tx, {}) /\ UidsTrue(b, t.tx, G) /\ Covered(b, t.tx, G)
    BY DEF PassOK
  <2> QED BY <1>1, <1>3, <2>1, ResetOK
<1>5. /\ x \in Passes /\ x.tx = e /\ x.snap = t.snap /\ x.at = "none"
  BY <1>1, <1>2, <1>3 DEF Passes
<1>6. "none" \notin G
  BY FoldersAre
<1> HIDE DEF x
<1>7. PassOK(b, d, x, G)
  BY <1>4, <1>5, <1>6 DEF PassOK
<1> QED BY <1>7 DEF x

\* Of the uids that are new, the lowest leave none out below them.
LEMMA LowestHas ==
  ASSUME NEW n \in Nat, NEW U \in SUBSET (1..n), NEW w \in Lowest(U), NEW u \in U, u <= w
  PROVE  u \in Lowest(U)
<1> DEFINE
  A == {v \in U : v < u}
  B == {v \in U : v < w}
<1>1. IsFiniteSet(B)
  <2>1. IsFiniteSet(1..n)
    BY FS_Interval
  <2>2. IsFiniteSet(U)
    BY <2>1, FS_Subset
  <2> QED BY <2>2, FS_Subset
<1>2. A \subseteq B
  <2>1. w \in U
    BY DEF Lowest
  <2>2. w \in Int /\ u \in Int
    BY <2>1
  <2>3. ASSUME NEW v \in U, v < u PROVE v < w
    <3>1. v \in Int
      OBVIOUS
    <3> QED BY <2>2, <2>3, <3>1
  <2> QED BY <2>3
<1>3. /\ Cardinality(A) <= Cardinality(B) /\ Cardinality(A) \in Nat /\ Cardinality(B) \in Nat
  <2> HIDE DEF A, B
  <2>1. IsFiniteSet(A) /\ Cardinality(A) <= Cardinality(B)
    BY <1>1, <1>2, FS_Subset
  <2> QED BY <1>1, <2>1, FS_CardinalityType
<1>4. Cardinality(B) < Window
  BY DEF Lowest
<1>5. Cardinality(A) < Window
  <2> HIDE DEF A, B
  <2> QED BY <1>3, <1>4, SyncAssumption
<1> QED BY <1>5 DEF Lowest

Unseen(d, f) == {u \in Present(f) : u > d.last[f]}
LEMMA SearchOK ==
  ASSUME valid \in [Served -> Nat], BoxOK(box), NEW G \in SUBSET Served, NEW d, NEW t,
         PassOK(box, d, t, G), t.at = "none", t.todo # {}, NEW f, f = Order[Min(t.todo)],
         NEW e, e = Selected(t.tx, f)
  PROVE  PassOK(box, d, [t EXCEPT !.tx = e, !.at = f, !.uids = Lowest(Unseen(e, f))], G)
<1> DEFINE
  new == Unseen(e, f)
  x == [t EXCEPT !.tx = e, !.at = f, !.uids = Lowest(new)]
<1>1. t \in Passes /\ t.todo \in SUBSET Turns /\ t.tx \in Mailbox
  BY DEF PassOK, Passes
<1>2. f \in Served
  BY <1>1, TurnIs
<1>3. /\ e \in Mailbox /\ e.rows = t.tx.rows /\ e.counts = t.tx.counts /\ e.behind = t.tx.behind
      /\ e.counted = t.tx.counted /\ \A g \in Folders : e.last[g] \in {t.tx.last[g], 0}
  BY <1>1, <1>2, SelectedIs
<1>4. Within(t.snap, e, {}) /\ UidsTrue(box, e, G) /\ Covered(box, e, G)
  <2>1. Within(t.snap, t.tx, {}) /\ UidsTrue(box, t.tx, G) /\ Covered(box, t.tx, G)
    BY DEF PassOK
  <2> QED BY <1>1, <1>3, <2>1, ResetOK
<1> DEFINE n == Len(box[f])
<1>5. n \in Nat /\ DOMAIN box[f] = 1..n
  BY <1>2, Uids
<1> HIDE DEF n
<1>6. new \in SUBSET (1..n)
  BY <1>5 DEF Present, Unseen
<1> HIDE DEF new
<1>7. Lowest(new) \subseteq new
  BY DEF Lowest
<1>8. Lowest(new) \in SUBSET Nat
  <2>1. \A v \in 1..n : v \in Nat
    BY <1>5
  <2> QED BY <1>6, <1>7, <2>1
<1>9. x \in Passes /\ x.tx = e /\ x.snap = t.snap /\ x.at = f /\ x.uids = Lowest(new)
  BY <1>1, <1>2, <1>3, <1>8 DEF Passes
<1> HIDE DEF x
<1>10. InFlight(box, x)
  <2>1. SUFFICES ASSUME NEW w \in Lowest(new)
                 PROVE  /\ w \in DOMAIN box[f]
                        /\ \A u \in PresentIn(box, f) : e.last[f] < u /\ u <= w => u \in Lowest(new)
    BY <1>9 DEF InFlight
  <2>2. w \in DOMAIN box[f]
    BY <1>5, <1>6, <1>7
  <2>3. ASSUME NEW u \in PresentIn(box, f), e.last[f] < u, u <= w PROVE u \in Lowest(new)
    <3>1. u \in Present(f)
      BY DEF PresentIn, Present
    <3>2. u \in new
      <4>1. u \in Nat
        BY <1>5 DEF PresentIn
      <4>2. e.last[f] \in Nat
        BY <1>2, <1>3, FoldersAre DEF Mailbox
      <4> QED BY <2>3, <3>1, <4>1, <4>2 DEF new, Unseen
    <3> QED BY <1>5, <1>6, <2>3, <3>2, LowestHas
  <2> QED BY <2>2, <2>3
<1>11. PassOK(box, d, x, G)
  <2>1. Grows(t.snap, d)
    BY DEF PassOK
  <2> QED BY <1>4, <1>9, <1>10, <2>1 DEF PassOK
<1> QED BY <1>11 DEF x, new

LEMMA FetchOK ==
  ASSUME BoxOK(box), NEW G \in SUBSET Served, NEW d, NEW t, PassOK(box, d, t, G), t.at # "none",
         NEW e, e = Stored(t.tx, t.at, t.uids)
  PROVE  PassOK(box, d, [t EXCEPT !.tx = e, !.at = "none", !.uids = {}, !.todo = Later(@)], G)
<1> DEFINE
  f == t.at
  there == t.uids \cap Present(f)
  x == [t EXCEPT !.tx = e, !.at = "none", !.uids = {}, !.todo = Later(@)]
<1>1. /\ t \in Passes /\ t.todo \in SUBSET Turns /\ t.tx \in Mailbox /\ t.snap \in Mailbox
      /\ f \in Served /\ t.uids \in SUBSET Nat
  BY DEF PassOK, Passes
<1>2. Later(t.todo) \in SUBSET Turns
  BY <1>1, TurnIs
<1>3. Within(t.snap, t.tx, {}) /\ UidsTrue(box, t.tx, G) /\ Covered(box, t.tx, G)
  BY DEF PassOK
<1>4. /\ Within(t.snap, e, {}) /\ UidsTrue(box, e, G) /\ Grows(t.tx, e)
      /\ e.last[f] \in there \cup {t.tx.last[f]} /\ \A g \in Folders \ {f} : e.last[g] = t.tx.last[g]
      /\ f \in G => \A u \in there : Has(e, box[f][u])
  <2>1. BoxOK(box) /\ Within(t.snap, t.tx, {}) /\ UidsTrue(box, t.tx, G)
    BY <1>3
  <2> HIDE DEF f, x
  <2>2. LET y == Stored(t.tx, f, t.uids)
            z == t.uids \cap Present(f) IN
        /\ Within(t.snap, y, {}) /\ UidsTrue(box, y, G) /\ Grows(t.tx, y)
        /\ y.last[f] \in z \cup {t.tx.last[f]} /\ \A g \in Folders \ {f} : y.last[g] = t.tx.last[g]
        /\ f \in G => \A u \in z : Has(y, box[f][u])
        /\ y.rows = UpsertedAll(t.tx, f, z).rows /\ SameMarks(UpsertedAll(t.tx, f, z), y)
        /\ \A u \in z \cup {t.tx.last[f]} : u <= y.last[f]
    BY <1>1, <2>1, StoredIs
  <2> QED BY <2>2 DEF f
<1>5. x \in Passes /\ x.tx = e /\ x.snap = t.snap /\ x.at = "none"
  <2>1. e \in Mailbox
    BY <1>4 DEF Within
  <2> QED BY <1>1, <1>2, <2>1 DEF Passes
<1> HIDE DEF x
<1>6. Covered(box, e, G)
  <2>1. SUFFICES ASSUME NEW g \in G
                 PROVE  /\ e.last[g] \in 0..Len(box[g])
                        /\ \A u \in PresentIn(box, g) : u <= e.last[g] => Has(e, box[g][u])
    BY DEF Covered
  <2>2. /\ t.tx.last[g] \in 0..Len(box[g])
        /\ \A u \in PresentIn(box, g) : u <= t.tx.last[g] => Has(t.tx, box[g][u])
    BY <1>3 DEF Covered
  <2>3. ASSUME NEW u \in PresentIn(box, g), u <= t.tx.last[g] PROVE Has(e, box[g][u])
    BY <1>4, <2>2, <2>3, GrowsHas
  <2>4. g \in Folders /\ Len(box[g]) \in Nat /\ DOMAIN box[g] = 1..Len(box[g])
    BY FoldersAre, Uids
  <2>5. CASE g # f \/ e.last[f] = t.tx.last[f]
    BY <1>4, <2>2, <2>3, <2>4, <2>5
  <2>6. CASE g = f /\ e.last[f] \in there
    <3>1. InFlight(box, t)
      BY <2>6 DEF PassOK
    <3>2. /\ e.last[f] \in DOMAIN box[f]
          /\ \A u \in PresentIn(box, f) : t.tx.last[f] < u /\ u <= e.last[f] => u \in t.uids
      BY <2>6, <3>1 DEF InFlight
    <3>3. ASSUME NEW u \in PresentIn(box, g), u <= e.last[g] PROVE Has(e, box[g][u])
      <4>1. CASE u <= t.tx.last[g]
        BY <2>3, <4>1
      <4>2. CASE ~ (u <= t.tx.last[g])
        <5>1. t.tx.last[g] < u
          BY <2>2, <2>4, <4>2 DEF PresentIn
        <5>2. u \in there
          BY <2>6, <3>2, <3>3, <5>1 DEF PresentIn, Present
        <5> QED BY <1>4, <2>6, <5>2
      <4> QED BY <4>1, <4>2
    <3> QED BY <2>4, <2>6, <3>2, <3>3
  <2> QED BY <1>4, <2>5, <2>6
<1>7. "none" \notin G
  BY FoldersAre
<1>8. PassOK(box, d, x, G)
  <2>1. Grows(t.snap, d)
    BY DEF PassOK
  <2> QED BY <1>4, <1>5, <1>6, <1>7, <2>1 DEF PassOK
<1> QED BY <1>8 DEF x

-----------------------------------------------------------------------------
\* The commit of a pass.  Its new rows come after those that others have stored.

Shift(n, c, i) == IF i <= n THEN i ELSE i + c
ShiftsTo(n, c, S, T) ==
  /\ \A i \in S : Shift(n, c, i) \in T
  /\ \A j \in T : \E i \in S : Shift(n, c, i) = j
LEMMA ShiftedCount ==
  ASSUME NEW n \in Nat, NEW c \in Nat, NEW S \in SUBSET Nat, IsFiniteSet(S), NEW T, ShiftsTo(n, c, S, T)
  PROVE  Cardinality(T) = Cardinality(S)
<1>1. (\A i \in S : Shift(n, c, i) \in T) /\ \A j \in T : \E i \in S : Shift(n, c, i) = j
  BY DEF ShiftsTo
<1> DEFINE M == [i \in S |-> Shift(n, c, i)]
<1>2. \A a, b \in S : Shift(n, c, a) = Shift(n, c, b) => a = b
  <2>1. \A a \in S : a \in Nat
    OBVIOUS
  <2> QED BY <2>1 DEF Shift
<1>3. M \in [S -> T] /\ \A i \in S : M[i] = Shift(n, c, i)
  BY <1>1
<1> HIDE DEF M
<1>4. M \in Injection(S, T)
  <2>1. \A a, b \in S : M[a] = M[b] => a = b
    BY <1>2, <1>3
  <2> QED BY <1>3, <2>1 DEF Injection, IsInjective
<1>5. M \in Surjection(S, T)
  BY <1>1, <1>3 DEF Surjection
<1>6. ExistsBijection(S, T)
  BY <1>4, <1>5 DEF ExistsBijection, Bijection
<1> QED BY <1>6, FS_Bijection

Shifted(A, E, n, c, f) ==
  /\ \A i \in Live(A, f) : Shift(n, c, i) \in Live(E, f) /\ E[Shift(n, c, i)].read = A[i].read
  /\ \A j \in Live(E, f) : \E i \in Live(A, f) : Shift(n, c, i) = j
LEMMA ShiftedExact ==
  ASSUME NEW A \in Seq(MailRow), NEW E, NEW n \in Nat, NEW c \in Nat, NEW f, Shifted(A, E, n, c, f)
  PROVE  Exact(E, f) = Exact(A, f)
<1> DEFINE
  S == Live(A, f)
  T == Live(E, f)
  SU == {i \in S : ~A[i].read}
  TU == {j \in T : ~E[j].read}
  N == Len(A)
<1>1. N \in Nat /\ DOMAIN A = 1..N
  BY RowsAre
<1>2. S \in SUBSET (1..N) /\ SU \in SUBSET S
  BY <1>1 DEF Live
<1>3. S \in SUBSET Nat /\ SU \in SUBSET Nat /\ IsFiniteSet(S) /\ IsFiniteSet(SU)
  <2> HIDE DEF S, SU, N
  <2>1. S \in SUBSET Nat /\ SU \in SUBSET Nat
    BY <1>1, <1>2
  <2>2. IsFiniteSet(1..N)
    BY <1>1, FS_Interval
  <2>3. IsFiniteSet(S)
    BY <1>2, <2>2, FS_Subset
  <2> QED BY <1>2, <2>1, <2>3, FS_Subset
<1>4. ShiftsTo(n, c, S, T) /\ \A i \in S : E[Shift(n, c, i)].read = A[i].read
  BY DEF ShiftsTo, Shifted
<1>5. ShiftsTo(n, c, SU, TU)
  <2>1. \A i \in SU : Shift(n, c, i) \in TU
    BY <1>4 DEF ShiftsTo
  <2>2. \A j \in TU : \E i \in SU : Shift(n, c, i) = j
    BY <1>4 DEF ShiftsTo
  <2> HIDE DEF SU, TU
  <2> QED BY <2>1, <2>2 DEF ShiftsTo
<1>6. Cardinality(T) = Cardinality(S) /\ Cardinality(TU) = Cardinality(SU)
  <2> HIDE DEF S, T, SU, TU
  <2> QED BY <1>3, <1>4, <1>5, ShiftedCount
<1> QED BY <1>6 DEF Exact

Overtaken(t) == {f \in t.tx.counted : Seen(t.snap.rows, f) # Seen(db.rows, f)}

\* The rows as a commit leaves them.
OldRow(t, i) == IF i \in Adopted(t) THEN [db.rows[i] EXCEPT !.uid = t.tx.rows[i].uid] ELSE db.rows[i]
OldRows(t) == [i \in DOMAIN db.rows |-> OldRow(t, i)]
NewRows(t) == SubSeq(t.tx.rows, Len(t.snap.rows) + 1, Len(t.tx.rows))
MergedRows(t) == OldRows(t) \o NewRows(t)

LEMMA MergedRowsAre ==
  ASSUME db \in Mailbox, NEW t \in Passes, Within(t.snap, t.tx, {}), Grows(t.snap, db)
  PROVE  LET n == Len(t.snap.rows)
             N == Len(t.tx.rows)
             k == Len(db.rows)
             R == MergedRows(t) IN
         /\ n \in Nat /\ N \in Nat /\ k \in Nat /\ n <= N /\ n <= k
         /\ DOMAIN t.snap.rows = 1..n /\ DOMAIN t.tx.rows = 1..N /\ DOMAIN db.rows = 1..k
         /\ R \in Seq(MailRow) /\ DOMAIN R = 1..(k + N - n)
         /\ \A i \in 1..k : R[i] = OldRow(t, i)
         /\ \A i \in (n + 1)..N : R[i + (k - n)] = t.tx.rows[i]
<1> DEFINE
  n == Len(t.snap.rows)
  N == Len(t.tx.rows)
  k == Len(db.rows)
  R == MergedRows(t)
<1>1. /\ t.snap.rows \in Seq(MailRow) /\ t.tx.rows \in Seq(MailRow) /\ db.rows \in Seq(MailRow)
  BY DEF Passes, Mailbox
<1>2. /\ n \in Nat /\ DOMAIN t.snap.rows = 1..n /\ N \in Nat /\ DOMAIN t.tx.rows = 1..N
      /\ k \in Nat /\ DOMAIN db.rows = 1..k
      /\ \A i \in 1..N : t.tx.rows[i] \in MailRow
      /\ \A i \in 1..k : db.rows[i] \in MailRow
  BY <1>1, RowsAre
<1> HIDE DEF n, N, k
<1>3. n <= N /\ n <= k
  <2>1. 1..n \subseteq 1..N
    BY <1>2 DEF Within
  <2>2. 1..n \subseteq 1..k
    BY <1>2 DEF Grows
  <2>3. n = 0 \/ n \in 1..n
    BY <1>2
  <2> QED BY <1>2, <2>1, <2>2, <2>3
<1>4. ASSUME NEW i \in 1..k PROVE OldRow(t, i) \in MailRow
  <2>1. CASE i \in Adopted(t)
    <3>1. i \in 1..n
      BY <1>2, <2>1 DEF Adopted
    <3>2. t.tx.rows[i] \in MailRow
      BY <1>2, <1>3, <3>1
    <3>3. t.tx.rows[i].uid \in Nat
      BY <3>2 DEF MailRow
    <3>4. db.rows[i] \in MailRow
      BY <1>2
    <3> QED BY <2>1, <3>3, <3>4 DEF OldRow, MailRow
  <2>2. CASE i \notin Adopted(t)
    BY <1>2, <2>2 DEF OldRow
  <2> QED BY <2>1, <2>2
<1>5. /\ OldRows(t) \in Seq(MailRow) /\ Len(OldRows(t)) = k
      /\ \A i \in 1..k : OldRows(t)[i] = OldRow(t, i)
  <2>1. OldRows(t) = [i \in 1..k |-> OldRow(t, i)]
    BY <1>2 DEF OldRows
  <2>2. /\ OldRows(t) \in [1..k -> MailRow] /\ DOMAIN OldRows(t) = 1..k
        /\ \A i \in 1..k : OldRows(t)[i] = OldRow(t, i)
    BY <1>4, <2>1
  <2>3. OldRows(t) \in Seq(MailRow)
    BY <1>2, <2>2, SeqDef
  <2>4. DOMAIN OldRows(t) = 1..Len(OldRows(t)) /\ Len(OldRows(t)) \in Nat
    BY <2>3, LenProperties
  <2> QED BY <1>2, <2>2, <2>3, <2>4
<1>6. /\ NewRows(t) \in Seq(MailRow) /\ Len(NewRows(t)) = N - n
      /\ \A i \in 1..(N - n) : NewRows(t)[i] = t.tx.rows[n + i]
  <2>1. \A i \in (n + 1)..N : t.tx.rows[i] \in MailRow
    BY <1>2
  <2>2. n + 1 \in Int /\ N \in Int
    BY <1>2
  <2> DEFINE s == t.tx.rows
  <2> HIDE DEF s
  <2>3. /\ SubSeq(s, n + 1, N) \in Seq(MailRow)
        /\ Len(SubSeq(s, n + 1, N)) = IF n + 1 <= N THEN N - (n + 1) + 1 ELSE 0
        /\ \A i \in 1..(N - (n + 1) + 1) : SubSeq(s, n + 1, N)[i] = s[(n + 1) + i - 1]
    BY <2>1, <2>2, SubSeqProperties DEF s
  <2>4. NewRows(t) = SubSeq(s, n + 1, N)
    BY DEF NewRows, s, n, N
  <2>5. N - (n + 1) + 1 = N - n /\ \A i \in 1..(N - n) : (n + 1) + i - 1 = n + i
    BY <1>2
  <2>6. Len(NewRows(t)) = N - n
    BY <1>2, <1>3, <2>3, <2>4
  <2> QED BY <2>3, <2>4, <2>5, <2>6 DEF s
<1>7. /\ R \in Seq(MailRow) /\ Len(R) = k + (N - n)
      /\ \A i \in 1..(k + (N - n)) : R[i] = IF i <= k THEN OldRows(t)[i] ELSE NewRows(t)[i - k]
  <2> DEFINE a == OldRows(t)
  <2> DEFINE b == NewRows(t)
  <2>1. /\ a \in Seq(MailRow) /\ Len(a) = k
        /\ b \in Seq(MailRow) /\ Len(b) = N - n /\ R = a \o b
    BY <1>5, <1>6 DEF MergedRows
  <2> HIDE DEF a, b, R
  <2>2. /\ a \o b \in Seq(MailRow) /\ Len(a \o b) = Len(a) + Len(b)
        /\ \A i \in 1..(Len(a) + Len(b)) : (a \o b)[i] = IF i <= Len(a) THEN a[i] ELSE b[i - Len(a)]
    BY <2>1, ConcatProperties
  <2> QED BY <2>1, <2>2 DEF a, b
<1>8. DOMAIN R = 1..(k + N - n)
  <2>1. DOMAIN R = 1..Len(R)
    BY <1>7, LenProperties
  <2>2. k + (N - n) = k + N - n
    BY <1>2
  <2> QED BY <1>7, <2>1, <2>2
<1>9. \A i \in 1..k : R[i] = OldRow(t, i)
  BY <1>2, <1>3, <1>5, <1>7
<1>10. ASSUME NEW i \in (n + 1)..N PROVE R[i + (k - n)] = t.tx.rows[i]
  <2>1. /\ i + (k - n) \in 1..(k + (N - n)) /\ ~ (i + (k - n) <= k)
        /\ i + (k - n) - k = i - n /\ i - n \in 1..(N - n) /\ n + (i - n) = i
    BY <1>2, <1>3
  <2> DEFINE x == i + (k - n)
  <2>2. R[x] = NewRows(t)[i - n]
    <3>1. x \in 1..(k + (N - n)) /\ ~ (x <= k) /\ x - k = i - n
      BY <1>2, <2>1
    <3> HIDE DEF x, R
    <3>2. R[x] = NewRows(t)[x - k]
      BY <1>7, <3>1
    <3> QED BY <3>1, <3>2
  <2>3. NewRows(t)[i - n] = t.tx.rows[n + (i - n)]
    BY <1>6, <2>1
  <2> QED BY <2>1, <2>2, <2>3
<1> QED BY <1>2, <1>3, <1>7, <1>8, <1>9, <1>10 DEF n, N, k

Wrote(new, old, now) == [f \in Folders |-> IF new[f] # old[f] THEN new[f] ELSE now[f]]
MergedCounts(t) == [f \in Folders |-> IF f \in t.tx.counted THEN t.tx.counts[f] ELSE db.counts[f]]
LEMMA MergedIs ==
  ASSUME db \in Mailbox, NEW t \in Passes, Within(t.snap, t.tx, {}), Grows(t.snap, db)
  PROVE  LET e == Merged(t) IN
         /\ e \in Mailbox /\ e.rows = MergedRows(t) /\ e.counted = db.counted
         /\ e.counts = MergedCounts(t)
         /\ e.behind = (db.behind \ t.tx.counted) \cup t.tx.behind \cup Overtaken(t)
         /\ e.last = Wrote(t.tx.last, t.snap.last, db.last)
         /\ \A f \in Folders : e.last[f] \in {db.last[f], t.tx.last[f]}
         /\ e.moved = db.moved \cup t.tx.moved
         /\ db.rescanned \subseteq e.rescanned /\ t.tx.rescanned \subseteq e.rescanned
         /\ \A f \in Folders : e.last[f] < db.last[f] => f \in e.rescanned
<1> DEFINE
  R == MergedRows(t)
  C == MergedCounts(t)
  P == db.paths \cup t.tx.paths
  L == Wrote(t.tx.last, t.snap.last, db.last)
  S == Wrote(t.tx.seen, t.snap.seen, db.seen)
  B == (db.behind \ t.tx.counted) \cup t.tx.behind \cup Overtaken(t)
  M == db.moved \cup t.tx.moved
  Q == db.rescanned \cup t.tx.rescanned \cup {f \in Folders : L[f] < db.last[f]}
  e == [db EXCEPT !.rows = R, !.counts = C, !.paths = P, !.last = L, !.seen = S,
                  !.behind = B, !.moved = M, !.rescanned = Q]
<1>1. Merged(t) = e
  BY DEF Merged, MergedRows, OldRows, OldRow, NewRows, MergedCounts, Wrote, Overtaken, Seen, Mailbox
<1>2. t.tx \in Mailbox
  BY DEF Passes
<1>3. R \in Seq(MailRow)
  BY MergedRowsAre
<1>4. C \in [Folders -> Counters]
  <2>1. db.counts \in [Folders -> Counters] /\ t.tx.counts \in [Folders -> Counters]
    BY <1>2 DEF Mailbox
  <2> QED BY <2>1 DEF MergedCounts
<1>5. /\ L \in [Folders -> Nat] /\ S \in [Folders -> Nat]
      /\ \A f \in Folders : L[f] \in {db.last[f], t.tx.last[f]}
  <2>1. /\ db.last \in [Folders -> Nat] /\ t.tx.last \in [Folders -> Nat]
        /\ db.seen \in [Folders -> Nat] /\ t.tx.seen \in [Folders -> Nat]
    BY <1>2 DEF Mailbox
  <2> QED BY <2>1 DEF Wrote
<1>6. B \in SUBSET Folders
  <2>1. /\ db.behind \in SUBSET Folders /\ t.tx.behind \in SUBSET Folders
        /\ t.tx.counted \in SUBSET Folders
    BY <1>2 DEF Mailbox
  <2>2. Overtaken(t) \in SUBSET Folders
    BY <2>1 DEF Overtaken
  <2> QED BY <2>1, <2>2
<1>7. P \in SUBSET Folders /\ M \in SUBSET AllMails /\ Q \in SUBSET Folders
  BY <1>2 DEF Mailbox
<1>8. /\ db.rescanned \subseteq Q /\ t.tx.rescanned \subseteq Q
      /\ \A f \in Folders : L[f] < db.last[f] => f \in Q
  OBVIOUS
<1> HIDE DEF R, C, P, L, S, B, M, Q
<1>9. e \in Mailbox
  BY <1>3, <1>4, <1>5, <1>6, <1>7 DEF Mailbox
<1>10. /\ e.rows = R /\ e.counted = db.counted /\ e.counts = C /\ e.behind = B /\ e.last = L
       /\ e.moved = M /\ e.rescanned = Q
  BY DEF Mailbox
<1> HIDE DEF e
<1>11. \A f \in Folders : e.last[f] \in {db.last[f], t.tx.last[f]}
  BY <1>5, <1>10
<1> QED BY <1>1, <1>9, <1>10, <1>11, <1>8 DEF R, C, B, L, M

\* Where the pass counted and nobody overtook it, the rows are those it counted.
LEMMA CountedExact ==
  ASSUME db \in Mailbox, NEW t \in Passes, Within(t.snap, t.tx, {}), Grows(t.snap, db),
         NEW f \in Folders, f \in t.tx.counted \ Overtaken(t)
  PROVE  Exact(MergedRows(t), f) = Exact(t.tx.rows, f)
<1> DEFINE
  A == t.tx.rows
  D == db.rows
  O == t.snap.rows
  n == Len(O)
  N == Len(A)
  k == Len(D)
  R == MergedRows(t)
<1>1. /\ n \in Nat /\ N \in Nat /\ k \in Nat /\ n <= N /\ n <= k
      /\ DOMAIN O = 1..n /\ DOMAIN A = 1..N /\ DOMAIN D = 1..k
      /\ DOMAIN R = 1..(k + N - n)
      /\ \A i \in 1..k : R[i] = OldRow(t, i)
      /\ \A i \in (n + 1)..N : R[i + (k - n)] = A[i]
  BY MergedRowsAre
<1>2. A \in Seq(MailRow) /\ \A i \in 1..k : D[i] \in MailRow
  <2>1. t.tx \in Mailbox
    BY DEF Passes
  <2> QED BY <1>1, <2>1, RowsAre DEF Mailbox
<1>3. \A i \in 1..k : /\ R[i].folder = D[i].folder /\ R[i].read = D[i].read
                      /\ R[i].deleted = D[i].deleted
  BY <1>1, <1>2 DEF OldRow, MailRow
<1>4. Alike(O, D, f)
  <2>1. Seen(O, f) = Seen(D, f)
    BY DEF Overtaken
  <2> QED BY <2>1, SeenAlike
<1>5. \A i \in 1..n : /\ A[i].folder = O[i].folder /\ A[i].read = O[i].read
                      /\ A[i].deleted = O[i].deleted
  BY <1>1 DEF Within
<1> HIDE DEF A, D, O, n, N, k, R
<1>6. \A i \in 1..n : i \in 1..N /\ i \in 1..k /\ i \in 1..(k + N - n)
  BY <1>1
<1>7. \A i \in 1..n : /\ i \in Live(A, f) <=> i \in Live(R, f)
                      /\ i \in Live(A, f) => A[i].read = R[i].read
  <2>1. ASSUME NEW i \in 1..n
        PROVE  /\ i \in Live(A, f) <=> i \in Live(O, f)
               /\ i \in Live(R, f) <=> i \in Live(D, f)
    BY <1>1, <1>3, <1>5, <1>6 DEF Live
  <2> QED BY <1>3, <1>4, <1>5, <1>6, <2>1 DEF Alike
<1>8. \A i \in 1..k : i \in Live(R, f) => i \in 1..n
  <2>1. SUFFICES ASSUME NEW i \in 1..k, i \in Live(R, f) PROVE i \in 1..n
    OBVIOUS
  <2>2. i \in Live(D, f)
    BY <1>1, <1>3, <2>1 DEF Live
  <2> QED BY <1>1, <1>4, <2>2 DEF Alike, Live
<1> DEFINE c == k - n
<1>9. c \in Nat /\ \A i \in (n + 1)..N : i + c \in 1..(k + N - n) /\ Shift(n, c, i) = i + c
  BY <1>1 DEF Shift
<1>10. \A i \in 1..n : Shift(n, c, i) = i
  BY <1>1 DEF Shift
<1>11. \A i \in 1..N : i \in 1..n \/ i \in (n + 1)..N
  BY <1>1
<1>12. \A j \in 1..(k + N - n) : j \in 1..k \/ \E i \in (n + 1)..N : j = i + c
  <2>1. ASSUME NEW j \in 1..(k + N - n), j \notin 1..k PROVE j - c \in (n + 1)..N /\ j = (j - c) + c
    BY <1>1, <2>1
  <2> QED BY <2>1
<1>13. \A i \in (n + 1)..N : R[i + c] = A[i]
  BY <1>1
<1> HIDE DEF c
<1>14. \A i \in (n + 1)..N : /\ i \in Live(A, f) <=> i + c \in Live(R, f)
                             /\ i \in 1..N
  <2>1. \A i \in (n + 1)..N : i \in 1..N
    BY <1>1
  <2> QED BY <1>1, <1>9, <1>13, <2>1 DEF Live
<1>15. \A i \in Live(A, f) : /\ Shift(n, c, i) \in Live(R, f)
                             /\ R[Shift(n, c, i)].read = A[i].read
  <2>1. SUFFICES ASSUME NEW i \in Live(A, f)
                 PROVE  Shift(n, c, i) \in Live(R, f) /\ R[Shift(n, c, i)].read = A[i].read
    OBVIOUS
  <2>2. i \in 1..N
    BY <1>1 DEF Live
  <2>3. CASE i \in 1..n
    BY <1>7, <1>10, <2>3
  <2>4. CASE i \in (n + 1)..N
    BY <1>9, <1>13, <1>14, <2>4
  <2> QED BY <1>11, <2>2, <2>3, <2>4
<1>16. \A j \in Live(R, f) : \E i \in Live(A, f) : Shift(n, c, i) = j
  <2>1. SUFFICES ASSUME NEW j \in Live(R, f) PROVE \E i \in Live(A, f) : Shift(n, c, i) = j
    OBVIOUS
  <2>2. j \in 1..(k + N - n)
    BY <1>1 DEF Live
  <2>3. CASE j \in 1..k
    BY <1>7, <1>8, <1>10, <2>3
  <2>4. CASE \E i \in (n + 1)..N : j = i + c
    BY <1>9, <1>14, <2>4
  <2> QED BY <1>12, <2>2, <2>3, <2>4
<1>17. Shifted(A, R, n, c, f)
  BY <1>15, <1>16 DEF Shifted
<1>18. Exact(R, f) = Exact(A, f)
  BY <1>1, <1>2, <1>9, <1>17, ShiftedExact
<1> QED BY <1>18 DEF R, A

LEMMA CommitOK ==
  ASSUME BoxOK(box), NEW G \in SUBSET Served, MailboxOK(box, db, G), NEW t, PassOK(box, db, t, G),
         \A i \in Adopted(t) : db.rows[i].folder = t.snap.rows[i].folder \/ db.rows[i].folder \notin G
  PROVE  MailboxOK(box, Merged(t), G) /\ Grows(db, Merged(t))
<1> DEFINE
  n == Len(t.snap.rows)
  N == Len(t.tx.rows)
  k == Len(db.rows)
  e == Merged(t)
<1>1. /\ db \in Mailbox /\ t \in Passes /\ Within(t.snap, t.tx, {}) /\ Grows(t.snap, db)
      /\ t.tx \in Mailbox /\ db.counted = {}
  BY DEF MailboxOK, PassOK, Passes
<1>2. /\ e \in Mailbox /\ e.rows = MergedRows(t) /\ e.counted = {}
      /\ e.counts = MergedCounts(t)
      /\ e.behind = (db.behind \ t.tx.counted) \cup t.tx.behind \cup Overtaken(t)
      /\ \A f \in Folders : e.last[f] \in {db.last[f], t.tx.last[f]}
  BY <1>1, MergedIs
<1>3. /\ n \in Nat /\ N \in Nat /\ k \in Nat /\ n <= N /\ n <= k
      /\ DOMAIN t.snap.rows = 1..n /\ DOMAIN t.tx.rows = 1..N /\ DOMAIN db.rows = 1..k
      /\ DOMAIN e.rows = 1..(k + N - n)
      /\ \A i \in 1..k : e.rows[i] = OldRow(t, i)
      /\ \A i \in (n + 1)..N : e.rows[i + (k - n)] = t.tx.rows[i]
  BY <1>1, <1>2, MergedRowsAre
<1> HIDE DEF e, n, N, k
<1>4. \A i \in 1..k : db.rows[i] \in MailRow
  BY <1>1, <1>3, RowsAre DEF Mailbox
<1>5. \A i \in 1..k : /\ i \in DOMAIN e.rows
                      /\ e.rows[i].mail = db.rows[i].mail /\ e.rows[i].folder = db.rows[i].folder
                      /\ e.rows[i].read = db.rows[i].read /\ e.rows[i].deleted = db.rows[i].deleted
                      /\ e.rows[i].uid = IF i \in Adopted(t) THEN t.tx.rows[i].uid ELSE db.rows[i].uid
  <2>1. \A i \in 1..k : i \in 1..(k + N - n)
    BY <1>3
  <2> QED BY <1>3, <1>4, <2>1 DEF OldRow, MailRow
<1>6. \A j \in DOMAIN e.rows : j \in 1..k \/ \E i \in (n + 1)..N : e.rows[j] = t.tx.rows[i]
  <2>1. ASSUME NEW j \in DOMAIN e.rows, j \notin 1..k PROVE \E i \in (n + 1)..N : e.rows[j] = t.tx.rows[i]
    <3>1. j - (k - n) \in (n + 1)..N /\ (j - (k - n)) + (k - n) = j
      BY <1>3, <2>1
    <3> QED BY <1>3, <3>1
  <2> QED BY <2>1
<1>7. Grows(db, e)
  BY <1>3, <1>5 DEF Grows
<1>8. CountsRight(e, {})
  <2>1. SUFFICES ASSUME NEW f \in Folders \ e.behind PROVE e.counts[f] = Exact(e.rows, f)
    BY DEF CountsRight
  <2>2. CASE f \in t.tx.counted
    <3>1. f \in t.tx.counted \ Overtaken(t) /\ f \in Folders \ t.tx.behind
      BY <1>2, <2>2
    <3>2. t.tx.counts[f] = Exact(t.tx.rows, f)
      BY <1>1, <3>1 DEF Within, CountsRight
    <3>3. Exact(e.rows, f) = Exact(t.tx.rows, f)
      BY <1>1, <1>2, <3>1, CountedExact
    <3>4. e.counts[f] = t.tx.counts[f]
      BY <1>2, <2>2 DEF MergedCounts
    <3> QED BY <3>2, <3>3, <3>4
  <2>3. CASE f \notin t.tx.counted
    <3>1. f \in Folders \ db.behind
      BY <1>2, <2>3
    <3>2. db.counts[f] = Exact(db.rows, f)
      BY <3>1 DEF MailboxOK, CountsRight
    <3>3. e.counts[f] = db.counts[f]
      BY <1>2, <2>3 DEF MergedCounts
    <3>4. \A i \in (n + 1)..N : t.tx.rows[i].folder # f
      <4>1. \A i \in (n + 1)..N : i \in DOMAIN t.tx.rows \ DOMAIN t.snap.rows
        BY <1>3
      <4> QED BY <1>1, <2>3, <4>1 DEF Within
    <3>5. \A j \in Live(e.rows, f) : j \in 1..k
      BY <1>6, <3>4 DEF Live
    <3>6. Alike(e.rows, db.rows, f)
      BY <1>3, <1>5, <3>5 DEF Alike, Live
    <3> QED BY <3>2, <3>3, <3>6, ExactAlike
  <2> QED BY <2>2, <2>3
<1>9. UidsTrue(box, e, G)
  <2>1. SUFFICES ASSUME NEW g \in G, NEW j \in DOMAIN e.rows, e.rows[j].folder = g, e.rows[j].uid # NoUid
                 PROVE  e.rows[j].uid \in DOMAIN box[g] /\ box[g][e.rows[j].uid] \in {Gone, e.rows[j].mail}
    BY DEF UidsTrue
  <2>2. /\ \A i \in DOMAIN db.rows : db.rows[i].folder = g /\ db.rows[i].uid # NoUid =>
             db.rows[i].uid \in DOMAIN box[g] /\ box[g][db.rows[i].uid] \in {Gone, db.rows[i].mail}
        /\ \A i \in DOMAIN t.tx.rows : t.tx.rows[i].folder = g /\ t.tx.rows[i].uid # NoUid =>
             t.tx.rows[i].uid \in DOMAIN box[g] /\ box[g][t.tx.rows[i].uid] \in {Gone, t.tx.rows[i].mail}
    BY DEF MailboxOK, PassOK, UidsTrue
  <2>3. CASE j \in 1..k /\ j \notin Adopted(t)
    BY <1>3, <1>5, <2>1, <2>2, <2>3
  <2>4. CASE j \in 1..k /\ j \in Adopted(t)
    <3>1. j \in DOMAIN t.snap.rows /\ j \in DOMAIN t.tx.rows
      BY <1>1, <2>4 DEF Adopted, Within
    <3>2. /\ t.tx.rows[j].folder = t.snap.rows[j].folder /\ t.tx.rows[j].mail = t.snap.rows[j].mail
          /\ db.rows[j].mail = t.snap.rows[j].mail
      BY <1>1, <3>1 DEF Within, Grows
    <3>3. db.rows[j].folder = t.snap.rows[j].folder
      BY <1>5, <2>1, <2>4
    <3> QED BY <1>5, <2>1, <2>2, <2>4, <3>1, <3>2, <3>3
  <2>5. CASE \E i \in (n + 1)..N : e.rows[j] = t.tx.rows[i]
    <3>1. PICK i \in (n + 1)..N : e.rows[j] = t.tx.rows[i]
      BY <2>5
    <3>2. i \in DOMAIN t.tx.rows
      BY <1>3
    <3> QED BY <2>1, <2>2, <3>1, <3>2
  <2> QED BY <1>6, <2>3, <2>4, <2>5
<1>10. \A m : Has(t.tx, m) => Has(e, m)
  <2>1. SUFFICES ASSUME NEW m, Has(t.tx, m) PROVE Has(e, m)
    OBVIOUS
  <2>2. PICK i \in DOMAIN t.tx.rows : t.tx.rows[i].mail = m
    BY <2>1 DEF Has
  <2>3. CASE i \in 1..n
    <3>1. t.tx.rows[i].mail = t.snap.rows[i].mail /\ db.rows[i].mail = t.snap.rows[i].mail
      BY <1>1, <1>3, <2>3 DEF Within, Grows
    <3>2. i \in 1..k
      BY <1>3, <2>3
    <3> QED BY <1>5, <2>2, <3>1, <3>2 DEF Has
  <2>4. CASE i \notin 1..n
    <3>1. i \in (n + 1)..N /\ i + (k - n) \in 1..(k + N - n)
      BY <1>3, <2>4
    <3> QED BY <1>3, <2>2, <3>1 DEF Has
  <2> QED BY <2>3, <2>4
<1>11. Covered(box, e, G)
  <2>1. SUFFICES ASSUME NEW g \in G
                 PROVE  /\ e.last[g] \in 0..Len(box[g])
                        /\ \A u \in PresentIn(box, g) : u <= e.last[g] => Has(e, box[g][u])
    BY DEF Covered
  <2>2. g \in Folders
    BY FoldersAre
  <2>3. CASE e.last[g] = db.last[g]
    <3>1. /\ db.last[g] \in 0..Len(box[g])
          /\ \A u \in PresentIn(box, g) : u <= db.last[g] => Has(db, box[g][u])
      BY DEF MailboxOK, Covered
    <3> QED BY <1>7, <2>3, <3>1, GrowsHas
  <2>4. CASE e.last[g] = t.tx.last[g]
    <3>1. /\ t.tx.last[g] \in 0..Len(box[g])
          /\ \A u \in PresentIn(box, g) : u <= t.tx.last[g] => Has(t.tx, box[g][u])
      BY DEF PassOK, Covered
    <3> QED BY <1>10, <2>4, <3>1
  <2> QED BY <1>2, <2>2, <2>3, <2>4
<1>12. MailboxOK(box, e, G)
  BY <1>2, <1>8, <1>9, <1>11 DEF MailboxOK
<1> QED BY <1>7, <1>12 DEF e

-----------------------------------------------------------------------------
\* The inductive invariant.

\* The folders that number their mails as they did at the beginning.
Numbered(h) == Served \ (h.renumbered \cup h.carried)
SyncInv ==
  /\ {"renumbered", "carried"} \subseteq DOMAIN past
  /\ "status" \in DOMAIN account /\ account.status \in Statuses
  /\ valid \in [Served -> Nat]
  /\ BoxOK(box) /\ MailboxOK(box, db, Numbered(past))
  /\ \A p \in DOMAIN pass : PassOK(box, db, pass[p], Numbered(past))

\* What no action forgets.
Remembers ==
  /\ {"renumbered", "carried"} \subseteq DOMAIN past'
  /\ past.renumbered \subseteq past'.renumbered /\ past.carried \subseteq past'.carried
  /\ "status" \in DOMAIN account' /\ account'.status \in Statuses
  /\ valid' \in [Served -> Nat]

LEMMA NumberedIs ==
  ASSUME Remembers
  PROVE  /\ Numbered(past) \in SUBSET Served /\ Numbered(past') \in SUBSET Served
         /\ Numbered(past') \subseteq Numbered(past)
  BY DEF Remembers, Numbered

\* How far an own mail has come, and the rows its sender saw.
Stages == {"draft", "sending", "accepted", "filed", "kept"}
Sendings == [at : Stages, rows : Seq(MailRow)]
ViewsOK == outgoing \in [Own -> Sendings]

LEMMA SequencesIn ==
  ASSUME NEW A, NEW B, A \subseteq B, NEW s \in Seq(A) PROVE s \in Seq(B)
<1>1. Len(s) \in Nat /\ DOMAIN s = 1..Len(s) /\ \A k \in 1..Len(s) : s[k] \in A
  BY LenProperties
<1>2. s \in [1..Len(s) -> B]
  <2>1. s \in [1..Len(s) -> A]
    BY LenProperties
  <2> QED BY <2>1
<1> QED BY <1>1, <1>2, SeqDef

LEMMA SyncInitially == SyncInit => SyncInv
<1> SUFFICES ASSUME SyncInit PROVE SyncInv
  OBVIOUS
<1> DEFINE d == Empty(case.rules)
<1>1. case \in Cases /\ case.rules \in Seq(Rulings)
  BY SyncAssumption DEF SyncInit
<1>2. BoxOK(box)
  <2>1. ASSUME NEW f \in Served
        PROVE (IF f \in DOMAIN case.box THEN case.box[f] ELSE <<>>) \in Seq(AllMails \cup {Gone})
    <3>1. CASE f \in DOMAIN case.box
      <4>1. case.box[f] \in Seq(Mails \cup {Gone})
        BY <1>1, <3>1, SyncAssumption
      <4>2. Mails \cup {Gone} \subseteq AllMails \cup {Gone}
        BY DEF AllMails
      <4> QED BY <3>1, <4>1, <4>2, SequencesIn
    <3>2. CASE f \notin DOMAIN case.box
      BY <3>2
    <3> QED BY <3>1, <3>2
  <2>2. box = [f \in Served |-> IF f \in DOMAIN case.box THEN case.box[f] ELSE <<>>]
    BY DEF SyncInit
  <2> QED BY <2>1, <2>2 DEF BoxOK
<1>3. /\ d \in Mailbox /\ d.rows = <<>> /\ DOMAIN d.rows = {} /\ d.counted = {} /\ \A f \in Folders : d.last[f] = 0
      /\ \A f \in Folders : d.counts[f] = [total |-> 0, unread |-> 0]
  <2>1. /\ [f \in Folders |-> 0] \in [Folders -> Nat]
        /\ [f \in Folders |-> [total |-> 0, unread |-> 0]] \in [Folders -> Counters]
    BY DEF Counters
  <2>2. <<>> \in Seq(MailRow) /\ DOMAIN <<>> = {}
    BY EmptySeq, LenProperties
  <2> QED BY <1>1, <2>1, <2>2 DEF Empty, Mailbox
<1> HIDE DEF d
<1>4. CountsRight(d, {})
  <2>1. \A f \in Folders : Live(d.rows, f) = {} /\ {i \in Live(d.rows, f) : ~d.rows[i].read} = {}
    BY <1>3 DEF Live
  <2>2. Cardinality({}) = 0
    BY FS_EmptySet
  <2>3. \A f \in Folders : Exact(d.rows, f) = [total |-> 0, unread |-> 0]
    BY <2>1, <2>2 DEF Exact
  <2> QED BY <1>3, <2>3 DEF CountsRight
<1> DEFINE G == Numbered(past)
<1>5. G \in SUBSET Served
  BY DEF Numbered
<1> HIDE DEF G
<1>6. UidsTrue(box, d, G)
  BY <1>3 DEF UidsTrue
<1>7. Covered(box, d, G)
  <2>1. ASSUME NEW g \in G PROVE /\ d.last[g] \in 0..Len(box[g])
                                 /\ \A u \in PresentIn(box, g) : ~ (u <= d.last[g])
    <3>1. Len(box[g]) \in Nat /\ DOMAIN box[g] = 1..Len(box[g])
      BY <1>2, <1>5, Uids
    <3>2. d.last[g] = 0
      BY <1>3, <1>5, FoldersAre
    <3> QED BY <3>1, <3>2 DEF PresentIn
  <2> QED BY <2>1 DEF Covered
<1>8. MailboxOK(box, d, G)
  BY <1>3, <1>4, <1>6, <1>7 DEF MailboxOK
<1>9. db = d /\ DOMAIN pass = {}
  BY DEF SyncInit, d
<1>10. /\ {"renumbered", "carried"} \subseteq DOMAIN past
       /\ "status" \in DOMAIN account /\ account.status \in Statuses
  BY DEF SyncInit, Statuses
<1>11. valid \in [Served -> Nat]
  BY DEF SyncInit
<1> QED BY <1>2, <1>8, <1>9, <1>10, <1>11 DEF SyncInv, G

\* A step of the server.
LEMMA BoxStep ==
  ASSUME SyncInv, Remembers, BoxOK(box'), BoxGrows(box, box', Numbered(past')), db' = db, pass' = pass
  PROVE  SyncInv'
<1> DEFINE
  G == Numbered(past)
  H == Numbered(past')
<1>1. G \in SUBSET Served /\ H \in SUBSET Served /\ H \subseteq G
  BY NumberedIs
<1>2. BoxOK(box) /\ MailboxOK(box, db, G) /\ \A p \in DOMAIN pass : PassOK(box, db, pass[p], G)
  BY DEF SyncInv
<1>3. BoxGrows(box, box', H)
  OBVIOUS
<1> HIDE DEF G, H
<1>4. MailboxOK(box, db, H) /\ \A p \in DOMAIN pass : PassOK(box, db, pass[p], H)
  BY <1>1, <1>2, FewerFolders
<1>5. MailboxOK(box', db, H) /\ \A p \in DOMAIN pass : PassOK(box', db, pass[p], H)
  BY <1>1, <1>2, <1>3, <1>4, BoxChange
<1> QED BY <1>5 DEF SyncInv, Remembers, H

\* Who asks for passes.
LEMMA AskStep ==
  ASSUME SyncInv, Remembers, box' = box, db' = db, pass' = pass
  PROVE  SyncInv'
<1>1. BoxOK(box)
  BY DEF SyncInv
<1>2. BoxGrows(box, box, Numbered(past'))
  <2>1. \A g \in Numbered(past') : Len(box[g]) \in Nat
    BY <1>1, Uids DEF Numbered
  <2> QED BY <2>1 DEF BoxGrows
<1> QED BY <1>1, <1>2, BoxStep

\* A handler, and the commit of a pass.
LEMMA CommittedStep ==
  ASSUME SyncInv, Remembers, box' = box,
         MailboxOK(box, db', Numbered(past')), Grows(db, db'),
         DOMAIN pass' \subseteq DOMAIN pass, \A p \in DOMAIN pass' : pass'[p] = pass[p]
  PROVE  SyncInv'
<1> DEFINE
  G == Numbered(past)
  H == Numbered(past')
<1>1. BoxOK(box) /\ \A p \in DOMAIN pass : PassOK(box, db, pass[p], G)
  BY DEF SyncInv
<1>2. H \subseteq G /\ MailboxOK(box, db', H)
  BY NumberedIs
<1> HIDE DEF G, H
<1>3. \A p \in DOMAIN pass : PassOK(box, db, pass[p], H)
  BY <1>1, <1>2, FewerFolders
<1>4. \A p \in DOMAIN pass : PassOK(box, db', pass[p], H)
  BY <1>3, PassStays
<1> QED BY <1>1, <1>2, <1>4 DEF SyncInv, Remembers, H

LEMMA HandlerStep ==
  ASSUME SyncInv, Remembers, box' = box, pass' = pass, NEW e, Rewrites(db, e, Numbered(past')),
         NEW O, Leaves(db, e, O), Committed(e)
  PROVE  SyncInv' /\ Leaves(db, db', O)
<1> DEFINE
  G == Numbered(past)
  H == Numbered(past')
<1>1. BoxOK(box) /\ MailboxOK(box, db, G)
  BY DEF SyncInv
<1>2. H \in SUBSET Served /\ H \subseteq G /\ Rewrites(db, e, H)
  BY NumberedIs
<1>3. db' = [e EXCEPT !.counted = {}]
  BY DEF Committed
<1> HIDE DEF G, H
<1>4. MailboxOK(box, db, H)
  BY <1>1, <1>2, FewerFolders
<1>5. MailboxOK(box, [e EXCEPT !.counted = {}], H) /\ Grows(db, [e EXCEPT !.counted = {}])
  BY <1>1, <1>2, <1>4, HandlerOK
<1>6. MailboxOK(box, db', H) /\ Grows(db, db')
  BY <1>3, <1>5
<1>7. Leaves(db, db', O)
  BY <1>2, <1>3, LeftBehind DEF Rewrites
<1> QED BY <1>6, <1>7, CommittedStep DEF H

\* A step of a pass.
LEMMA PassStep ==
  ASSUME SyncInv, Remembers, box' = box, db' = db, NEW p, NEW t, PassOK(box, db, t, Numbered(past)),
         \A q \in DOMAIN pass' : (q = p /\ pass'[q] = t) \/ (q \in DOMAIN pass /\ pass'[q] = pass[q])
  PROVE  SyncInv'
<1> DEFINE
  G == Numbered(past)
  H == Numbered(past')
<1>1. /\ BoxOK(box) /\ MailboxOK(box, db, G) /\ PassOK(box, db, t, G)
      /\ \A q \in DOMAIN pass : PassOK(box, db, pass[q], G)
  BY DEF SyncInv
<1>2. H \subseteq G
  BY NumberedIs
<1> HIDE DEF G, H
<1>3. /\ MailboxOK(box, db, H) /\ PassOK(box, db, t, H)
      /\ \A q \in DOMAIN pass : PassOK(box, db, pass[q], H)
  BY <1>1, <1>2, FewerFolders
<1>4. \A q \in DOMAIN pass' : PassOK(box, db, pass'[q], H)
  BY <1>3
<1> QED BY <1>1, <1>3, <1>4 DEF SyncInv, Remembers, H

-----------------------------------------------------------------------------
\* The actions.  Most of them leave the history and the account as they are, or count in
\* them what is no concern here.

Counted(h) ==
  /\ DOMAIN h = DOMAIN past /\ h.renumbered = past.renumbered /\ h.carried = past.carried
LEMMA CountedIs ==
  ASSUME SyncInv
  PROVE  /\ Counted(past)
         /\ \A n : Counted([past EXCEPT !.breaks = n]) /\ Counted([past EXCEPT !.passes = n])
         /\ \A n, m : Counted([past EXCEPT !.server = n, !.strayed = m])
         /\ \A n, m : Counted([past EXCEPT !.own = n]) /\ Counted([past EXCEPT !.selfKept = m])
         /\ \A n : /\ Counted([past EXCEPT !.server = n]) /\ Counted([past EXCEPT !.own = n])
                   /\ Counted([past EXCEPT !.handled = n])
         /\ \A n, m : Counted([past EXCEPT !.handled = n, !.passes = m])
  BY DEF SyncInv, Counted

LEMMA Remembered ==
  ASSUME SyncInv, Counted(past'), "status" \in DOMAIN account', account'.status \in Statuses, valid' = valid
  PROVE  Remembers
  BY DEF SyncInv, Counted, Remembers

LEMMA AccountIs ==
  ASSUME SyncInv
  PROVE  /\ "status" \in DOMAIN account /\ account.status \in Statuses
         /\ \A s \in Statuses : LET a == [account EXCEPT !.status = s] IN
              "status" \in DOMAIN a /\ a.status \in Statuses
         /\ \A v : /\ LET a == [account EXCEPT !.idle = v] IN
                      "status" \in DOMAIN a /\ a.status \in Statuses
                   /\ LET a == [account EXCEPT !.enabled = v] IN
                      "status" \in DOMAIN a /\ a.status \in Statuses
         /\ \A s \in Statuses : \A v, w : LET a == [account EXCEPT !.deleted = v, !.enabled = w, !.status = s] IN
              "status" \in DOMAIN a /\ a.status \in Statuses
  BY DEF SyncInv

LEMMA StatusesAre == "pending" \in Statuses /\ "connected" \in Statuses /\ "error" \in Statuses /\ "disconnected" \in Statuses
  BY DEF Statuses

LEMMA AskingSteps ==
  ASSUME SyncInv, NotStarted \/ PollDue \/ IdleStarts \/ IdleStops \/ IdleSync \/ \E p \in Kinds : ConnectFails(p)
  PROVE  SyncInv'
<1>1. \/ account' = account
      \/ \E v : account' = [account EXCEPT !.idle = v]
      \/ account' = [account EXCEPT !.status = "error"]
  BY DEF NotStarted, PollDue, IdleStarts, IdleStops, IdleSync, ConnectFails
<1>2. Counted(past')
  <2>1. \/ past' = past \/ past' = [past EXCEPT !.breaks = @ + 1]
        \/ past' = [past EXCEPT !.passes = @ + 1]
    BY DEF NotStarted, PollDue, IdleStarts, IdleStops, IdleSync, ConnectFails, Ask
  <2> QED BY <2>1, CountedIs
<1>3. box' = box /\ db' = db /\ pass' = pass /\ valid' = valid
  BY DEF NotStarted, PollDue, IdleStarts, IdleStops, IdleSync, ConnectFails
<1>4. "status" \in DOMAIN account' /\ account'.status \in Statuses
  <2>1. CASE account' = account
    BY <2>1, AccountIs
  <2>2. CASE \E v : account' = [account EXCEPT !.idle = v]
    <3>1. PICK v : account' = [account EXCEPT !.idle = v]
      BY <2>2
    <3> QED BY <3>1, AccountIs
  <2>3. CASE account' = [account EXCEPT !.status = "error"]
    BY <2>3, AccountIs, StatusesAre
  <2> QED BY <1>1, <2>1, <2>2, <2>3
<1>5. Remembers
  BY <1>2, <1>3, <1>4, Remembered
<1> QED BY <1>3, <1>5, AskStep

LEMMA ArriveStep ==
  ASSUME SyncInv, NEW m \in Mails, Arrive(m)
  PROVE  SyncInv'
<1>1. /\ box' = [box EXCEPT !["inbox"] = Append(@, m)] /\ db' = db /\ pass' = pass /\ valid' = valid
      /\ account' = account /\ past' = [past EXCEPT !.server = @ + 1]
  BY DEF Arrive
<1>2. Remembers
  BY <1>1, CountedIs, AccountIs, Remembered
<1>3. "inbox" \in Served /\ m \in AllMails /\ BoxOK(box) /\ Numbered(past') \in SUBSET Served
  BY FoldersAre DEF AllMails, SyncInv, Numbered
<1>4. BoxOK(box') /\ BoxGrows(box, box', Numbered(past'))
  BY <1>1, <1>3, MailComes
<1> QED BY <1>1, <1>2, <1>4, BoxStep

LEMMA ExpungeStep ==
  ASSUME SyncInv, NEW f \in Served, NEW u \in DOMAIN box[f], Expunge(f, u)
  PROVE  SyncInv'
<1>1. PICK g \in {f, "work", "trash"} :
        /\ box' = IF g = f THEN [box EXCEPT ![f][u] = Gone]
                  ELSE [box EXCEPT ![f][u] = Gone, ![g] = Append(@, box[f][u])]
        /\ past' = [past EXCEPT !.server = @ + 1, !.strayed = @ \cup {box[f][u]}]
  BY DEF Expunge
<1>2. db' = db /\ pass' = pass /\ valid' = valid /\ account' = account /\ box[f][u] # Gone
  BY DEF Expunge, Present
<1>3. Remembers
  BY <1>1, <1>2, CountedIs, AccountIs, Remembered
<1>4. g \in Served /\ BoxOK(box) /\ Numbered(past') \in SUBSET Served
  BY FoldersAre DEF SyncInv, Numbered
<1>5. BoxOK(box') /\ BoxGrows(box, box', Numbered(past'))
  <2>1. CASE g = f
    BY <1>1, <1>4, <2>1, MailGoes
  <2>2. CASE g # f
    BY <1>1, <1>2, <1>4, <2>2, MailFiled
  <2> QED BY <2>1, <2>2
<1> QED BY <1>2, <1>3, <1>5, BoxStep

LEMMA RenumberStep ==
  ASSUME SyncInv, NEW f \in Served, Renumber(f)
  PROVE  SyncInv'
<1>1. /\ box' = [box EXCEPT ![f] = Kept(@)] /\ db' = db /\ pass' = pass /\ account' = account
      /\ valid' = [valid EXCEPT ![f] = @ + 1]
      /\ past' = [past EXCEPT !.server = @ + 1, !.renumbered = @ \cup {f}]
  BY DEF Renumber
<1>2. Remembers /\ past'.renumbered = past.renumbered \cup {f}
  <2>1. /\ DOMAIN past' = DOMAIN past /\ past'.renumbered = past.renumbered \cup {f}
        /\ past'.carried = past.carried
    BY <1>1 DEF SyncInv
  <2>2. valid' \in [Served -> Nat]
    BY <1>1 DEF SyncInv
  <2> QED BY <1>1, <2>1, <2>2 DEF SyncInv, Remembers
<1>3. BoxOK(box) /\ Numbered(past') \in SUBSET Served /\ Numbered(past') \ {f} = Numbered(past')
  BY <1>2 DEF SyncInv, Numbered
<1>4. BoxOK(box') /\ BoxGrows(box, box', Numbered(past'))
  <2>1. BoxOK(box') /\ BoxGrows(box, box', Numbered(past') \ {f})
    BY <1>1, <1>3, FolderRenumbered
  <2> QED BY <1>3, <2>1
<1> QED BY <1>1, <1>2, <1>4, BoxStep

LEMMA SendingSteps ==
  ASSUME SyncInv, NEW o \in Own, Sending(o) \/ Sent(o) \/ _append_to_sent(o)
  PROVE  SyncInv'
<1>1. db' = db /\ pass' = pass /\ valid' = valid /\ account' = account
  BY DEF Sending, Sent, _append_to_sent
<1>2. box' = box \/ box' = [box EXCEPT !["sent"] = Append(@, o)]
  BY DEF Sending, Sent, _append_to_sent
<1>3. Counted(past')
  <2>1. \/ past' = past \/ past' = [past EXCEPT !.own = @ + 1]
        \/ past' = [past EXCEPT !.selfKept = @ \cup {o}]
    BY DEF Sending, Sent, _append_to_sent
  <2>2. CASE past' = past \/ past' = [past EXCEPT !.own = @ + 1]
    BY <2>2, CountedIs
  <2>3. CASE past' = [past EXCEPT !.selfKept = @ \cup {o}]
    BY <2>3, CountedIs
  <2> QED BY <2>1, <2>2, <2>3
<1>4. Remembers
  BY <1>1, <1>3, AccountIs, Remembered
<1>5. "sent" \in Served /\ o \in AllMails /\ BoxOK(box) /\ Numbered(past') \in SUBSET Served
  BY FoldersAre DEF AllMails, SyncInv, Numbered
<1>6. CASE box' = box
  BY <1>1, <1>4, <1>6, AskStep
<1>7. CASE box' = [box EXCEPT !["sent"] = Append(@, o)]
  <2>1. BoxOK(box') /\ BoxGrows(box, box', Numbered(past'))
    BY <1>5, <1>7, MailComes
  <2> QED BY <1>1, <1>4, <2>1, BoxStep
<1> QED BY <1>2, <1>6, <1>7

\* Handlers.

LEMMA ChosenIs ==
  ASSUME SyncInv, NEW I \in Chosen
  PROVE  I \subseteq DOMAIN db.rows
  BY DEF Chosen, Live

\* A request that is counted and changes the mailbox.
LEMMA TalliedStep ==
  ASSUME SyncInv, NEW e, Rewrites(db, e, Numbered(past)), Leaves(db, e, {}), Handles(e), Tallied
  PROVE  SyncInv' /\ Leaves(db, db', {})
<1>1. /\ box' = box /\ valid' = valid /\ pass' = pass /\ account' = account /\ Committed(e)
      /\ past' = [past EXCEPT !.handled = @ + 1]
  BY DEF Handles, Tallied
<1>2. Counted(past') /\ "status" \in DOMAIN account' /\ account'.status \in Statuses
  BY <1>1, CountedIs, AccountIs
<1>3. Remembers
  BY <1>1, <1>2, Remembered
<1>4. Numbered(past') = Numbered(past)
  BY <1>2 DEF Counted, Numbered
<1> QED BY <1>1, <1>3, <1>4, HandlerStep

LEMMA MailboxIs ==
  ASSUME SyncInv
  PROVE  /\ db \in Mailbox /\ CountsRight(db, {}) /\ BoxOK(box)
         /\ Numbered(past) \in SUBSET Served /\ MailboxOK(box, db, Numbered(past))
         /\ \A j \in DOMAIN db.rows : db.rows[j] \in MailRow
<1>1. db \in Mailbox /\ CountsRight(db, {})
  BY DEF SyncInv, MailboxOK
<1>2. \A j \in DOMAIN db.rows : db.rows[j] \in MailRow
  BY <1>1, RowsAre DEF Mailbox
<1> QED BY <1>1, <1>2 DEF SyncInv, Numbered

LEMMA HomesAre ==
  ASSUME SyncInv, NEW I, I \subseteq DOMAIN db.rows
  PROVE  Homes(I) \in SUBSET Folders /\ \A i \in I : db.rows[i].folder \in Homes(I)
<1>1. \A i \in I : db.rows[i].folder \in Folders
  BY MailboxIs DEF MailRow
<1> QED BY <1>1 DEF Homes

LEMMA MarkReadStep ==
  ASSUME SyncInv, NEW I \in Chosen, NEW value \in BOOLEAN, MarkRead(I, value)
  PROVE  SyncInv' /\ Leaves(db, db', {})
<1> DEFINE
  C == Homes(I)
  d == refresh_folder_counts(db, C)
  R == [i \in DOMAIN db.rows |-> IF i \in I THEN [db.rows[i] EXCEPT !.read = value] ELSE db.rows[i]]
  e == [d EXCEPT !.rows = R, !.behind = @ \cup C]
<1>1. I \subseteq DOMAIN db.rows
  BY ChosenIs
<1>2. C \in SUBSET Folders /\ \A i \in I : db.rows[i].folder \in C
  BY <1>1, HomesAre
<1>3. Flagged(db, R, I)
  BY <1>1, MailboxIs, ReadFlags
<1>4. d.rows = db.rows /\ DOMAIN d = DOMAIN db
  BY MailboxIs DEF refresh_folder_counts, Mailbox
<1>5. Handles(e) /\ Tallied
  BY <1>4 DEF MarkRead
<1> HIDE DEF R, C
<1>6. Rewrites(db, e, Numbered(past)) /\ Leaves(db, e, {})
  BY <1>1, <1>2, <1>3, MailboxIs, FlagOK
<1> HIDE DEF e
<1> QED BY <1>5, <1>6, TalliedStep

LEMMA HardDeleteStep ==
  ASSUME SyncInv, NEW I \in Chosen, HardDelete(I)
  PROVE  SyncInv' /\ Leaves(db, db', {})
<1> DEFINE
  C == Homes(I)
  d == refresh_folder_counts(db, C)
  R == [i \in DOMAIN db.rows |-> IF i \in I THEN [db.rows[i] EXCEPT !.deleted = TRUE] ELSE db.rows[i]]
  e == [d EXCEPT !.rows = R, !.behind = @ \cup C]
<1>1. I \subseteq DOMAIN db.rows
  BY ChosenIs
<1>2. C \in SUBSET Folders /\ \A i \in I : db.rows[i].folder \in C
  BY <1>1, HomesAre
<1>3. Flagged(db, R, I)
  BY <1>1, MailboxIs, DeletedFlags
<1>4. d.rows = db.rows /\ DOMAIN d = DOMAIN db
  BY MailboxIs DEF refresh_folder_counts, Mailbox
<1>5. Handles(e) /\ Tallied
  BY <1>4 DEF HardDelete
<1> HIDE DEF R, C
<1>6. Rewrites(db, e, Numbered(past)) /\ Leaves(db, e, {})
  BY <1>1, <1>2, <1>3, MailboxIs, FlagOK
<1> HIDE DEF e
<1> QED BY <1>5, <1>6, TalliedStep

LEMMA MoveToStep ==
  ASSUME SyncInv, NEW I \in Chosen, NEW f \in Folders, MoveTo(I, f)
  PROVE  SyncInv' /\ Leaves(db, db', {})
<1> DEFINE e == MovedAll(db, I, f)
<1>1. I \subseteq DOMAIN db.rows
  BY ChosenIs
<1>2. Evolved(db, e, I)
  BY <1>1, MailboxIs, MovedAllIs
<1>3. Rewrites(db, e, Numbered(past)) /\ Leaves(db, e, {})
  BY <1>2, MailboxIs, EvolvedOK
<1>4. Handles(e) /\ Tallied
  BY DEF MoveTo
<1> HIDE DEF e
<1> QED BY <1>3, <1>4, TalliedStep

LEMMA JunkStep ==
  ASSUME SyncInv, NEW I \in Chosen, NEW spam \in BOOLEAN, _junk(I, spam)
  PROVE  SyncInv' /\ Leaves(db, db', {})
<1> DEFINE
  g == IF spam THEN "junk" ELSE "inbox"
  d == MovedAll(db, I, g)
  who == {db.rows[i].mail : i \in I}
  e == IF spam THEN [d EXCEPT !.blocked = @ \cup who] ELSE [d EXCEPT !.safe = @ \cup who]
<1>1. I \subseteq DOMAIN db.rows /\ g \in Folders
  BY ChosenIs, FoldersAre
<1>2. who \in SUBSET AllMails
  <2>1. \A i \in I : db.rows[i].mail \in AllMails
    BY <1>1, MailboxIs DEF MailRow
  <2> QED BY <2>1
<1>3. Handles(e) /\ Tallied
  BY DEF _junk
<1> HIDE DEF g, who
<1>4. Evolved(db, d, I)
  BY <1>1, MailboxIs, MovedAllIs
<1>5. Rewrites(db, d, Numbered(past)) /\ Leaves(db, d, {})
  BY <1>4, MailboxIs, EvolvedOK
<1> HIDE DEF d
<1> DEFINE
  blocking == [d EXCEPT !.blocked = @ \cup who]
  saving == [d EXCEPT !.safe = @ \cup who]
<1>6. /\ Rewrites(db, blocking, Numbered(past)) /\ Leaves(db, blocking, {})
      /\ Rewrites(db, saving, Numbered(past)) /\ Leaves(db, saving, {})
  BY <1>2, <1>5, ListedOK
<1>7. e = blocking \/ e = saving
  OBVIOUS
<1> HIDE DEF e, blocking, saving
<1>8. Rewrites(db, e, Numbered(past)) /\ Leaves(db, e, {})
  BY <1>6, <1>7
<1> QED BY <1>3, <1>8, TalliedStep

LEMMA RunRuleStep ==
  ASSUME SyncInv, NEW k \in DOMAIN db.rules, RunRule(k)
  PROVE  SyncInv' /\ Leaves(db, db', {})
<1> DEFINE
  I == Live(db.rows, "inbox")
  e == AppliedAll(db, I, db.rules[k])
<1>1. I \subseteq DOMAIN db.rows
  BY DEF Live
<1>2. db.rules[k] \in Rulings
  <2>1. db.rules \in Seq(Rulings)
    BY MailboxIs DEF Mailbox
  <2> QED BY <2>1, LenProperties
<1>3. Handles(e) /\ Tallied
  BY DEF RunRule
<1> HIDE DEF I
<1>4. Evolved(db, e, I)
  BY <1>1, <1>2, MailboxIs, AppliedAllIs
<1>5. Rewrites(db, e, Numbered(past)) /\ Leaves(db, e, {})
  BY <1>4, MailboxIs, EvolvedOK
<1> HIDE DEF e
<1> QED BY <1>3, <1>5, TalliedStep

LEMMA EmptyFolderStep ==
  ASSUME SyncInv, NEW f \in Folders, empty_folder(f)
  PROVE  SyncInv' /\ Leaves(db, db', {})
<1> DEFINE
  I == Live(db.rows, f)
  R == [i \in DOMAIN db.rows |-> IF i \in I THEN [db.rows[i] EXCEPT !.deleted = TRUE] ELSE db.rows[i]]
  e == refresh_folder_counts([db EXCEPT !.rows = R], {f})
<1>1. I \subseteq DOMAIN db.rows
  BY DEF Live
<1>2. Flagged(db, R, I)
  <2> HIDE DEF I
  <2> QED BY <1>1, MailboxIs, DeletedFlags
<1>3. Handles(e) /\ Tallied
  BY DEF empty_folder
<1> HIDE DEF R
<1>4. Rewrites(db, e, Numbered(past)) /\ Leaves(db, e, {})
  BY <1>2, MailboxIs, EmptyOK
<1> HIDE DEF e
<1> QED BY <1>3, <1>4, TalliedStep

LEMMA DeleteFolderStep ==
  ASSUME SyncInv, delete_folder
  PROVE  SyncInv' /\ Leaves(db, db', {})
<1> DEFINE
  rows == Live(db.rows, "work")
  uids == {db.rows[i].uid : i \in rows} \ {NoUid}
  R == [i \in DOMAIN db.rows |-> IF i \in rows THEN [db.rows[i] EXCEPT !.folder = "trash"] ELSE db.rows[i]]
  e == [refresh_folder_counts([db EXCEPT !.rows = R], {"trash"})
          EXCEPT !.dropped = @ \cup {"work"}, !.behind = @ \cup {"work"},
                 !.moved = @ \cup {db.rows[i].mail : i \in rows}]
<1>1. /\ Handles(e) /\ account' = account
      /\ past' = [past EXCEPT !.handled = @ + 1, !.carried = IF uids = {} THEN @ ELSE @ \cup {"trash"}]
  BY DEF delete_folder
<1>2. box' = box /\ valid' = valid /\ pass' = pass /\ Committed(e)
  BY <1>1 DEF Handles
<1> DEFINE G == Numbered(past')
<1>3. Rewrites(db, e, G) <=> Rewrites(db, e, Numbered(past'))
  OBVIOUS
<1> HIDE DEF e, rows, uids
<1>4. /\ DOMAIN past' = DOMAIN past /\ past'.renumbered = past.renumbered
      /\ past'.carried = IF uids = {} THEN past.carried ELSE past.carried \cup {"trash"}
  BY <1>1 DEF SyncInv
<1>5. Remembers
  BY <1>1, <1>2, <1>4 DEF SyncInv, Remembers
<1>6. G \in SUBSET Served /\ ("trash" \in G => uids = {})
  BY <1>4 DEF Numbered
<1> HIDE DEF G
<1>7. Rewrites(db, e, G) /\ Leaves(db, e, {})
  BY <1>6, MailboxIs, DropOK DEF e, rows, uids
<1> QED BY <1>2, <1>5, <1>7, HandlerStep DEF G

LEMMA ResyncStep ==
  ASSUME SyncInv, NEW full \in BOOLEAN, resync(full)
  PROVE  SyncInv' /\ Leaves(db, db', {})
<1> DEFINE
  e == [db EXCEPT !.last = [f \in Folders |-> 0], !.seen = [f \in Folders |-> 0],
                  !.rescanned = @ \cup {f \in Folders : db.last[f] # 0}]
  x == IF full THEN e ELSE db
<1>1. /\ box' = box /\ valid' = valid /\ pass' = pass /\ Committed(x) /\ account' = account
      /\ past' = [past EXCEPT !.handled = @ + 1, !.passes = @ + 1]
  BY DEF resync, AsksBack, Handles
<1>2. /\ Rewrites(db, e, Numbered(past)) /\ Leaves(db, e, {})
      /\ Rewrites(db, db, Numbered(past)) /\ Leaves(db, db, {})
  BY MailboxIs, RescanOK, SameOK
<1> HIDE DEF e
<1>3. Rewrites(db, x, Numbered(past)) /\ Leaves(db, x, {})
  BY <1>2
<1> HIDE DEF x
<1>4. Counted(past')
  BY <1>1, CountedIs
<1>5. Remembers /\ Numbered(past') = Numbered(past)
  <2>1. Remembers
    BY <1>1, <1>4, AccountIs, Remembered
  <2> QED BY <1>4, <2>1 DEF Counted, Numbered
<1> QED BY <1>1, <1>3, <1>5, HandlerStep

LEMMA AccountSteps ==
  ASSUME SyncInv, update_account \/ delete_account \/ create_account
  PROVE  SyncInv' /\ Leaves(db, db', {})
<1>1. box' = box /\ valid' = valid /\ pass' = pass /\ Committed(db)
  BY DEF update_account, delete_account, create_account, AsksBack, Handles
<1>2. \/ account' = [account EXCEPT !.enabled = ~@]
      \/ account' = [account EXCEPT !.deleted = TRUE, !.enabled = FALSE, !.status = "disconnected"]
      \/ account' = [account EXCEPT !.deleted = FALSE, !.enabled = TRUE, !.status = "pending"]
  BY DEF update_account, delete_account, create_account
<1>3. "status" \in DOMAIN account' /\ account'.status \in Statuses
  <2>1. CASE account' = [account EXCEPT !.enabled = ~@]
    BY <2>1, AccountIs
  <2>2. CASE account' = [account EXCEPT !.deleted = TRUE, !.enabled = FALSE, !.status = "disconnected"]
    BY <2>2, AccountIs, StatusesAre
  <2>3. CASE account' = [account EXCEPT !.deleted = FALSE, !.enabled = TRUE, !.status = "pending"]
    BY <2>3, AccountIs, StatusesAre
  <2> QED BY <1>2, <2>1, <2>2, <2>3
<1>4. Counted(past')
  <2>1. \/ past' = [past EXCEPT !.handled = @ + 1]
        \/ past' = [past EXCEPT !.handled = @ + 1, !.passes = @ + 1]
    BY DEF update_account, delete_account, create_account, AsksBack
  <2>2. CASE past' = [past EXCEPT !.handled = @ + 1]
    BY <2>2, CountedIs
  <2>3. CASE past' = [past EXCEPT !.handled = @ + 1, !.passes = @ + 1]
    BY <2>3, CountedIs
  <2> QED BY <2>1, <2>2, <2>3
<1>5. Remembers /\ Numbered(past') = Numbered(past)
  <2>1. Remembers
    BY <1>1, <1>3, <1>4, Remembered
  <2> QED BY <1>4, <2>1 DEF Counted, Numbered
<1>6. Rewrites(db, db, Numbered(past')) /\ Leaves(db, db, {})
  BY <1>5, MailboxIs, SameOK
<1> QED BY <1>1, <1>5, <1>6, HandlerStep

LEMMA FiledStep ==
  ASSUME SyncInv, ViewsOK, NEW o \in Own, Filed(o)
  PROVE  SyncInv' /\ Leaves(db, db', {o})
<1> DEFINE e == FiledIn(db, outgoing[o].rows, o)
<1>1. /\ box' = box /\ valid' = valid /\ pass' = pass /\ account' = account /\ past' = past
      /\ Committed(e)
  BY DEF Filed, FiledIn, OwnRow
<1>2. outgoing[o].rows \in Seq(MailRow)
  BY DEF ViewsOK, Sendings
<1>3. Rewrites(db, e, Numbered(past)) /\ Leaves(db, e, {o})
  BY <1>2, MailboxIs, FiledOK
<1> HIDE DEF e
<1>4. Remembers
  BY <1>1, CountedIs, AccountIs, Remembered
<1> QED BY <1>1, <1>3, <1>4, HandlerStep

\* Passes.

LEMMA StartStep ==
  ASSUME SyncInv, NEW p \in Kinds, Start(p)
  PROVE  SyncInv'
<1> DEFINE
  T == {k \in DOMAIN Order : Order[k] \in Served \ db.dropped}
  t == [snap |-> db, status |-> account.status, tx |-> [db EXCEPT !.paths = @ \cup Served],
        todo |-> T, at |-> "none", uids |-> {}]
<1>1. /\ box' = box /\ valid' = valid /\ db' = db /\ account' = account /\ past' = past
      /\ pass' = [q \in DOMAIN pass \cup {p} |-> IF q # p THEN pass[q] ELSE t]
  BY DEF Start
<1>2. T \in SUBSET Turns
  BY DEF Turns
<1> HIDE DEF T
<1>3. PassOK(box, db, t, Numbered(past))
  BY <1>2, MailboxIs, AccountIs, StartOK
<1> HIDE DEF t
<1>4. \A q \in DOMAIN pass' : (q = p /\ pass'[q] = t) \/ (q \in DOMAIN pass /\ pass'[q] = pass[q])
  BY <1>1
<1>5. Remembers
  BY <1>1, CountedIs, AccountIs, Remembered
<1> QED BY <1>1, <1>3, <1>4, <1>5, PassStep

LEMMA PassIs ==
  ASSUME SyncInv, NEW p \in DOMAIN pass
  PROVE  /\ PassOK(box, db, pass[p], Numbered(past)) /\ pass[p] \in Passes /\ valid \in [Served -> Nat]
         /\ \A t : \A q \in DOMAIN [pass EXCEPT ![p] = t] :
              \/ q = p /\ [pass EXCEPT ![p] = t][q] = t
              \/ q \in DOMAIN pass /\ [pass EXCEPT ![p] = t][q] = pass[q]
  BY DEF SyncInv, PassOK

LEMMA GoingOnSteps ==
  ASSUME SyncInv, NEW p \in DOMAIN pass, PassBy(p) \/ FolderFails(p)
  PROVE  SyncInv'
<1> DEFINE
  f == Order[Min(pass[p].todo)]
<1>1. /\ box' = box /\ valid' = valid /\ db' = db /\ account' = account
      /\ pass[p].at = "none" /\ pass[p].todo # {}
  BY DEF PassBy, FolderFails
<1>2. PICK d \in {pass[p].tx, Selected(pass[p].tx, f)} :
        pass' = [pass EXCEPT ![p].tx = d, ![p].todo = Later(@)]
  BY DEF PassBy, FolderFails, NextFolder
<1> DEFINE t == [pass[p] EXCEPT !.tx = d, !.todo = Later(@)]
<1>3. pass' = [pass EXCEPT ![p] = t]
  BY <1>2, PassIs DEF Passes
<1>4. PassOK(box, db, t, Numbered(past))
  BY <1>1, <1>2, PassIs, MailboxIs, PassedOK
<1> HIDE DEF t
<1>5. \A q \in DOMAIN pass' : (q = p /\ pass'[q] = t) \/ (q \in DOMAIN pass /\ pass'[q] = pass[q])
  BY <1>3, PassIs
<1>6. Counted(past')
  <2>1. past' = past \/ past' = [past EXCEPT !.breaks = @ + 1]
    BY DEF PassBy, FolderFails
  <2> QED BY <2>1, CountedIs
<1>7. Remembers
  BY <1>1, <1>6, AccountIs, Remembered
<1> QED BY <1>1, <1>4, <1>5, <1>7, PassStep

LEMMA SearchStep ==
  ASSUME SyncInv, NEW p \in DOMAIN pass, Search(p)
  PROVE  SyncInv'
<1> DEFINE
  f == Order[Min(pass[p].todo)]
  d == Selected(pass[p].tx, f)
  new == Unseen(d, f)
  t == [pass[p] EXCEPT !.tx = d, !.at = f, !.uids = Lowest(new)]
<1>1. /\ box' = box /\ valid' = valid /\ db' = db /\ account' = account /\ past' = past
      /\ pass[p].at = "none" /\ pass[p].todo # {}
      /\ pass' = [pass EXCEPT ![p].tx = d, ![p].at = f, ![p].uids = Lowest(new)]
  BY DEF Search, NextFolder, Unseen
<1>2. PassOK(box, db, t, Numbered(past))
  <2> DEFINE
    s == pass[p]
    G == Numbered(past)
  <2>1. /\ valid \in [Served -> Nat] /\ BoxOK(box) /\ G \in SUBSET Served /\ PassOK(box, db, s, G)
        /\ s.at = "none" /\ s.todo # {} /\ f = Order[Min(s.todo)] /\ d = Selected(s.tx, f)
    BY <1>1, PassIs, MailboxIs
  <2>2. t = [s EXCEPT !.tx = d, !.at = f, !.uids = Lowest(new)]
    OBVIOUS
  <2> HIDE DEF s, G, f, d, t
  <2>3. PassOK(box, db, [s EXCEPT !.tx = d, !.at = f, !.uids = Lowest(new)], G)
    BY <2>1, SearchOK
  <2> QED BY <2>2, <2>3 DEF G
<1> HIDE DEF d, new, f
<1>3. pass' = [pass EXCEPT ![p] = t]
  BY <1>1, PassIs DEF Passes
<1> HIDE DEF t
<1>4. \A q \in DOMAIN pass' : (q = p /\ pass'[q] = t) \/ (q \in DOMAIN pass /\ pass'[q] = pass[q])
  BY <1>3, PassIs
<1>5. Remembers
  BY <1>1, CountedIs, AccountIs, Remembered
<1> QED BY <1>1, <1>2, <1>4, <1>5, PassStep

LEMMA FetchStep ==
  ASSUME SyncInv, NEW p \in DOMAIN pass, Fetch(p)
  PROVE  SyncInv'
<1> DEFINE
  e == Stored(pass[p].tx, pass[p].at, pass[p].uids)
  t == [pass[p] EXCEPT !.tx = e, !.at = "none", !.uids = {}, !.todo = Later(@)]
<1>1. /\ box' = box /\ valid' = valid /\ db' = db /\ account' = account /\ past' = past
      /\ pass[p].at # "none"
      /\ pass' = [pass EXCEPT ![p].tx = Stored(@, pass[p].at, pass[p].uids), ![p].at = "none",
                              ![p].uids = {}, ![p].todo = Later(@)]
  BY DEF Fetch
<1>2. PassOK(box, db, t, Numbered(past))
  <2> DEFINE
    s == pass[p]
    G == Numbered(past)
  <2>1. /\ BoxOK(box) /\ G \in SUBSET Served /\ PassOK(box, db, s, G)
        /\ s.at # "none" /\ e = Stored(s.tx, s.at, s.uids)
    BY <1>1, PassIs, MailboxIs
  <2>2. t = [s EXCEPT !.tx = e, !.at = "none", !.uids = {}, !.todo = Later(@)]
    OBVIOUS
  <2> HIDE DEF s, G, e, t
  <2>3. PassOK(box, db, [s EXCEPT !.tx = e, !.at = "none", !.uids = {}, !.todo = Later(@)], G)
    BY <2>1, FetchOK
  <2> QED BY <2>2, <2>3 DEF G
<1>3. pass' = [pass EXCEPT ![p] = t]
  <2>1. pass' = [pass EXCEPT ![p].tx = e, ![p].at = "none", ![p].uids = {}, ![p].todo = Later(@)]
    BY <1>1
  <2> HIDE DEF e
  <2> QED BY <2>1, PassIs DEF Passes
<1> HIDE DEF t
<1>4. \A q \in DOMAIN pass' : (q = p /\ pass'[q] = t) \/ (q \in DOMAIN pass /\ pass'[q] = pass[q])
  BY <1>3, PassIs
<1>5. Remembers
  BY <1>1, CountedIs, AccountIs, Remembered
<1> QED BY <1>1, <1>2, <1>4, <1>5, PassStep

LEMMA EndingSteps ==
  ASSUME SyncInv, NEW p \in DOMAIN pass, Commit(p) \/ RollBack(p)
  PROVE  SyncInv'
<1> DEFINE t == pass[p]
<1>1. box' = box /\ valid' = valid /\ pass' = Without(p)
  BY DEF Commit, RollBack
<1>2. DOMAIN pass' \subseteq DOMAIN pass /\ \A q \in DOMAIN pass' : pass'[q] = pass[q]
  BY <1>1 DEF Without
<1>3. "status" \in DOMAIN account' /\ account'.status \in Statuses
  <2>1. account.status \in Statuses /\ "error" \in Statuses /\ "connected" \in Statuses
    BY AccountIs, StatusesAre
  <2>2. account' = account \/ \E s \in Statuses : account' = [account EXCEPT !.status = s]
    <3>1. CASE RollBack(p)
      <4>1. account' = account \/ account' = [account EXCEPT !.status = "error"]
        BY <3>1 DEF RollBack
      <4> QED BY <2>1, <4>1
    <3>2. CASE Commit(p)
      <4> DEFINE s == IF t.status = "connected" THEN account.status ELSE "connected"
      <4>1. account' = [account EXCEPT !.status = s]
        BY <3>2 DEF Commit
      <4>2. s \in Statuses
        BY <2>1
      <4> HIDE DEF s
      <4> QED BY <4>1, <4>2
    <3> QED BY <3>1, <3>2
  <2> QED BY <2>2, AccountIs
<1>4. CASE RollBack(p)
  <2>1. db' = db
    BY <1>4 DEF RollBack
  <2>2. Counted(past')
    <3>1. past' = past \/ past' = [past EXCEPT !.breaks = @ + 1]
      BY <1>4 DEF RollBack
    <3> QED BY <3>1, CountedIs
  <2>3. Remembers /\ Numbered(past') = Numbered(past)
    <3>1. Remembers
      BY <1>1, <1>3, <2>2, Remembered
    <3> QED BY <2>2, <3>1 DEF Counted, Numbered
  <2>4. MailboxOK(box, db', Numbered(past')) /\ Grows(db, db')
    BY <2>1, <2>3, MailboxIs DEF Grows
  <2> QED BY <1>1, <1>2, <2>3, <2>4, CommittedStep
<1>5. CASE Commit(p)
  <2> DEFINE carried == {db.rows[i].folder : i \in {j \in Adopted(t) : db.rows[j].folder # t.snap.rows[j].folder}}
  <2>1. /\ db' = Merged(t)
        /\ \E m : past' = [past EXCEPT !.crossed = m, !.carried = @ \cup carried]
    BY <1>5 DEF Commit
  <2>2. /\ DOMAIN past' = DOMAIN past /\ past'.renumbered = past.renumbered
        /\ past'.carried = past.carried \cup carried
    <3> HIDE DEF carried
    <3>1. PICK m : past' = [past EXCEPT !.crossed = m, !.carried = @ \cup carried]
      BY <2>1
    <3> QED BY <3>1 DEF SyncInv
  <2>3. Remembers
    <3> HIDE DEF carried
    <3> QED BY <1>1, <1>3, <2>2 DEF SyncInv, Remembers
  <2> DEFINE
    G == Numbered(past)
    H == Numbered(past')
  <2>4. /\ H \in SUBSET Served /\ H \subseteq G
        /\ \A i \in Adopted(t) : db.rows[i].folder = t.snap.rows[i].folder \/ db.rows[i].folder \notin H
    <3>1. \A i \in Adopted(t) : db.rows[i].folder # t.snap.rows[i].folder => db.rows[i].folder \in carried
      OBVIOUS
    <3> HIDE DEF carried
    <3>2. \A f \in carried : f \notin H
      BY <2>2 DEF Numbered
    <3> QED BY <2>3, <3>1, <3>2, NumberedIs
  <2>5. MailboxOK(box, db, G) /\ PassOK(box, db, t, G) /\ BoxOK(box)
    BY MailboxIs, PassIs
  <2> HIDE DEF G, H, t
  <2>6. MailboxOK(box, db, H) /\ PassOK(box, db, t, H)
    BY <2>4, <2>5, FewerFolders
  <2>7. MailboxOK(box, db', H) /\ Grows(db, db')
    BY <2>1, <2>4, <2>5, <2>6, CommitOK
  <2> QED BY <1>1, <1>2, <2>3, <2>7, CommittedStep DEF H
<1> QED BY <1>4, <1>5

\* Every step preserves the invariant.
LEMMA SyncPreserved == SyncInv /\ ViewsOK /\ [SyncNext]_syncVars => SyncInv'
<1> SUFFICES ASSUME SyncInv, ViewsOK, [SyncNext]_syncVars PROVE SyncInv'
  OBVIOUS
<1>1. CASE UNCHANGED syncVars
  <2>1. box' = box /\ db' = db /\ pass' = pass /\ past' = past /\ account' = account /\ valid' = valid
    BY <1>1 DEF syncVars
  <2>2. Remembers
    BY <2>1, CountedIs, AccountIs, Remembered
  <2> QED BY <2>1, <2>2, AskStep
<1>2. CASE SyncStep
  <2>1. CASE \E p \in Kinds : Start(p) \/ ConnectFails(p)
    BY <2>1, StartStep, AskingSteps
  <2>2. CASE \E p \in DOMAIN pass : \/ PassBy(p) \/ Search(p) \/ FolderFails(p)
                                    \/ Fetch(p) \/ Commit(p) \/ RollBack(p)
    BY <2>2, GoingOnSteps, SearchStep, FetchStep, EndingSteps
  <2>3. CASE NotStarted \/ PollDue \/ IdleStarts \/ IdleStops \/ IdleSync
    BY <2>3, AskingSteps
  <2>4. CASE \E m \in Mails : Arrive(m)
    BY <2>4, ArriveStep
  <2>5. CASE \E f \in Served : Renumber(f) \/ \E u \in DOMAIN box[f] : Expunge(f, u)
    BY <2>5, RenumberStep, ExpungeStep
  <2>6. CASE \E o \in Own : Sending(o) \/ Sent(o) \/ Filed(o) \/ _append_to_sent(o)
    BY <2>6, SendingSteps, FiledStep
  <2>7. CASE \E I \in Chosen : HardDelete(I)
    BY <2>7, HardDeleteStep
  <2>8. CASE \E I \in Chosen : \E b \in BOOLEAN : MarkRead(I, b) \/ _junk(I, b)
    BY <2>8, MarkReadStep, JunkStep
  <2>9. CASE \E I \in Chosen : \E f \in Folders \ db.dropped : MoveTo(I, f)
    BY <2>9, MoveToStep
  <2>10. CASE \E k \in DOMAIN db.rules : RunRule(k)
    BY <2>10, RunRuleStep
  <2>11. CASE \E f \in Folders : empty_folder(f)
    BY <2>11, EmptyFolderStep
  <2>12. CASE \E b \in BOOLEAN : resync(b)
    BY <2>12, ResyncStep
  <2>13. CASE delete_folder \/ update_account \/ delete_account \/ create_account
    BY <2>13, DeleteFolderStep, AccountSteps
  <2> QED BY <1>2, <2>1, <2>2, <2>3, <2>4, <2>5, <2>6, <2>7, <2>8, <2>9, <2>10, <2>11, <2>12, <2>13
          DEF SyncStep
<1> QED BY <1>1, <1>2 DEF SyncNext

LEMMA ViewsInitially == SyncInit => ViewsOK
<1>1. <<>> \in Seq(MailRow)
  BY EmptySeq
<1> QED BY <1>1 DEF SyncInit, ViewsOK, Sendings, Stages

LEMMA OutgoingIs ==
  ASSUME SyncInv, ViewsOK, NEW o \in Own, Sending(o) \/ Sent(o) \/ Filed(o) \/ _append_to_sent(o)
  PROVE  \E at \in Stages, rows \in Seq(MailRow) :
           /\ outgoing' = [outgoing EXCEPT ![o] = [at |-> at, rows |-> rows]]
           /\ _append_to_sent(o) => at = "kept"
<1>1. /\ "sending" \in Stages /\ "accepted" \in Stages /\ "filed" \in Stages /\ "kept" \in Stages
      /\ db.rows \in Seq(MailRow) /\ <<>> \in Seq(MailRow) /\ outgoing[o].rows \in Seq(MailRow)
  BY MailboxIs, EmptySeq DEF Mailbox, Stages, ViewsOK, Sendings
<1>2. \A r \in Sendings, at \in Stages : [r EXCEPT !.at = at] = [at |-> at, rows |-> r.rows]
  BY DEF Sendings
<1>3. \A at \in Stages : [outgoing EXCEPT ![o].at = at] = [outgoing EXCEPT ![o] = [at |-> at, rows |-> outgoing[o].rows]]
  BY <1>2 DEF ViewsOK
<1>4. CASE Sending(o)
  BY <1>1, <1>4 DEF Sending, _append_to_sent
<1>5. CASE Sent(o)
  BY <1>1, <1>3, <1>5 DEF Sent, _append_to_sent
<1>6. CASE Filed(o)
  BY <1>1, <1>6 DEF Filed, _append_to_sent
<1>7. CASE _append_to_sent(o)
  BY <1>1, <1>3, <1>7 DEF _append_to_sent
<1> QED BY <1>4, <1>5, <1>6, <1>7

LEMMA ViewsPreserved == SyncInv /\ ViewsOK /\ [SyncNext]_syncVars => ViewsOK'
<1> SUFFICES ASSUME SyncInv, ViewsOK, [SyncNext]_syncVars PROVE ViewsOK'
  OBVIOUS
<1>1. CASE \E o \in Own : Sending(o) \/ Sent(o) \/ Filed(o) \/ _append_to_sent(o)
  <2>1. PICK o \in Own : Sending(o) \/ Sent(o) \/ Filed(o) \/ _append_to_sent(o)
    BY <1>1
  <2>2. \E at \in Stages, rows \in Seq(MailRow) :
          outgoing' = [outgoing EXCEPT ![o] = [at |-> at, rows |-> rows]]
    BY <2>1, OutgoingIs
  <2> QED BY <2>2 DEF ViewsOK, Sendings
<1>2. CASE UNCHANGED outgoing
  BY <1>2 DEF ViewsOK
<1>3. CASE UNCHANGED syncVars
  BY <1>2, <1>3 DEF syncVars
<1>4. CASE SyncStep
  <2>1. CASE \E p \in Kinds : Start(p) \/ ConnectFails(p)
    BY <1>2, <2>1 DEF Start, ConnectFails
  <2>2. CASE \E p \in DOMAIN pass : \/ PassBy(p) \/ Search(p) \/ FolderFails(p)
                                    \/ Fetch(p) \/ Commit(p) \/ RollBack(p)
    BY <1>2, <2>2 DEF PassBy, Search, FolderFails, Fetch, Commit, RollBack
  <2>3. CASE NotStarted \/ PollDue \/ IdleStarts \/ IdleStops \/ IdleSync
    BY <1>2, <2>3 DEF NotStarted, PollDue, IdleStarts, IdleStops, IdleSync
  <2>4. CASE \E m \in Mails : Arrive(m)
    BY <1>2, <2>4 DEF Arrive
  <2>5. CASE \E f \in Served : Renumber(f) \/ \E u \in DOMAIN box[f] : Expunge(f, u)
    BY <1>2, <2>5 DEF Renumber, Expunge
  <2>6. CASE \E I \in Chosen : \/ HardDelete(I)
                                \/ \E b \in BOOLEAN : MarkRead(I, b) \/ _junk(I, b)
                                \/ \E f \in Folders \ db.dropped : MoveTo(I, f)
    BY <1>2, <2>6 DEF HardDelete, MarkRead, _junk, MoveTo, Handles
  <2>7. CASE \E k \in DOMAIN db.rules : RunRule(k)
    BY <1>2, <2>7 DEF RunRule, Handles
  <2>8. CASE \E f \in Folders : empty_folder(f)
    BY <1>2, <2>8 DEF empty_folder, Handles
  <2>9. CASE \E b \in BOOLEAN : resync(b)
    BY <1>2, <2>9 DEF resync, AsksBack, Handles
  <2>10. CASE delete_folder \/ update_account \/ delete_account \/ create_account
    BY <1>2, <2>10 DEF delete_folder, update_account, delete_account, create_account, AsksBack, Handles
  <2> QED BY <1>1, <1>4, <2>1, <2>2, <2>3, <2>4, <2>5, <2>6, <2>7, <2>8, <2>9, <2>10 DEF SyncStep
<1> QED BY <1>3, <1>4 DEF SyncNext

\* The counters of a folder are those of its rows, but where the code counts before it
\* writes, counts the rows of its snapshot, or does not count.
THEOREM CountsAreExplained == SyncSpec => []CountsExplained
<1>1. SyncInv => CountsExplained
  BY DEF SyncInv, MailboxOK, CountsRight, CountsExplained
<1> QED BY <1>1, SyncInitially, SyncPreserved, ViewsInitially, ViewsPreserved, PTL DEF SyncSpec

\* A mail that last_uid has passed has a row, but in a folder that was renumbered or got
\* rows with the uids of another one.
THEOREM MirrorIsExplained == SyncSpec => []MirrorExplained
<1>1. SyncInv => MirrorExplained
  <2>1. SUFFICES ASSUME SyncInv, NEW f \in Served, NEW u \in Present(f), u <= db.last[f],
                        f \notin past.renumbered, f \notin past.carried
                 PROVE  \E i \in DOMAIN db.rows : db.rows[i].mail = box[f][u]
    BY DEF MirrorExplained
  <2>2. f \in Numbered(past) /\ u \in PresentIn(box, f)
    BY <2>1 DEF Numbered, Present, PresentIn
  <2>3. Has(db, box[f][u])
    BY <2>1, <2>2 DEF SyncInv, MailboxOK, Covered
  <2> QED BY <2>3 DEF Has
<1> QED BY <1>1, SyncInitially, SyncPreserved, ViewsInitially, ViewsPreserved, PTL DEF SyncSpec

-----------------------------------------------------------------------------
\* Which mails can have two rows.  The server has a mail at one place, but for those it
\* doubled or moved about and own mails that the provider kept; a row is in the folder of
\* this place, unless it left its folder; and last_uid has passed the place of every mail
\* that has a row, unless it went back somewhere.  Then what is found beyond last_uid has
\* no row, or one that can be told by its Message-ID.

\* The server's folders b hold the mail m in f under the uid u, in f, anywhere.
Lies(b, f, u, m) == f \in Served /\ u \in DOMAIN b[f] /\ b[f][u] = m
LiesIn(b, f, m) == f \in Served /\ \E u \in DOMAIN b[f] : b[f][u] = m
Somewhere(b, m) == \E f \in Served : LiesIn(b, f, m)

\* Mails that may be at two places, as the history h knows.
Excepted(h) == h.strayed \cup h.selfKept

Apart(b, h) ==
  \A f, g \in Served : \A u \in DOMAIN b[f], v \in DOMAIN b[g] :
    b[f][u] = b[g][v] /\ b[f][u] \notin Excepted(h) \cup {Gone} => f = g /\ u = v
\* An own mail comes to the server when its copy is appended, the last of its steps.
OwnPlaces(b, h, og) ==
  \A f \in Served : \A u \in DOMAIN b[f] :
    b[f][u] \in Own \ Excepted(h) => f = "sent" /\ og[b[f][u]].at = "kept"

\* Where the mail of a row is.
HomeOf(b, h, moved, r) ==
  r.mail \notin Excepted(h) =>
    /\ r.mail \notin Own => Somewhere(b, r.mail)
    /\ r.mail \in Own \ moved => r.folder = "sent"
    /\ r.mail \notin moved \cup Own => LiesIn(b, r.folder, r.mail)
    /\ r.mail \notin moved \cup Own /\ r.folder \notin h.renumbered => Lies(b, r.folder, r.uid, r.mail)
Homed(b, h, d) == \A i \in DOMAIN d.rows : HomeOf(b, h, d.moved, d.rows[i])

\* The uids U of f are on the way to last_uid.
PassedBy(b, h, d, f, U) ==
  d.rescanned = {} =>
    \A i \in DOMAIN d.rows : d.rows[i].mail \notin Excepted(h) \cup Own =>
      \A g \in Served : \A u \in DOMAIN b[g] :
        b[g][u] = d.rows[i].mail => u <= d.last[g] \/ (g = f /\ u \in U)

Explained(h, d, m, f) ==
  \/ m \in Excepted(h)
  \/ d.rescanned # {} /\ m \in d.moved \cup Unlabelled
  \/ m \in h.crossed /\ (m \in d.moved \cup Own \/ f \in h.renumbered)
  \/ m \in d.moved \cap Own
Twins(h, d) ==
  \A i, j \in DOMAIN d.rows :
    i # j /\ d.rows[i].mail = d.rows[j].mail /\ ~d.rows[i].deleted /\ ~d.rows[j].deleted =>
      Explained(h, d, d.rows[i].mail, d.rows[i].folder)

OwnFiled(h, og, d) ==
  \A i \in DOMAIN d.rows : d.rows[i].mail \in Own \ Excepted(h) => og[d.rows[i].mail].at \in {"filed", "kept"}

Tidy(b, og, h, d) ==
  Homed(b, h, d) /\ PassedBy(b, h, d, "none", {}) /\ Twins(h, d) /\ OwnFiled(h, og, d)

\* A pass keeps the key of every row it stored, unless the row left its folder since.
Keyed(s, d) ==
  \A j \in DOMAIN d.rows \ DOMAIN s.rows : d.rows[j].mail \notin d.moved =>
    d.rows[j].uid # NoUid /\ <<d.rows[j].folder, d.rows[j].uid>> \in d.keys
\* What was committed since s keeps its marks of deletion and its last_uids.
Follows(s, d) ==
  /\ d.rescanned = {} => \A f \in Folders : s.last[f] <= d.last[f]
  /\ \A i \in DOMAIN s.rows : s.rows[i].deleted => d.rows[i].deleted
PassTidy(b, og, h, d, t) ==
  /\ Tidy(b, og, h, t.tx) /\ Keyed(t.snap, t.tx) /\ Follows(t.snap, d)
  /\ t.at # "none" => \A u \in t.uids : u > t.tx.last[t.at]

TwiceInv ==
  /\ {"strayed", "selfKept", "crossed", "renumbered"} \subseteq DOMAIN past
  /\ outgoing \in [Own -> Sendings]
  /\ Apart(box, past) /\ OwnPlaces(box, past, outgoing)
  /\ Tidy(box, outgoing, past, db)
  /\ \A p \in DOMAIN pass : PassTidy(box, outgoing, past, db, pass[p])

\* What the history, an own mail and the mailbox only add to.
Longer(h, k) ==
  /\ h.strayed \subseteq k.strayed /\ h.selfKept \subseteq k.selfKept
  /\ h.crossed \subseteq k.crossed /\ h.renumbered \subseteq k.renumbered
Onward(og, oh) ==
  \A o \in Own : /\ og[o].at \in {"filed", "kept"} => oh[o].at \in {"filed", "kept"}
                 /\ og[o].at = "kept" => oh[o].at = "kept"

\* From b to c a mail that is not excepted stays in its folder, under its uid if the folder
\* is not renumbered; and the place that it has in c is its old one or below it, unless it
\* had none.
Stays(b, c, k) ==
  \A f \in Served : \A u \in DOMAIN b[f] : b[f][u] \notin Excepted(k) \cup {Gone} =>
    LiesIn(c, f, b[f][u]) /\ (f \notin k.renumbered => Lies(c, f, u, b[f][u]))
FromThere(b, c, k) ==
  \A f \in Served : \A v \in DOMAIN c[f] : c[f][v] \notin Excepted(k) \cup {Gone} =>
    (\E u \in DOMAIN b[f] : b[f][u] = c[f][v] /\ v <= u) \/ ~Somewhere(b, c[f][v])

LEMMA RowMails ==
  ASSUME NEW d \in Mailbox
  PROVE  \A i \in DOMAIN d.rows : /\ d.rows[i].mail \in AllMails /\ d.rows[i].mail # Gone
                                  /\ d.rows[i].mail \in Own => d.rows[i].mail \notin Unlabelled
<1>1. \A i \in DOMAIN d.rows : d.rows[i] \in MailRow
  BY RowsAre DEF Mailbox
<1>2. \A i \in DOMAIN d.rows : d.rows[i].mail \in AllMails
  BY <1>1 DEF MailRow
<1> QED BY <1>2, SyncAssumption

LEMMA ExplainedLater ==
  ASSUME NEW h, NEW k, Longer(h, k), NEW d, NEW e, d.moved \subseteq e.moved,
         d.rescanned \subseteq e.rescanned, NEW m, NEW f, Explained(h, d, m, f)
  PROVE  Explained(k, e, m, f)
  BY DEF Longer, Explained, Excepted

\* The server's changes leave a mailbox tidy.
LEMMA TidyBox ==
  ASSUME NEW b, BoxOK(b), NEW c, BoxOK(c), NEW h, NEW k, Longer(h, k), Stays(b, c, k),
         FromThere(b, c, k), NEW og, NEW oh, Onward(og, oh), NEW d \in Mailbox, Tidy(b, og, h, d)
  PROVE  Tidy(c, oh, k, d)
<1>1. Excepted(h) \subseteq Excepted(k)
  BY DEF Longer, Excepted
<1>2. ASSUME NEW m, m \notin Excepted(k), m # Gone
      PROVE  /\ \A f : LiesIn(b, f, m) => LiesIn(c, f, m)
             /\ \A f, u : f \notin k.renumbered /\ Lies(b, f, u, m) => Lies(c, f, u, m)
  BY <1>2 DEF Stays, LiesIn, Lies
<1>3. Homed(c, k, d)
  <2>1. SUFFICES ASSUME NEW i \in DOMAIN d.rows PROVE HomeOf(c, k, d.moved, d.rows[i])
    BY DEF Homed
  <2> DEFINE r == d.rows[i]
  <2>2. r.mail # Gone /\ HomeOf(b, h, d.moved, r)
    BY RowMails DEF Tidy, Homed
  <2> HIDE DEF r
  <2>3. SUFFICES ASSUME r.mail \notin Excepted(k) PROVE HomeOf(c, k, d.moved, r)
    BY DEF HomeOf, r
  <2>4. Somewhere(b, r.mail) => Somewhere(c, r.mail)
    BY <1>2, <2>2, <2>3 DEF Somewhere
  <2>5. /\ r.mail \notin Own => Somewhere(b, r.mail)
        /\ r.mail \in Own \ d.moved => r.folder = "sent"
        /\ r.mail \notin d.moved \cup Own => LiesIn(b, r.folder, r.mail)
        /\ r.mail \notin d.moved \cup Own /\ r.folder \notin h.renumbered => Lies(b, r.folder, r.uid, r.mail)
    BY <1>1, <2>2, <2>3 DEF HomeOf
  <2>6. r.folder \notin k.renumbered => r.folder \notin h.renumbered
    BY DEF Longer
  <2> QED BY <1>2, <2>2, <2>3, <2>4, <2>5, <2>6 DEF HomeOf
<1>4. PassedBy(c, k, d, "none", {})
  <2>1. SUFFICES ASSUME d.rescanned = {}, NEW i \in DOMAIN d.rows, d.rows[i].mail \notin Excepted(k) \cup Own,
                        NEW g \in Served, NEW v \in DOMAIN c[g], c[g][v] = d.rows[i].mail
                 PROVE  v <= d.last[g]
    BY DEF PassedBy
  <2>2. c[g][v] \notin Excepted(k) \cup {Gone} /\ Somewhere(b, c[g][v])
    BY <1>1, <2>1, RowMails DEF Tidy, Homed, HomeOf
  <2>3. PICK u \in DOMAIN b[g] : b[g][u] = c[g][v] /\ v <= u
    BY <2>2 DEF FromThere
  <2>4. u <= d.last[g]
    BY <1>1, <2>1, <2>3 DEF Tidy, PassedBy
  <2>5. u \in Nat /\ v \in Nat /\ d.last[g] \in Nat
    <3>1. g \in Folders
      BY FoldersAre
    <3> QED BY <3>1, Uids DEF Mailbox
  <2> QED BY <2>3, <2>4, <2>5
<1>5. Twins(k, d)
  BY ExplainedLater DEF Tidy, Twins
<1>6. OwnFiled(k, oh, d)
  BY <1>1 DEF Tidy, OwnFiled, Onward
<1> QED BY <1>3, <1>4, <1>5, <1>6 DEF Tidy

LEMMA SameBox ==
  ASSUME NEW b, BoxOK(b), NEW k PROVE Stays(b, b, k) /\ FromThere(b, b, k)
<1>1. ASSUME NEW f \in Served, NEW u \in DOMAIN b[f] PROVE u <= u
  BY Uids
<1> QED BY <1>1 DEF Stays, FromThere, Lies, LiesIn

\* The rows that a handler, a new last_uid or a filed mail leaves are tidy.
LEMMA TidyLeaves ==
  ASSUME NEW b, NEW h, NEW og, NEW oh, Onward(og, oh), NEW d \in Mailbox, NEW e \in Mailbox,
         Tidy(b, og, h, d), NEW O \in SUBSET Own, Leaves(d, e, O),
         \A o \in O : og[o].at \notin {"filed", "kept"} /\ oh[o].at \in {"filed", "kept"}
  PROVE  Tidy(b, oh, h, e)
<1>1. /\ d.moved \subseteq e.moved /\ d.rescanned \subseteq e.rescanned
      /\ e.rescanned = {} => d.rescanned = {} /\ e.last = d.last
  BY DEF Leaves
<1>2. \A j \in DOMAIN d.rows :
        /\ j \in DOMAIN e.rows /\ e.rows[j].mail = d.rows[j].mail
        /\ d.rows[j].deleted => e.rows[j].deleted
        /\ \/ e.rows[j].folder = d.rows[j].folder /\ e.rows[j].uid = d.rows[j].uid
           \/ e.rows[j].mail \in e.moved
  BY DEF Leaves
<1>3. \A j \in DOMAIN e.rows : j \notin DOMAIN d.rows =>
        /\ e.rows[j].mail \in O /\ e.rows[j].mail \in Own /\ e.rows[j].folder = "sent"
        /\ \A i \in DOMAIN e.rows : i \notin DOMAIN d.rows => i = j
  BY DEF Leaves
<1>4. Homed(b, h, e)
  <2>1. ASSUME NEW j \in DOMAIN d.rows PROVE HomeOf(b, h, e.moved, e.rows[j])
    <3>1. HomeOf(b, h, d.moved, d.rows[j])
      BY DEF Tidy, Homed
    <3> QED BY <1>1, <1>2, <3>1 DEF HomeOf
  <2>2. ASSUME NEW j \in DOMAIN e.rows, j \notin DOMAIN d.rows PROVE HomeOf(b, h, e.moved, e.rows[j])
    BY <1>3, <2>2 DEF HomeOf
  <2> QED BY <2>1, <2>2 DEF Homed
<1>5. PassedBy(b, h, e, "none", {})
  <2>1. SUFFICES ASSUME e.rescanned = {}, NEW i \in DOMAIN e.rows, e.rows[i].mail \notin Excepted(h) \cup Own,
                        NEW g \in Served, NEW u \in DOMAIN b[g], b[g][u] = e.rows[i].mail
                 PROVE  u <= e.last[g]
    BY DEF PassedBy
  <2>2. i \in DOMAIN d.rows /\ e.rows[i].mail = d.rows[i].mail
    BY <1>2, <1>3, <2>1
  <2> QED BY <1>1, <2>1, <2>2 DEF Tidy, PassedBy
<1>6. Twins(h, e)
  <2>1. SUFFICES ASSUME NEW i \in DOMAIN e.rows, NEW j \in DOMAIN e.rows, i # j,
                        e.rows[i].mail = e.rows[j].mail, ~e.rows[i].deleted, ~e.rows[j].deleted
                 PROVE  Explained(h, e, e.rows[i].mail, e.rows[i].folder)
    BY DEF Twins
  <2>2. CASE i \in DOMAIN d.rows /\ j \in DOMAIN d.rows
    <3>1. Explained(h, d, d.rows[i].mail, d.rows[i].folder)
      BY <1>2, <2>1, <2>2 DEF Tidy, Twins
    <3> QED BY <1>1, <1>2, <2>2, <3>1 DEF Explained
  <2>3. ASSUME NEW n \in DOMAIN e.rows, n \notin DOMAIN d.rows, NEW o \in DOMAIN d.rows,
               e.rows[o].mail = e.rows[n].mail
        PROVE  e.rows[o].mail \in Excepted(h)
    BY <1>2, <1>3, <2>3 DEF Tidy, OwnFiled
  <2> QED BY <1>3, <2>1, <2>2, <2>3 DEF Explained
<1>7. OwnFiled(h, oh, e)
  BY <1>2, <1>3 DEF Tidy, OwnFiled, Onward
<1> QED BY <1>4, <1>5, <1>6, <1>7 DEF Tidy

LEMMA FollowsOn ==
  ASSUME NEW s \in Mailbox, NEW d \in Mailbox, NEW e \in Mailbox, Grows(s, d), Follows(s, d), Follows(d, e),
         d.rescanned \subseteq e.rescanned
  PROVE  Follows(s, e)
<1>1. ASSUME e.rescanned = {}, NEW f \in Folders PROVE s.last[f] <= e.last[f]
  <2>1. s.last[f] <= d.last[f] /\ d.last[f] <= e.last[f]
    BY <1>1 DEF Follows
  <2>2. s.last[f] \in Nat /\ d.last[f] \in Nat /\ e.last[f] \in Nat
    BY DEF Mailbox
  <2> QED BY <2>1, <2>2
<1>2. \A i \in DOMAIN s.rows : s.rows[i].deleted => e.rows[i].deleted
  BY DEF Follows, Grows
<1> QED BY <1>1, <1>2 DEF Follows

LEMMA LeavesFollows ==
  ASSUME NEW d \in Mailbox, NEW e \in Mailbox, NEW O, Leaves(d, e, O)
  PROVE  Follows(d, e) /\ d.rescanned \subseteq e.rescanned
<1>1. \A f \in Folders : d.last[f] <= d.last[f]
  BY DEF Mailbox
<1> QED BY <1>1 DEF Leaves, Follows

-----------------------------------------------------------------------------
\* The steps.  The history never forgets what a mail is excepted for.

Told == {"strayed", "selfKept", "crossed", "renumbered"} \subseteq DOMAIN past' /\ Longer(past, past')

LEMMA ToldIs ==
  ASSUME TwiceInv,
         \/ past' = past
         \/ \E n : \/ past' = [past EXCEPT !.breaks = n] \/ past' = [past EXCEPT !.passes = n]
                   \/ past' = [past EXCEPT !.server = n] \/ past' = [past EXCEPT !.own = n]
                   \/ past' = [past EXCEPT !.handled = n]
         \/ \E n, x : \/ past' = [past EXCEPT !.handled = n, !.carried = x]
                      \/ past' = [past EXCEPT !.handled = n, !.passes = x]
  PROVE  Told
<1>1. {"strayed", "selfKept", "crossed", "renumbered"} \subseteq DOMAIN past
  BY DEF TwiceInv
<1>2. /\ {"strayed", "selfKept", "crossed", "renumbered"} \subseteq DOMAIN past'
      /\ past'.strayed = past.strayed /\ past'.selfKept = past.selfKept
      /\ past'.crossed = past.crossed /\ past'.renumbered = past.renumbered
  <2>1. CASE past' = past
    BY <1>1, <2>1
  <2>2. CASE \E n : \/ past' = [past EXCEPT !.breaks = n] \/ past' = [past EXCEPT !.passes = n]
                    \/ past' = [past EXCEPT !.server = n] \/ past' = [past EXCEPT !.own = n]
                    \/ past' = [past EXCEPT !.handled = n]
    BY <1>1, <2>2
  <2>3. CASE \E n, x : \/ past' = [past EXCEPT !.handled = n, !.carried = x]
                       \/ past' = [past EXCEPT !.handled = n, !.passes = x]
    BY <1>1, <2>3
  <2> QED BY <2>1, <2>2, <2>3
<1> QED BY <1>2 DEF Told, Longer

LEMMA PlacesLater ==
  ASSUME NEW b, NEW h, NEW k, Longer(h, k), NEW og, NEW oh, Onward(og, oh)
  PROVE  /\ Apart(b, h) => Apart(b, k)
         /\ OwnPlaces(b, h, og) => OwnPlaces(b, k, oh)
<1>1. Excepted(h) \subseteq Excepted(k)
  BY DEF Longer, Excepted
<1>2. Apart(b, h) => Apart(b, k)
  BY <1>1 DEF Apart
<1>3. OwnPlaces(b, h, og) => OwnPlaces(b, k, oh)
  BY <1>1 DEF OwnPlaces, Onward
<1> QED BY <1>2, <1>3

LEMMA PassHas ==
  ASSUME SyncInv, NEW p \in DOMAIN pass
  PROVE  pass[p].tx \in Mailbox /\ pass[p].snap \in Mailbox /\ Grows(pass[p].snap, db)
  BY DEF SyncInv, PassOK, Passes

\* Any step: the passes that go on are as tidy as they were.
LEMMA TwiceStep ==
  ASSUME SyncInv, SyncInv', TwiceInv, Told, outgoing' \in [Own -> Sendings], Onward(outgoing, outgoing'),
         Stays(box, box', past'), FromThere(box, box', past'),
         Apart(box', past'), OwnPlaces(box', past', outgoing'),
         Tidy(box', outgoing', past', db'), Follows(db, db'), db.rescanned \subseteq db'.rescanned,
         \A q \in DOMAIN pass' : \/ q \in DOMAIN pass /\ pass'[q] = pass[q]
                                 \/ PassTidy(box', outgoing', past', db', pass'[q])
  PROVE  TwiceInv'
<1>1. /\ db \in Mailbox /\ db' \in Mailbox /\ BoxOK(box) /\ BoxOK(box')
  BY DEF SyncInv, MailboxOK
<1>2. ASSUME NEW q \in DOMAIN pass PROVE PassTidy(box', outgoing', past', db', pass[q])
  <2> DEFINE t == pass[q]
  <2>1. t.tx \in Mailbox /\ t.snap \in Mailbox /\ Grows(t.snap, db)
    BY PassHas
  <2>2. PassTidy(box, outgoing, past, db, t)
    BY DEF TwiceInv
  <2> HIDE DEF t
  <2>3. Tidy(box', outgoing', past', t.tx)
    BY <1>1, <2>1, <2>2, TidyBox DEF PassTidy, Told
  <2>4. Follows(t.snap, db')
    BY <1>1, <2>1, <2>2, FollowsOn DEF PassTidy
  <2> QED BY <2>2, <2>3, <2>4 DEF PassTidy, t
<1>3. \A q \in DOMAIN pass' : PassTidy(box', outgoing', past', db', pass'[q])
  BY <1>2
<1> QED BY <1>3 DEF TwiceInv, Told

LEMMA MailboxStep ==
  ASSUME SyncInv, SyncInv', TwiceInv, Told, box' = box,
         outgoing' \in [Own -> Sendings], Onward(outgoing, outgoing'),
         Tidy(box, outgoing', past', db'), Follows(db, db'), db.rescanned \subseteq db'.rescanned,
         \A q \in DOMAIN pass' : \/ q \in DOMAIN pass /\ pass'[q] = pass[q]
                                 \/ PassTidy(box, outgoing', past', db', pass'[q])
  PROVE  TwiceInv'
<1>1. Apart(box, past') /\ OwnPlaces(box, past', outgoing')
  BY PlacesLater DEF TwiceInv, Told
<1>2. Stays(box, box', past') /\ FromThere(box, box', past')
  BY SameBox DEF SyncInv
<1> QED BY <1>1, <1>2, TwiceStep

LEMMA SameMailbox ==
  ASSUME SyncInv, TwiceInv, Told, outgoing' = outgoing
  PROVE  /\ Follows(db, db) /\ outgoing' \in [Own -> Sendings] /\ Onward(outgoing, outgoing')
         /\ Tidy(box, outgoing', past', db)
<1>1. db \in Mailbox /\ BoxOK(box)
  BY MailboxIs
<1>2. \A f \in Folders : db.last[f] <= db.last[f]
  BY <1>1 DEF Mailbox
<1>3. Onward(outgoing, outgoing') /\ outgoing' \in [Own -> Sendings]
  BY DEF Onward, TwiceInv
<1>4. Stays(box, box, past') /\ FromThere(box, box, past')
  BY <1>1, SameBox
<1>5. Tidy(box, outgoing', past', db)
  BY <1>1, <1>3, <1>4, TidyBox DEF TwiceInv, Told
<1> QED BY <1>2, <1>3, <1>5 DEF Follows

\* A step of the passes: db is as it was.
LEMMA PassesStep ==
  ASSUME SyncInv, SyncInv', TwiceInv, Told, box' = box, db' = db, outgoing' = outgoing,
         \A q \in DOMAIN pass' : \/ q \in DOMAIN pass /\ pass'[q] = pass[q]
                                 \/ PassTidy(box, outgoing, past, db, pass'[q])
  PROVE  TwiceInv'
<1>1. ASSUME NEW q \in DOMAIN pass', PassTidy(box, outgoing, past, db, pass'[q])
      PROVE  PassTidy(box, outgoing', past', db, pass'[q])
  <2>1. pass'[q].tx \in Mailbox /\ BoxOK(box)
    BY DEF SyncInv, PassOK, Passes
  <2>2. Onward(outgoing, outgoing') /\ Stays(box, box, past') /\ FromThere(box, box, past')
    BY <2>1, SameBox DEF Onward
  <2>3. Tidy(box, outgoing', past', pass'[q].tx)
    BY <1>1, <2>1, <2>2, TidyBox DEF PassTidy, Told
  <2> QED BY <1>1, <2>3 DEF PassTidy
<1> QED BY <1>1, SameMailbox, MailboxStep

\* A handler.
LEMMA LeavingStep ==
  ASSUME SyncInv, SyncInv', TwiceInv, Told, box' = box, pass' = pass, outgoing' \in [Own -> Sendings],
         Onward(outgoing, outgoing'), NEW O \in SUBSET Own, Leaves(db, db', O),
         \A o \in O : outgoing[o].at \notin {"filed", "kept"} /\ outgoing'[o].at \in {"filed", "kept"}
  PROVE  TwiceInv'
<1>1. db \in Mailbox /\ db' \in Mailbox /\ BoxOK(box)
  BY DEF SyncInv, MailboxOK
<1>2. Follows(db, db') /\ db.rescanned \subseteq db'.rescanned
  BY <1>1, LeavesFollows
<1>3. Tidy(box, outgoing', past, db')
  BY <1>1, TidyLeaves DEF TwiceInv
<1>4. Stays(box, box, past') /\ FromThere(box, box, past')
  BY <1>1, SameBox
<1>5. Onward(outgoing', outgoing')
  BY DEF Onward
<1>6. Tidy(box, outgoing', past', db')
  BY <1>1, <1>3, <1>4, <1>5, TidyBox DEF Told
<1> QED BY <1>2, <1>6, MailboxStep

LEMMA QuietStep ==
  ASSUME SyncInv, SyncInv', TwiceInv, Told, box' = box, pass' = pass, outgoing' = outgoing, Leaves(db, db', {})
  PROVE  TwiceInv'
<1>1. outgoing' \in [Own -> Sendings] /\ Onward(outgoing, outgoing')
  BY DEF TwiceInv, Onward
<1> QED BY <1>1, LeavingStep

LEMMA RowHandlersTwice ==
  ASSUME SyncInv, SyncInv', TwiceInv, NEW I \in Chosen,
         \/ HardDelete(I)
         \/ \E v \in BOOLEAN : MarkRead(I, v) \/ _junk(I, v)
         \/ \E f \in Folders \ db.dropped : MoveTo(I, f)
  PROVE  TwiceInv'
<1>1. box' = box /\ pass' = pass /\ outgoing' = outgoing /\ past' = [past EXCEPT !.handled = @ + 1]
  BY DEF HardDelete, MarkRead, _junk, MoveTo, Handles, Tallied
<1>2. Told
  BY <1>1, ToldIs
<1>3. Leaves(db, db', {})
  <2>1. CASE HardDelete(I)
    BY <2>1, HardDeleteStep
  <2>2. CASE \E v \in BOOLEAN : MarkRead(I, v) \/ _junk(I, v)
    BY <2>2, MarkReadStep, JunkStep
  <2>3. CASE \E f \in Folders \ db.dropped : MoveTo(I, f)
    BY <2>3, MoveToStep
  <2> QED BY <2>1, <2>2, <2>3
<1> QED BY <1>1, <1>2, <1>3, QuietStep

LEMMA OtherHandlersTwice ==
  ASSUME SyncInv, SyncInv', TwiceInv,
         \/ \E k \in DOMAIN db.rules : RunRule(k)
         \/ \E f \in Folders : empty_folder(f)
         \/ \E b \in BOOLEAN : resync(b)
         \/ delete_folder \/ update_account \/ delete_account \/ create_account
  PROVE  TwiceInv'
<1>1. box' = box /\ pass' = pass /\ outgoing' = outgoing
  BY DEF RunRule, empty_folder, resync, delete_folder, update_account, delete_account, create_account,
         AsksBack, Handles
<1>2. Told
  <2>1. CASE (\E k \in DOMAIN db.rules : RunRule(k)) \/ \E f \in Folders : empty_folder(f)
    <3>1. past' = [past EXCEPT !.handled = @ + 1]
      BY <2>1 DEF RunRule, empty_folder, Tallied
    <3> QED BY <3>1, ToldIs
  <2>2. CASE (\E b \in BOOLEAN : resync(b)) \/ create_account
    <3>1. past' = [past EXCEPT !.handled = @ + 1, !.passes = @ + 1]
      BY <2>2 DEF resync, create_account, AsksBack
    <3> QED BY <3>1, ToldIs
  <2>3. CASE delete_folder
    <3>1. \E n, x : past' = [past EXCEPT !.handled = n, !.carried = x]
      BY <2>3 DEF delete_folder
    <3> QED BY <3>1, ToldIs
  <2>4. CASE update_account \/ delete_account
    <3>1. past' = [past EXCEPT !.handled = @ + 1]
      BY <2>4 DEF update_account, delete_account
    <3> QED BY <3>1, ToldIs
  <2> QED BY <2>1, <2>2, <2>3, <2>4
<1>3. Leaves(db, db', {})
  BY RunRuleStep, EmptyFolderStep, ResyncStep, DeleteFolderStep, AccountSteps
<1> QED BY <1>1, <1>2, <1>3, QuietStep

\* The row of an own mail is filed: there is no other, unless the provider kept a copy.
LEMMA FiledTwice ==
  ASSUME SyncInv, SyncInv', TwiceInv, NEW o \in Own, Filed(o)
  PROVE  TwiceInv'
<1>1. /\ ViewsOK /\ box' = box /\ pass' = pass /\ past' = past
      /\ outgoing[o].at = "accepted" /\ outgoing' = [outgoing EXCEPT ![o] = [at |-> "filed", rows |-> <<>>]]
  BY DEF Filed, TwiceInv, ViewsOK
<1>2. Told
  BY <1>1, ToldIs
<1>3. /\ outgoing' \in [Own -> Sendings] /\ Onward(outgoing, outgoing')
      /\ outgoing[o].at \notin {"filed", "kept"} /\ outgoing'[o].at \in {"filed", "kept"}
  <2>1. [at |-> "filed", rows |-> <<>>] \in Sendings
    BY EmptySeq DEF Sendings, Stages
  <2> QED BY <1>1, <2>1 DEF ViewsOK, Onward
<1>4. Leaves(db, db', {o})
  BY <1>1, FiledStep
<1> QED BY <1>1, <1>2, <1>3, <1>4, LeavingStep

LEMMA AskingTwice ==
  ASSUME SyncInv, SyncInv', TwiceInv,
         \/ NotStarted \/ PollDue \/ IdleStarts \/ IdleStops \/ IdleSync
         \/ \E p \in Kinds : ConnectFails(p)
         \/ \E p \in DOMAIN pass : RollBack(p)
         \/ UNCHANGED syncVars
  PROVE  TwiceInv'
<1>1. box' = box /\ db' = db /\ outgoing' = outgoing
  BY DEF NotStarted, PollDue, IdleStarts, IdleStops, IdleSync, ConnectFails, RollBack, syncVars
<1>2. \/ past' = past
      \/ past' = [past EXCEPT !.passes = @ + 1]
      \/ past' = [past EXCEPT !.breaks = @ + 1]
  BY DEF NotStarted, PollDue, IdleStarts, IdleStops, IdleSync, ConnectFails, RollBack, Ask, syncVars
<1>3. Told
  BY <1>2, ToldIs
<1>4. \A q \in DOMAIN pass' : q \in DOMAIN pass /\ pass'[q] = pass[q]
  <2>1. pass' = pass \/ \E p \in DOMAIN pass : pass' = Without(p)
    BY DEF NotStarted, PollDue, IdleStarts, IdleStops, IdleSync, ConnectFails, RollBack, syncVars
  <2> QED BY <2>1 DEF Without
<1> QED BY <1>1, <1>3, <1>4, PassesStep

\* A pass begins with the rows that are there.
LEMMA StartTwice ==
  ASSUME SyncInv, SyncInv', TwiceInv, NEW p \in Kinds, Start(p)
  PROVE  TwiceInv'
<1>1. box' = box /\ db' = db /\ outgoing' = outgoing /\ past' = past
  BY DEF Start
<1>2. Told
  BY <1>1, ToldIs
<1>3. db \in Mailbox /\ BoxOK(box)
  BY MailboxIs
<1> DEFINE tx == [db EXCEPT !.paths = @ \cup Served]
<1>4. /\ tx \in Mailbox /\ tx.rows = db.rows /\ tx.last = db.last /\ tx.moved = db.moved
      /\ tx.rescanned = db.rescanned
  BY <1>3, FoldersAre DEF Mailbox
<1> HIDE DEF tx
<1>5. Tidy(box, outgoing, past, tx)
  BY <1>4 DEF TwiceInv, Tidy, Homed, PassedBy, Twins, Explained, OwnFiled
<1>6. Keyed(db, tx)
  BY <1>4 DEF Keyed
<1>7. Follows(db, db)
  BY <1>1, <1>2, SameMailbox
<1>8. \A q \in DOMAIN pass' :
        \/ q \in DOMAIN pass /\ pass'[q] = pass[q]
        \/ /\ pass'[q].tx = tx /\ pass'[q].snap = db /\ pass'[q].at = "none" /\ pass'[q].uids = {}
  BY DEF Start, tx
<1>9. \A q \in DOMAIN pass' : \/ q \in DOMAIN pass /\ pass'[q] = pass[q]
                              \/ PassTidy(box, outgoing, past, db, pass'[q])
  BY <1>1, <1>5, <1>6, <1>7, <1>8 DEF PassTidy
<1> QED BY <1>1, <1>2, <1>9, PassesStep

\* A pass goes on to the next folder, or begins to search it.
LEMMA SelectedTidy ==
  ASSUME valid \in [Served -> Nat], NEW b, NEW h, NEW og, NEW d \in Mailbox, Tidy(b, og, h, d), NEW s,
         NEW f \in Served
  PROVE  LET e == Selected(d, f) IN
         /\ e \in Mailbox /\ Tidy(b, og, h, e)
         /\ Keyed(s, d) => Keyed(s, e)
<1> DEFINE e == Selected(d, f)
<1>1. /\ e \in Mailbox /\ e.rows = d.rows /\ e.moved = d.moved /\ e.keys = d.keys
      /\ d.rescanned \subseteq e.rescanned
      /\ e.rescanned = {} => e.last = d.last
  BY SelectedIs
<1> HIDE DEF e
<1>2. Leaves(d, e, {})
  BY <1>1 DEF Leaves
<1>3. Onward(og, og)
  BY DEF Onward
<1>4. Tidy(b, og, h, e)
  BY <1>1, <1>2, <1>3, TidyLeaves
<1>5. Keyed(s, d) => Keyed(s, e)
  BY <1>1 DEF Keyed
<1> QED BY <1>1, <1>4, <1>5 DEF e

LEMMA GoingOnTwice ==
  ASSUME SyncInv, SyncInv', TwiceInv, NEW p \in DOMAIN pass, PassBy(p) \/ FolderFails(p)
  PROVE  TwiceInv'
<1> DEFINE
  f == Order[Min(pass[p].todo)]
<1>1. /\ box' = box /\ db' = db /\ outgoing' = outgoing
      /\ pass[p].at = "none" /\ pass[p].todo # {}
  BY DEF PassBy, FolderFails
<1>2. PICK d \in {pass[p].tx, Selected(pass[p].tx, f)} :
        pass' = [pass EXCEPT ![p].tx = d, ![p].todo = Later(@)]
  BY DEF PassBy, FolderFails, NextFolder
<1>3. f \in Served /\ pass[p].tx \in Mailbox /\ PassTidy(box, outgoing, past, db, pass[p])
  BY <1>1, PassIs, TurnIs DEF Passes, TwiceInv
<1> HIDE DEF f
<1>4. Tidy(box, outgoing, past, d) /\ Keyed(pass[p].snap, d)
  BY <1>2, <1>3, PassIs, SelectedTidy DEF PassTidy
<1> DEFINE t == [pass[p] EXCEPT !.tx = d, !.todo = Later(@)]
<1>5. pass' = [pass EXCEPT ![p] = t]
  BY <1>2, PassIs DEF Passes
<1>6. t.tx = d /\ t.snap = pass[p].snap /\ t.at = "none"
  BY <1>1, PassIs DEF Passes
<1> HIDE DEF t
<1>7. PassTidy(box, outgoing, past, db, t)
  BY <1>3, <1>4, <1>6 DEF PassTidy
<1>8. \A q \in DOMAIN pass' : (q = p /\ pass'[q] = t) \/ (q \in DOMAIN pass /\ pass'[q] = pass[q])
  BY <1>5, PassIs
<1>9. Told
  <2>1. past' = past \/ past' = [past EXCEPT !.breaks = @ + 1]
    BY DEF PassBy, FolderFails
  <2> QED BY <2>1, ToldIs
<1> QED BY <1>1, <1>7, <1>8, <1>9, PassesStep

LEMMA SearchTwice ==
  ASSUME SyncInv, SyncInv', TwiceInv, NEW p \in DOMAIN pass, Search(p)
  PROVE  TwiceInv'
<1> DEFINE
  f == Order[Min(pass[p].todo)]
  d == Selected(pass[p].tx, f)
  new == Unseen(d, f)
  t == [pass[p] EXCEPT !.tx = d, !.at = f, !.uids = Lowest(new)]
<1>1. /\ box' = box /\ db' = db /\ outgoing' = outgoing /\ past' = past /\ pass[p].todo # {}
      /\ pass' = [pass EXCEPT ![p].tx = d, ![p].at = f, ![p].uids = Lowest(new)]
  BY DEF Search, NextFolder, Unseen
<1>2. f \in Served /\ pass[p].tx \in Mailbox /\ PassTidy(box, outgoing, past, db, pass[p])
  BY <1>1, PassIs, TurnIs DEF Passes, TwiceInv
<1>3. \A u \in Lowest(new) : u > d.last[f]
  BY DEF Lowest, Unseen
<1> HIDE DEF f
<1>4. Tidy(box, outgoing, past, d) /\ Keyed(pass[p].snap, d)
  BY <1>2, PassIs, SelectedTidy DEF PassTidy
<1> HIDE DEF d, new
<1>5. pass' = [pass EXCEPT ![p] = t]
  BY <1>1, PassIs DEF Passes
<1>6. t.tx = d /\ t.snap = pass[p].snap /\ t.at = f /\ t.uids = Lowest(new)
  BY PassIs DEF Passes
<1> HIDE DEF t
<1>7. PassTidy(box, outgoing, past, db, t)
  BY <1>2, <1>3, <1>4, <1>6 DEF PassTidy
<1>8. \A q \in DOMAIN pass' : (q = p /\ pass'[q] = t) \/ (q \in DOMAIN pass /\ pass'[q] = pass[q])
  BY <1>5, PassIs
<1>9. Told
  BY <1>1, ToldIs
<1> QED BY <1>1, <1>7, <1>8, <1>9, PassesStep

\* The server.  One more mail in a folder; mails at some places gone.
Came(b, c, f, m) ==
  /\ \A g \in Served \ {f} : c[g] = b[g]
  /\ \A u \in DOMAIN b[f] : u \in DOMAIN c[f] /\ c[f][u] = b[f][u]
  /\ \E w \in DOMAIN c[f] \ DOMAIN b[f] : c[f][w] = m /\ \A u \in DOMAIN c[f] : u = w \/ u \in DOMAIN b[f]
Blanked(b, c, X) ==
  \A g \in Served : /\ DOMAIN c[g] = DOMAIN b[g]
                    /\ \A u \in DOMAIN b[g] : c[g][u] = b[g][u] \/ (c[g][u] = Gone /\ b[g][u] \in X)
\* What a change of the server does for the history k.
Keeps(b, c, k, og) ==
  /\ Stays(b, c, k) /\ FromThere(b, c, k)
  /\ Apart(b, k) => Apart(c, k)
  /\ OwnPlaces(b, k, og) => OwnPlaces(c, k, og)

LEMMA CameIs ==
  ASSUME NEW b, BoxOK(b), NEW f \in Served, NEW m
  PROVE  Came(b, [b EXCEPT ![f] = Append(@, m)], f, m)
<1> DEFINE c == [b EXCEPT ![f] = Append(@, m)]
<1>1. /\ b[f] \in Seq(AllMails \cup {Gone}) /\ Len(b[f]) \in Nat /\ DOMAIN b[f] = 1..Len(b[f])
  BY Uids
<1>2. b[f] \in Seq(AllMails \cup {Gone, m})
  BY <1>1, SequencesIn
<1>3. /\ DOMAIN Append(b[f], m) = 1..(Len(b[f]) + 1) /\ Append(b[f], m)[Len(b[f]) + 1] = m
      /\ \A u \in 1..Len(b[f]) : Append(b[f], m)[u] = b[f][u]
  BY <1>2, AppendProperties
<1>4. c[f] = Append(b[f], m) /\ \A g \in Served \ {f} : c[g] = b[g]
  BY DEF BoxOK
<1> HIDE DEF c
<1>5. Len(b[f]) + 1 \in DOMAIN c[f] \ DOMAIN b[f]
  BY <1>1, <1>3, <1>4
<1>6. \A u \in DOMAIN c[f] : u = Len(b[f]) + 1 \/ u \in DOMAIN b[f]
  BY <1>1, <1>3, <1>4
<1> QED BY <1>1, <1>3, <1>4, <1>5, <1>6 DEF Came, c

LEMMA CameKeeps ==
  ASSUME NEW b, BoxOK(b), NEW c, NEW f \in Served, NEW m, Came(b, c, f, m), NEW k, NEW og,
         m \in Excepted(k) \/ ~Somewhere(b, m),
         m \in Own \ Excepted(k) => f = "sent" /\ og[m].at = "kept"
  PROVE  Keeps(b, c, k, og)
<1>1. PICK w \in DOMAIN c[f] \ DOMAIN b[f] :
        c[f][w] = m /\ \A u \in DOMAIN c[f] : u = w \/ u \in DOMAIN b[f]
  BY DEF Came
<1>2. \A g \in Served : \A u \in DOMAIN b[g] : u \in DOMAIN c[g] /\ c[g][u] = b[g][u]
  BY DEF Came
<1>3. \A g \in Served : \A u \in DOMAIN c[g] : \/ u \in DOMAIN b[g] /\ c[g][u] = b[g][u]
                                               \/ g = f /\ u = w /\ c[g][u] = m
  BY <1>1 DEF Came
<1>4. Stays(b, c, k)
  BY <1>2 DEF Stays, LiesIn, Lies
<1>5. FromThere(b, c, k)
  <2>1. \A g \in Served : \A u \in DOMAIN b[g] : u <= u
    BY Uids
  <2> QED BY <1>3, <2>1 DEF FromThere
<1>6. ASSUME m \notin Excepted(k) PROVE \A g \in Served : \A u \in DOMAIN b[g] : b[g][u] # m
  BY <1>6 DEF Somewhere, LiesIn
<1>7. Apart(b, k) => Apart(c, k)
  <2>1. SUFFICES ASSUME Apart(b, k), NEW g \in Served, NEW h \in Served, NEW u \in DOMAIN c[g], NEW v \in DOMAIN c[h],
                        c[g][u] = c[h][v], c[g][u] \notin Excepted(k) \cup {Gone}
                 PROVE  g = h /\ u = v
    BY DEF Apart
  <2>2. CASE u \in DOMAIN b[g] /\ c[g][u] = b[g][u] /\ v \in DOMAIN b[h] /\ c[h][v] = b[h][v]
    <3>1. b[g][u] = b[h][v] /\ b[g][u] \notin Excepted(k) \cup {Gone}
      BY <2>1, <2>2
    <3>2. u \in DOMAIN b[g] /\ v \in DOMAIN b[h]
      BY <2>2
    <3> QED BY <2>1, <3>1, <3>2 DEF Apart
  <2>3. CASE c[g][u] = m
    <3>1. m \notin Excepted(k)
      BY <2>1, <2>3
    <3>2. ASSUME NEW x \in Served, NEW y \in DOMAIN c[x], c[x][y] = m PROVE x = f /\ y = w
      BY <1>3, <1>6, <3>1, <3>2
    <3> QED BY <2>1, <2>3, <3>2
  <2>4. c[g][u] = m \/ (u \in DOMAIN b[g] /\ c[g][u] = b[g][u])
    BY <1>3
  <2>5. c[h][v] = m \/ (v \in DOMAIN b[h] /\ c[h][v] = b[h][v])
    BY <1>3
  <2> QED BY <2>1, <2>2, <2>3, <2>4, <2>5
<1>8. OwnPlaces(b, k, og) => OwnPlaces(c, k, og)
  BY <1>3 DEF OwnPlaces
<1> QED BY <1>4, <1>5, <1>7, <1>8 DEF Keeps

LEMMA BlankIs ==
  ASSUME NEW b, BoxOK(b), NEW f \in Served, NEW u \in DOMAIN b[f]
  PROVE  Blanked(b, [b EXCEPT ![f][u] = Gone], {b[f][u]})
<1> DEFINE
  s == [b[f] EXCEPT ![u] = Gone]
  c == [b EXCEPT ![f] = s]
<1>1. [b EXCEPT ![f][u] = Gone] = c
  OBVIOUS
<1>2. DOMAIN s = DOMAIN b[f] /\ \A v \in DOMAIN b[f] : s[v] = IF v = u THEN Gone ELSE b[f][v]
  <2>1. b[f] \in Seq(AllMails \cup {Gone}) /\ DOMAIN b[f] = 1..Len(b[f])
    BY Uids
  <2> QED BY <2>1
<1> HIDE DEF s
<1>3. c[f] = s /\ \A g \in Served \ {f} : c[g] = b[g]
  BY DEF BoxOK
<1> HIDE DEF c
<1> QED BY <1>1, <1>2, <1>3 DEF Blanked

LEMMA BlankKeeps ==
  ASSUME NEW b, BoxOK(b), NEW c, NEW k, NEW X, X \subseteq Excepted(k), Blanked(b, c, X), NEW og
  PROVE  Keeps(b, c, k, og)
<1>1. \A g \in Served : /\ DOMAIN c[g] = DOMAIN b[g]
                        /\ \A u \in DOMAIN b[g] : \/ c[g][u] = b[g][u]
                                                  \/ c[g][u] = Gone /\ b[g][u] \in Excepted(k)
  BY DEF Blanked
<1>2. Stays(b, c, k)
  BY <1>1 DEF Stays, LiesIn, Lies
<1>3. FromThere(b, c, k)
  <2>1. \A g \in Served : \A u \in DOMAIN b[g] : u <= u
    BY Uids
  <2> QED BY <1>1, <2>1 DEF FromThere
<1>4. Apart(b, k) => Apart(c, k)
  BY <1>1 DEF Apart
<1>5. OwnPlaces(b, k, og) => OwnPlaces(c, k, og)
  <2>1. Gone \notin Own
    BY SyncAssumption DEF AllMails
  <2> QED BY <1>1, <2>1 DEF OwnPlaces
<1> QED BY <1>2, <1>3, <1>4, <1>5 DEF Keeps

LEMMA KeepsTwice ==
  ASSUME NEW b, BoxOK(b), NEW c, BoxOK(c), NEW e, BoxOK(e), NEW k, NEW og, Keeps(b, c, k, og), Keeps(c, e, k, og)
  PROVE  Keeps(b, e, k, og)
<1>1. ASSUME NEW m, m \notin Excepted(k), m # Gone
      PROVE  /\ \A f : LiesIn(b, f, m) => LiesIn(c, f, m)
             /\ \A f : LiesIn(c, f, m) => LiesIn(e, f, m)
             /\ \A f, u : f \notin k.renumbered /\ Lies(b, f, u, m) => Lies(c, f, u, m)
             /\ \A f, u : f \notin k.renumbered /\ Lies(c, f, u, m) => Lies(e, f, u, m)
  BY <1>1 DEF Keeps, Stays, LiesIn, Lies
<1>2. Stays(b, e, k)
  <2>1. ASSUME NEW f \in Served, NEW u \in DOMAIN b[f], b[f][u] \notin Excepted(k) \cup {Gone}
        PROVE  LiesIn(e, f, b[f][u]) /\ (f \notin k.renumbered => Lies(e, f, u, b[f][u]))
    <3>1. LiesIn(b, f, b[f][u]) /\ Lies(b, f, u, b[f][u])
      BY DEF LiesIn, Lies
    <3> QED BY <1>1, <2>1, <3>1
  <2> QED BY <2>1 DEF Stays
<1>3. FromThere(b, e, k)
  <2>1. SUFFICES ASSUME NEW f \in Served, NEW v \in DOMAIN e[f], e[f][v] \notin Excepted(k) \cup {Gone},
                        Somewhere(b, e[f][v])
                 PROVE  \E u \in DOMAIN b[f] : b[f][u] = e[f][v] /\ v <= u
    BY DEF FromThere
  <2>2. Somewhere(c, e[f][v])
    BY <1>1, <2>1 DEF Somewhere
  <2>3. PICK w \in DOMAIN c[f] : c[f][w] = e[f][v] /\ v <= w
    BY <2>1, <2>2 DEF Keeps, FromThere
  <2>4. PICK u \in DOMAIN b[f] : b[f][u] = c[f][w] /\ w <= u
    BY <2>1, <2>3 DEF Keeps, FromThere
  <2>5. u \in Nat /\ w \in Nat /\ v \in Nat
    BY Uids
  <2> QED BY <2>3, <2>4, <2>5
<1> QED BY <1>2, <1>3 DEF Keeps

\* A folder is renumbered: the mails that are left have the order that they had.
LEMMA RenumberKeeps ==
  ASSUME NEW b, BoxOK(b), NEW f \in Served, NEW k, f \in k.renumbered, NEW og
  PROVE  Keeps(b, [b EXCEPT ![f] = Kept(@)], k, og)
<1> DEFINE
  s == Kept(b[f])
  c == [b EXCEPT ![f] = s]
<1>1. b[f] \in Seq(AllMails \cup {Gone})
  BY Uids
<1>2. s \in Seq(AllMails \cup {Gone}) /\ Gleaned(b[f], DOMAIN b[f], s)
  BY <1>1, KeptType
<1> HIDE DEF s
<1>3. c[f] = s /\ \A g \in Served \ {f} : c[g] = b[g]
  BY DEF BoxOK
<1> HIDE DEF c
<1>4. /\ \A j \in DOMAIN c[f] : \E i \in DOMAIN b[f] : j <= i /\ b[f][i] = c[f][j]
      /\ \A i \in DOMAIN b[f] : b[f][i] # Gone => \E j \in DOMAIN c[f] : c[f][j] = b[f][i]
      /\ \A j, l \in DOMAIN c[f] : j # l /\ c[f][j] = c[f][l] =>
           \E i, x \in DOMAIN b[f] : i # x /\ b[f][i] = c[f][j] /\ b[f][x] = c[f][j]
  BY <1>2, <1>3 DEF Gleaned
<1>5. Stays(b, c, k)
  BY <1>3, <1>4 DEF Stays, LiesIn, Lies
<1>6. FromThere(b, c, k)
  <2>1. \A g \in Served : \A u \in DOMAIN b[g] : u <= u
    BY Uids
  <2> QED BY <1>3, <1>4, <2>1 DEF FromThere
<1>7. \A g \in Served : \A v \in DOMAIN c[g] : \E u \in DOMAIN b[g] : b[g][u] = c[g][v]
  BY <1>3, <1>4
<1>8. Apart(b, k) => Apart(c, k)
  <2>1. SUFFICES ASSUME Apart(b, k), NEW g \in Served, NEW h \in Served, NEW u \in DOMAIN c[g], NEW v \in DOMAIN c[h],
                        c[g][u] = c[h][v], c[g][u] \notin Excepted(k) \cup {Gone}
                 PROVE  g = h /\ u = v
    BY DEF Apart
  <2>2. g = h
    BY <1>7, <2>1 DEF Apart
  <2>3. CASE g = f
    BY <1>4, <2>1, <2>2, <2>3 DEF Apart
  <2>4. CASE g # f
    BY <1>3, <2>1, <2>2, <2>4 DEF Apart
  <2> QED BY <2>2, <2>3, <2>4
<1>9. OwnPlaces(b, k, og) => OwnPlaces(c, k, og)
  BY <1>7 DEF OwnPlaces
<1>10. Keeps(b, c, k, og)
  BY <1>5, <1>6, <1>8, <1>9 DEF Keeps
<1> QED BY <1>10 DEF c, s

LEMMA ServerStep ==
  ASSUME SyncInv, SyncInv', TwiceInv, Told, db' = db, pass' = pass, outgoing' \in [Own -> Sendings],
         Onward(outgoing, outgoing'), Keeps(box, box', past', outgoing')
  PROVE  TwiceInv'
<1>1. db \in Mailbox /\ BoxOK(box) /\ BoxOK(box')
  BY MailboxIs DEF SyncInv
<1>2. Stays(box, box', past') /\ FromThere(box, box', past')
  BY DEF Keeps
<1>3. Apart(box', past') /\ OwnPlaces(box', past', outgoing')
  BY PlacesLater DEF TwiceInv, Told, Keeps
<1>4. Tidy(box', outgoing', past', db)
  BY <1>1, <1>2, TidyBox DEF TwiceInv, Told
<1>5. \A f \in Folders : db.last[f] <= db.last[f]
  BY <1>1 DEF Mailbox
<1>6. Follows(db, db)
  BY <1>5 DEF Follows
<1> QED BY <1>2, <1>3, <1>4, <1>6, TwiceStep

LEMMA ArriveTwice ==
  ASSUME SyncInv, SyncInv', TwiceInv, NEW m \in Mails, Arrive(m)
  PROVE  TwiceInv'
<1>1. /\ box' = [box EXCEPT !["inbox"] = Append(@, m)] /\ db' = db /\ pass' = pass /\ outgoing' = outgoing
      /\ past' = [past EXCEPT !.server = @ + 1] /\ \A f \in Served : m \notin Range(box[f])
  BY DEF Arrive
<1>2. Told /\ outgoing' \in [Own -> Sendings] /\ Onward(outgoing, outgoing')
  BY <1>1, ToldIs DEF TwiceInv, Onward
<1>3. ~Somewhere(box, m) /\ m \notin Own /\ BoxOK(box) /\ "inbox" \in Served
  BY <1>1, SyncAssumption, MailboxIs, FoldersAre DEF Somewhere, LiesIn, Range
<1>4. Keeps(box, box', past', outgoing')
  BY <1>1, <1>3, CameIs, CameKeeps
<1> QED BY <1>1, <1>2, <1>4, ServerStep

LEMMA ExpungeTwice ==
  ASSUME SyncInv, SyncInv', TwiceInv, NEW f \in Served, NEW u \in DOMAIN box[f], Expunge(f, u)
  PROVE  TwiceInv'
<1> DEFINE m == box[f][u]
<1>1. PICK g \in {f, "work", "trash"} :
        /\ box' = IF g = f THEN [box EXCEPT ![f][u] = Gone]
                  ELSE [box EXCEPT ![f][u] = Gone, ![g] = Append(@, m)]
        /\ past' = [past EXCEPT !.server = @ + 1, !.strayed = @ \cup {m}]
  BY DEF Expunge
<1>2. db' = db /\ pass' = pass /\ outgoing' = outgoing /\ m # Gone
  BY DEF Expunge, Present
<1>3. /\ {"strayed", "selfKept", "crossed", "renumbered"} \subseteq DOMAIN past
      /\ outgoing' \in [Own -> Sendings] /\ Onward(outgoing, outgoing')
  BY <1>2 DEF TwiceInv, Onward
<1>4. Told /\ m \in Excepted(past')
  <2> HIDE DEF m
  <2>1. /\ {"strayed", "selfKept", "crossed", "renumbered"} \subseteq DOMAIN past'
        /\ past'.strayed = past.strayed \cup {m} /\ past'.selfKept = past.selfKept
        /\ past'.crossed = past.crossed /\ past'.renumbered = past.renumbered
    BY <1>1, <1>3
  <2> QED BY <2>1 DEF Told, Longer, Excepted
<1>5. g \in Served /\ BoxOK(box) /\ BoxOK(box')
  BY FoldersAre DEF SyncInv
<1> DEFINE a == [box EXCEPT ![f][u] = Gone]
<1>6. BoxOK(a) /\ Keeps(box, a, past', outgoing')
  <2>1. BoxOK(a)
    BY <1>5, MailGoes
  <2>2. Blanked(box, a, {m})
    BY <1>5, BlankIs
  <2> HIDE DEF a, m
  <2> QED BY <1>4, <1>5, <2>1, <2>2, BlankKeeps
<1>7. CASE g = f
  BY <1>1, <1>2, <1>3, <1>4, <1>6, <1>7, ServerStep
<1>8. CASE g # f
  <2>1. box' = [a EXCEPT ![g] = Append(@, m)]
    BY <1>1, <1>8 DEF BoxOK
  <2> HIDE DEF a, m
  <2>2. Keeps(a, box', past', outgoing')
    BY <1>4, <1>5, <1>6, <2>1, CameIs, CameKeeps
  <2>3. Keeps(box, box', past', outgoing')
    BY <1>5, <1>6, <2>2, KeepsTwice
  <2> QED BY <1>2, <1>3, <1>4, <2>3, ServerStep
<1> QED BY <1>7, <1>8

LEMMA RenumberTwice ==
  ASSUME SyncInv, SyncInv', TwiceInv, NEW f \in Served, Renumber(f)
  PROVE  TwiceInv'
<1>1. /\ box' = [box EXCEPT ![f] = Kept(@)] /\ db' = db /\ pass' = pass /\ outgoing' = outgoing
      /\ past' = [past EXCEPT !.server = @ + 1, !.renumbered = @ \cup {f}]
  BY DEF Renumber
<1>2. /\ {"strayed", "selfKept", "crossed", "renumbered"} \subseteq DOMAIN past
      /\ outgoing' \in [Own -> Sendings] /\ Onward(outgoing, outgoing') /\ BoxOK(box)
  BY <1>1, MailboxIs DEF TwiceInv, Onward
<1>3. /\ {"strayed", "selfKept", "crossed", "renumbered"} \subseteq DOMAIN past'
      /\ past'.strayed = past.strayed /\ past'.selfKept = past.selfKept
      /\ past'.crossed = past.crossed /\ past'.renumbered = past.renumbered \cup {f}
  BY <1>1, <1>2
<1>4. Told /\ f \in past'.renumbered
  BY <1>3 DEF Told, Longer
<1>5. Keeps(box, box', past', outgoing')
  BY <1>1, <1>2, <1>4, RenumberKeeps
<1> QED BY <1>1, <1>2, <1>4, <1>5, ServerStep

\* The provider's copy makes an exception; the appended one is the first.
LEMMA SendingTwice ==
  ASSUME SyncInv, SyncInv', TwiceInv, NEW o \in Own, Sending(o) \/ Sent(o) \/ _append_to_sent(o)
  PROVE  TwiceInv'
<1>1. /\ db' = db /\ pass' = pass
      /\ {"strayed", "selfKept", "crossed", "renumbered"} \subseteq DOMAIN past
      /\ outgoing \in [Own -> Sendings] /\ BoxOK(box) /\ BoxOK(box') /\ "sent" \in Served
      /\ OwnPlaces(box, past, outgoing)
  BY FoldersAre DEF Sending, Sent, _append_to_sent, TwiceInv, SyncInv
<1>2. /\ outgoing' \in [Own -> Sendings] /\ Onward(outgoing, outgoing')
      /\ _append_to_sent(o) => outgoing[o].at = "filed" /\ outgoing'[o].at = "kept"
  <2>1. ViewsOK
    BY <1>1 DEF ViewsOK
  <2>2. PICK at \in Stages, rows \in Seq(MailRow) :
          /\ outgoing' = [outgoing EXCEPT ![o] = [at |-> at, rows |-> rows]]
          /\ _append_to_sent(o) => at = "kept"
    BY <2>1, OutgoingIs
  <2>3. outgoing[o].at # "kept"
    BY DEF Sending, Sent, _append_to_sent
  <2>4. outgoing[o].at = "filed" => _append_to_sent(o)
    BY DEF Sending, Sent
  <2>5. _append_to_sent(o) => outgoing[o].at = "filed"
    BY DEF _append_to_sent
  <2> QED BY <1>1, <2>2, <2>3, <2>4, <2>5 DEF Onward, Sendings
<1>3. CASE box' = box
  <2>1. \/ past' = past \/ past' = [past EXCEPT !.own = @ + 1]
        \/ past' = [past EXCEPT !.selfKept = @ \cup {o}]
    BY DEF Sending, Sent, _append_to_sent
  <2>2. /\ {"strayed", "selfKept", "crossed", "renumbered"} \subseteq DOMAIN past'
        /\ past'.strayed = past.strayed /\ past'.selfKept \in {past.selfKept, past.selfKept \cup {o}}
        /\ past'.crossed = past.crossed /\ past'.renumbered = past.renumbered
    BY <1>1, <2>1
  <2>3. Told
    BY <2>2 DEF Told, Longer
  <2>4. Keeps(box, box', past', outgoing')
    BY <1>1, <1>3, SameBox DEF Keeps
  <2> QED BY <1>1, <1>2, <2>3, <2>4, ServerStep
<1>4. CASE Sent(o) /\ box' # box
  <2>1. /\ box' = [box EXCEPT !["sent"] = Append(@, o)]
        /\ past' = [past EXCEPT !.selfKept = @ \cup {o}]
    BY <1>4 DEF Sent
  <2>2. /\ {"strayed", "selfKept", "crossed", "renumbered"} \subseteq DOMAIN past'
        /\ past'.strayed = past.strayed /\ past'.selfKept = past.selfKept \cup {o}
        /\ past'.crossed = past.crossed /\ past'.renumbered = past.renumbered
    BY <1>1, <2>1
  <2>3. Told /\ o \in Excepted(past')
    BY <2>2 DEF Told, Longer, Excepted
  <2>4. Keeps(box, box', past', outgoing')
    BY <1>1, <2>1, <2>3, CameIs, CameKeeps
  <2> QED BY <1>1, <1>2, <2>3, <2>4, ServerStep
<1>5. CASE _append_to_sent(o) /\ box' # box
  <2>1. box' = [box EXCEPT !["sent"] = Append(@, o)] /\ past' = past
    BY <1>5 DEF _append_to_sent
  <2>2. Told
    BY <2>1, ToldIs
  <2>3. o \in Excepted(past') \/ ~Somewhere(box, o)
    <3>1. SUFFICES ASSUME o \notin Excepted(past), Somewhere(box, o) PROVE FALSE
      BY <2>1
    <3>2. \E g \in Served : \E u \in DOMAIN box[g] : box[g][u] = o
      BY <3>1 DEF Somewhere, LiesIn
    <3>3. outgoing[o].at = "kept"
      BY <1>1, <3>1, <3>2 DEF OwnPlaces
    <3> QED BY <1>2, <1>5, <3>3
  <2>4. Keeps(box, box', past', outgoing')
    BY <1>1, <1>2, <1>5, <2>1, <2>3, CameIs, CameKeeps
  <2> QED BY <1>1, <1>2, <2>2, <2>4, ServerStep
<1>6. CASE Sending(o)
  BY <1>3, <1>6 DEF Sending
<1> QED BY <1>3, <1>4, <1>5, <1>6

\* What a pass stores.  A mail that is stored has a row already only where last_uid went
\* back or where the row left its folder, if the uid is beyond last_uid and not yet stored.
Filing(b, h, og, s, f, U, d) ==
  Homed(b, h, d) /\ PassedBy(b, h, d, f, U) /\ Twins(h, d) /\ OwnFiled(h, og, d) /\ Keyed(s, d)

LEMMA UpsertFiles ==
  ASSUME NEW b, NEW h, NEW og, Apart(b, h), OwnPlaces(b, h, og), NEW s, NEW f \in Served,
         NEW d \in Mailbox, NEW U, NEW u \in DOMAIN b[f], u \in Nat, u # NoUid, u \notin U, ~(u <= d.last[f]),
         NEW m, m = b[f][u], m \in AllMails, Filing(b, h, og, s, f, U, d), NEW e, Upserted(d, e, f, u, m)
  PROVE  Filing(b, h, og, s, f, U \cup {u}, e)
<1>1. /\ d.moved \subseteq e.moved /\ e.rescanned = d.rescanned /\ d.keys \subseteq e.keys /\ e.last = d.last
      /\ DOMAIN d.rows \subseteq DOMAIN e.rows
  BY DEF Upserted
<1>2. \A j \in DOMAIN d.rows :
        /\ e.rows[j].mail = d.rows[j].mail /\ e.rows[j].folder = d.rows[j].folder
        /\ e.rows[j].deleted = d.rows[j].deleted
        /\ \/ e.rows[j].uid = d.rows[j].uid
           \/ /\ e.rows[j].folder = f /\ e.rows[j].mail = m /\ e.rows[j].uid = u
              /\ d.rows[j].uid = NoUid
  BY DEF Upserted
<1>3. \A j \in DOMAIN e.rows : j \notin DOMAIN d.rows =>
        /\ e.rows[j].mail = m
        /\ \/ e.rows[j].folder = f /\ e.rows[j].uid = u
           \/ e.rows[j].uid = NoUid /\ m \in e.moved
        /\ <<f, u>> \in e.keys /\ SameMail(d, f, m) = {}
        /\ \A k \in DOMAIN e.rows : k \notin DOMAIN d.rows => k = j
  BY DEF Upserted
<1>4. m # Gone /\ (m \in Own => m \notin Unlabelled)
  BY SyncAssumption
<1>5. Lies(b, f, u, m) /\ LiesIn(b, f, m) /\ Somewhere(b, m)
  BY DEF Lies, LiesIn, Somewhere
<1>6. m \in Own \ Excepted(h) => f = "sent" /\ og[m].at = "kept"
  BY DEF OwnPlaces
<1>7. m \notin Excepted(h) =>
        \A g \in Served : \A v \in DOMAIN b[g] : b[g][v] = m => g = f /\ v = u
  BY <1>4 DEF Apart
<1>8. Homed(b, h, d) /\ PassedBy(b, h, d, f, U) /\ Twins(h, d) /\ OwnFiled(h, og, d) /\ Keyed(s, d)
  BY DEF Filing
<1>9. Homed(b, h, e)
  <2>1. ASSUME NEW j \in DOMAIN d.rows PROVE HomeOf(b, h, e.moved, e.rows[j])
    <3>1. HomeOf(b, h, d.moved, d.rows[j])
      BY <1>8 DEF Homed
    <3>2. CASE e.rows[j].uid = d.rows[j].uid
      BY <1>1, <1>2, <3>1, <3>2 DEF HomeOf
    <3>3. CASE e.rows[j].folder = f /\ e.rows[j].mail = m /\ e.rows[j].uid = u
      BY <1>1, <1>2, <1>5, <3>1, <3>3 DEF HomeOf
    <3> QED BY <1>2, <3>2, <3>3
  <2>2. ASSUME NEW j \in DOMAIN e.rows, j \notin DOMAIN d.rows PROVE HomeOf(b, h, e.moved, e.rows[j])
    BY <1>3, <1>5, <1>6, <2>2 DEF HomeOf
  <2> QED BY <2>1, <2>2 DEF Homed
<1>10. PassedBy(b, h, e, f, U \cup {u})
  <2>1. SUFFICES ASSUME e.rescanned = {}, NEW i \in DOMAIN e.rows, e.rows[i].mail \notin Excepted(h) \cup Own,
                        NEW g \in Served, NEW v \in DOMAIN b[g], b[g][v] = e.rows[i].mail
                 PROVE  v <= e.last[g] \/ (g = f /\ v \in U \cup {u})
    BY DEF PassedBy
  <2>2. CASE i \in DOMAIN d.rows
    BY <1>1, <1>2, <1>8, <2>1, <2>2 DEF PassedBy
  <2>3. CASE i \notin DOMAIN d.rows
    BY <1>3, <1>7, <2>1, <2>3
  <2> QED BY <2>2, <2>3
<1>11. ASSUME NEW i \in DOMAIN d.rows, d.rows[i].mail = m, ~d.rows[i].deleted, SameMail(d, f, m) = {},
              m \notin Excepted(h)
       PROVE  \/ e.rescanned # {} /\ m \in e.moved \cup Unlabelled
              \/ m \in e.moved \cap Own
  <2>1. HomeOf(b, h, d.moved, d.rows[i])
    BY <1>8 DEF Homed
  <2>2. d.rows[i].folder = f => m \in Unlabelled
    BY <1>11 DEF SameMail, Live
  <2>3. CASE m \in Own
    BY <1>1, <1>4, <1>6, <1>11, <2>1, <2>2, <2>3 DEF HomeOf
  <2>4. CASE m \notin Own
    <3>1. d.rescanned # {}
      BY <1>8, <1>11, <2>4 DEF PassedBy
    <3>2. m \notin d.moved => d.rows[i].folder = f
      BY <1>7, <1>11, <2>1, <2>4 DEF HomeOf, LiesIn
    <3> QED BY <1>1, <2>2, <3>1, <3>2
  <2> QED BY <2>3, <2>4
<1>12. Twins(h, e)
  <2>1. SUFFICES ASSUME NEW i \in DOMAIN e.rows, NEW j \in DOMAIN e.rows, i # j,
                        e.rows[i].mail = e.rows[j].mail, ~e.rows[i].deleted, ~e.rows[j].deleted
                 PROVE  Explained(h, e, e.rows[i].mail, e.rows[i].folder)
    BY DEF Twins
  <2>2. CASE i \in DOMAIN d.rows /\ j \in DOMAIN d.rows
    <3>1. Explained(h, d, d.rows[i].mail, d.rows[i].folder)
      BY <1>2, <1>8, <2>1, <2>2 DEF Twins
    <3> QED BY <1>1, <1>2, <2>2, <3>1 DEF Explained
  <2>3. ASSUME NEW n \in DOMAIN e.rows, n \notin DOMAIN d.rows, NEW o \in DOMAIN d.rows,
               e.rows[o].mail = e.rows[n].mail, ~e.rows[o].deleted, NEW g
        PROVE  Explained(h, e, m, g) /\ e.rows[n].mail = m
    BY <1>2, <1>3, <1>11, <2>3 DEF Explained
  <2> QED BY <1>3, <2>1, <2>2, <2>3
<1>13. OwnFiled(h, og, e)
  BY <1>2, <1>3, <1>6, <1>8 DEF OwnFiled
<1>14. Keyed(s, e)
  <2>1. SUFFICES ASSUME NEW j \in DOMAIN e.rows, j \notin DOMAIN s.rows, e.rows[j].mail \notin e.moved
                 PROVE  e.rows[j].uid # NoUid /\ <<e.rows[j].folder, e.rows[j].uid>> \in e.keys
    BY DEF Keyed
  <2>2. CASE j \in DOMAIN d.rows
    BY <1>1, <1>2, <1>8, <2>1, <2>2 DEF Keyed
  <2>3. CASE j \notin DOMAIN d.rows
    BY <1>3, <2>1, <2>3
  <2> QED BY <2>2, <2>3
<1> QED BY <1>9, <1>10, <1>12, <1>13, <1>14 DEF Filing

LEMMA StoredTidy ==
  ASSUME BoxOK(box), NEW h, NEW og, Apart(box, h), OwnPlaces(box, h, og), NEW s \in Mailbox, NEW d,
         Within(s, d, {}), Tidy(box, og, h, d), Keyed(s, d), NEW f \in Served, NEW U \in SUBSET Nat,
         \A u \in U : u > d.last[f]
  PROVE  Tidy(box, og, h, Stored(d, f, U)) /\ Keyed(s, Stored(d, f, U))
<1> DEFINE
  there == U \cap Present(f)
  n == Len(box[f])
  T == {x \in Mailbox : x.last = d.last}
  P == {y \in (SUBSET there) \X T : Filing(box, h, og, s, f, y[1], y[2])}
  a == UpsertedAll(d, f, there)
  e == Stored(d, f, U)
<1>1. /\ n \in Nat /\ there \in SUBSET (1..n) /\ f \in Folders /\ d \in Mailbox
      /\ \A u \in there : /\ u \in DOMAIN box[f] /\ box[f][u] \in AllMails
                          /\ u \in Nat /\ u # NoUid /\ ~(u <= d.last[f])
  <2>1. n \in Nat /\ DOMAIN box[f] = 1..n /\ \A u \in 1..n : box[f][u] \in AllMails \cup {Gone}
    BY Uids
  <2>2. there \in SUBSET (1..n) /\ \A u \in there : box[f][u] # Gone /\ u > d.last[f]
    BY <2>1 DEF Present
  <2>3. d \in Mailbox /\ f \in Folders /\ d.last[f] \in Nat
    BY FoldersAre DEF Within, Mailbox
  <2>4. \A u \in 1..n : u \in Nat /\ u # NoUid
    BY <2>1 DEF NoUid
  <2>5. \A u \in there : ~(u <= d.last[f])
    BY <2>2, <2>3, <2>4
  <2> HIDE DEF n, there
  <2> QED BY <2>1, <2>2, <2>3, <2>4, <2>5
<1> HIDE DEF n, there
<1>2. <<{}, d>> \in P
  <2>1. PassedBy(box, h, d, f, {})
    BY DEF Tidy, PassedBy
  <2>2. Filing(box, h, og, s, f, {}, d)
    BY <2>1 DEF Tidy, Filing
  <2> QED BY <1>1, <2>2
<1>3. ASSUME NEW x \in T, NEW u \in there
      PROVE  LET y == _upsert_message(x, f, u, box[f][u]) IN
             y \in T /\ Upserted(x, y, f, u, box[f][u])
  <2> DEFINE y == _upsert_message(x, f, u, box[f][u])
  <2>1. Upserted(x, y, f, u, box[f][u])
    BY <1>1, UpsertIs
  <2> HIDE DEF y
  <2>2. y \in T
    BY <2>1 DEF Upserted
  <2> QED BY <2>1, <2>2 DEF y
<1>4. ASSUME NEW V \in SUBSET there, NEW u \in V, NEW x \in T, <<V \ {u}, x>> \in P
      PROVE  <<V, _upsert_message(x, f, u, box[f][u])>> \in P
  <2> DEFINE y == _upsert_message(x, f, u, box[f][u])
  <2>1. y \in T /\ Upserted(x, y, f, u, box[f][u])
    BY <1>3
  <2> HIDE DEF y
  <2>2. Filing(box, h, og, s, f, V \ {u}, x) /\ x \in Mailbox /\ ~(u <= x.last[f])
    BY <1>1, <1>4
  <2>3. Filing(box, h, og, s, f, (V \ {u}) \cup {u}, y)
    BY <1>1, <2>1, <2>2, UpsertFiles
  <2>4. (V \ {u}) \cup {u} = V
    OBVIOUS
  <2>5. <<V, y>> \in P
    BY <2>1, <2>3, <2>4
  <2> QED BY <2>5 DEF y
<1>5. a \in T /\ <<there, a>> \in P
  <2>1. d \in T /\ \A x \in T : \A u \in there : _upsert_message(x, f, u, box[f][u]) \in T
    BY <1>1, <1>3
  <2> HIDE DEF P, T
  <2> QED BY <1>1, <1>2, <1>4, <2>1, UpsertedOnce
<1>6. a.last = d.last /\ Filing(box, h, og, s, f, there, a) /\ a \in Mailbox
  BY <1>5
<1>7. /\ \A g \in Folders \ {f} : e.last[g] = d.last[g]
      /\ e.rows = a.rows /\ SameMarks(a, e) /\ \A u \in there \cup {d.last[f]} : u <= e.last[f]
      /\ e \in Mailbox
  <2>1. UidsTrue(box, d, {})
    BY DEF UidsTrue
  <2>2. /\ Within(s, e, {}) /\ \A g \in Folders \ {f} : e.last[g] = d.last[g]
        /\ e.rows = UpsertedAll(d, f, U \cap Present(f)).rows
        /\ SameMarks(UpsertedAll(d, f, U \cap Present(f)), e)
        /\ \A u \in (U \cap Present(f)) \cup {d.last[f]} : u <= e.last[f]
    <3>1. \A G : UidsTrue(box, d, G) =>
            LET y == Stored(d, f, U)
                x == U \cap Present(f) IN
            /\ Within(s, y, {}) /\ UidsTrue(box, y, G) /\ Grows(d, y)
            /\ y.last[f] \in x \cup {d.last[f]} /\ \A g \in Folders \ {f} : y.last[g] = d.last[g]
            /\ f \in G => \A u \in x : Has(y, box[f][u])
            /\ y.rows = UpsertedAll(d, f, x).rows /\ SameMarks(UpsertedAll(d, f, x), y)
            /\ \A u \in x \cup {d.last[f]} : u <= y.last[f]
      BY StoredIs
    <3> QED BY <2>1, <3>1
  <2>3. e \in Mailbox
    BY <2>2 DEF Within
  <2> HIDE DEF e
  <2> QED BY <2>2, <2>3 DEF there
<1> HIDE DEF a, e, P, T
<1>8. Homed(box, h, e) /\ Twins(h, e) /\ OwnFiled(h, og, e) /\ Keyed(s, e)
  BY <1>6, <1>7 DEF Filing, Homed, Twins, Explained, OwnFiled, Keyed, SameMarks
<1>9. PassedBy(box, h, e, "none", {})
  <2>1. SUFFICES ASSUME e.rescanned = {}, NEW i \in DOMAIN e.rows, e.rows[i].mail \notin Excepted(h) \cup Own,
                        NEW g \in Served, NEW v \in DOMAIN box[g], box[g][v] = e.rows[i].mail
                 PROVE  v <= e.last[g]
    BY DEF PassedBy
  <2>2. v <= d.last[g] \/ (g = f /\ v \in there)
    BY <1>6, <1>7, <2>1 DEF Filing, PassedBy, SameMarks
  <2>3. g \in Folders /\ v \in Nat /\ d.last[g] \in Nat /\ e.last[g] \in Nat
    <3>1. \A w \in DOMAIN box[g] : w \in Nat
      BY Uids
    <3>2. g \in Folders
      BY <2>1 DEF Served
    <3>3. d.last[g] \in Nat /\ e.last[g] \in Nat
      BY <1>1, <1>7, <3>2 DEF Mailbox
    <3> QED BY <2>1, <3>1, <3>2, <3>3
  <2>4. CASE g = f
    BY <1>7, <2>2, <2>3, <2>4
  <2>5. CASE g # f
    BY <1>7, <2>2, <2>3, <2>5
  <2> QED BY <2>4, <2>5
<1> QED BY <1>8, <1>9 DEF Tidy, e

LEMMA FetchTwice ==
  ASSUME SyncInv, SyncInv', TwiceInv, NEW p \in DOMAIN pass, Fetch(p)
  PROVE  TwiceInv'
<1> DEFINE
  s == pass[p]
  e == Stored(s.tx, s.at, s.uids)
  t == [s EXCEPT !.tx = e, !.at = "none", !.uids = {}, !.todo = Later(@)]
<1>1. /\ box' = box /\ db' = db /\ outgoing' = outgoing /\ past' = past /\ s.at # "none"
      /\ pass' = [pass EXCEPT ![p].tx = Stored(@, pass[p].at, pass[p].uids), ![p].at = "none",
                              ![p].uids = {}, ![p].todo = Later(@)]
  BY DEF Fetch
<1>2. pass' = [pass EXCEPT ![p] = t]
  <2>1. pass' = [pass EXCEPT ![p].tx = e, ![p].at = "none", ![p].uids = {}, ![p].todo = Later(@)]
    BY <1>1
  <2> HIDE DEF e
  <2> QED BY <2>1, PassIs DEF Passes
<1>3. s \in Passes /\ PassTidy(box, outgoing, past, db, s) /\ Within(s.snap, s.tx, {}) /\ BoxOK(box)
  BY PassIs, MailboxIs DEF TwiceInv, PassOK
<1>4. \A q \in DOMAIN pass' : (q = p /\ pass'[q] = t) \/ (q \in DOMAIN pass /\ pass'[q] = pass[q])
  BY <1>2, PassIs
<1>5. t.tx = e /\ t.snap = s.snap /\ t.at = "none"
  <2> HIDE DEF e
  <2> QED BY <1>3 DEF Passes
<1>6. Tidy(box, outgoing, past, e) /\ Keyed(s.snap, e)
  <2>1. /\ s.snap \in Mailbox /\ s.at \in Served /\ s.uids \in SUBSET Nat
        /\ \A u \in s.uids : u > s.tx.last[s.at]
    BY <1>1, <1>3 DEF Passes, PassTidy
  <2>2. /\ Apart(box, past) /\ OwnPlaces(box, past, outgoing)
        /\ Tidy(box, outgoing, past, s.tx) /\ Keyed(s.snap, s.tx)
    BY <1>3 DEF TwiceInv, PassTidy
  <2> HIDE DEF s
  <2> QED BY <1>3, <2>1, <2>2, StoredTidy
<1> HIDE DEF e, t
<1>7. PassTidy(box, outgoing, past, db, t)
  BY <1>3, <1>5, <1>6 DEF PassTidy
<1>8. Told
  BY <1>1, ToldIs
<1> QED BY <1>1, <1>4, <1>7, <1>8, PassesStep

-----------------------------------------------------------------------------
\* A commit.  A mail that was stored meanwhile, too, is marked as crossed; if neither row
\* left its folder nor the folder was renumbered, both have the key that one may hold.

LEMMA OneFolder ==
  ASSUME NEW b, NEW h, Apart(b, h), NEW m, m \notin Excepted(h), m # Gone, NEW f, NEW g,
         LiesIn(b, f, m), LiesIn(b, g, m)
  PROVE  f = g
  BY DEF Apart, LiesIn

LEMMA OnePlace ==
  ASSUME NEW b, NEW h, Apart(b, h), NEW m, m \notin Excepted(h), m # Gone, NEW f, NEW u, NEW g, NEW v,
         Lies(b, f, u, m), Lies(b, g, v, m)
  PROVE  u = v
  BY DEF Apart, Lies

\* The row of the pass that a row of its commit comes from.
From(t, j) == j - (Len(db.rows) - Len(t.snap.rows))
Fresh(rows, others) == DOMAIN rows \ DOMAIN others

LEMMA CommittedRows ==
  ASSUME db \in Mailbox, NEW t \in Passes, Within(t.snap, t.tx, {}), Grows(t.snap, db)
  PROVE  LET e == Merged(t) IN
         /\ \A i \in DOMAIN db.rows :
              /\ i \in DOMAIN e.rows /\ e.rows[i].mail = db.rows[i].mail
              /\ e.rows[i].folder = db.rows[i].folder /\ e.rows[i].deleted = db.rows[i].deleted
              /\ \/ e.rows[i].uid = db.rows[i].uid
                 \/ /\ i \in DOMAIN t.tx.rows /\ t.tx.rows[i].mail = db.rows[i].mail
                    /\ e.rows[i].uid = t.tx.rows[i].uid
         /\ \A j \in Fresh(e.rows, db.rows) :
              /\ From(t, j) \in Fresh(t.tx.rows, t.snap.rows) /\ e.rows[j] = t.tx.rows[From(t, j)]
              /\ \A i \in Fresh(e.rows, db.rows) : From(t, i) = From(t, j) => i = j
         /\ \A i \in Fresh(t.tx.rows, t.snap.rows) : t.tx.rows[i].mail \in NewIn(t.tx.rows, Len(t.snap.rows))
         /\ \A i \in Fresh(db.rows, t.snap.rows) : db.rows[i].mail \in NewIn(db.rows, Len(t.snap.rows))
<1> DEFINE
  n == Len(t.snap.rows)
  N == Len(t.tx.rows)
  k == Len(db.rows)
  e == Merged(t)
<1>1. /\ n \in Nat /\ N \in Nat /\ k \in Nat /\ n <= N /\ n <= k
      /\ DOMAIN t.snap.rows = 1..n /\ DOMAIN t.tx.rows = 1..N /\ DOMAIN db.rows = 1..k
      /\ DOMAIN e.rows = 1..(k + N - n)
      /\ \A i \in 1..k : e.rows[i] = OldRow(t, i)
      /\ \A i \in (n + 1)..N : e.rows[i + (k - n)] = t.tx.rows[i]
  BY MergedIs, MergedRowsAre
<1>2. \A i \in 1..k : db.rows[i] \in MailRow
  BY <1>1, RowsAre DEF Mailbox
<1>3. /\ \A i \in Fresh(t.tx.rows, t.snap.rows) : t.tx.rows[i].mail \in NewIn(t.tx.rows, n)
      /\ \A i \in Fresh(db.rows, t.snap.rows) : db.rows[i].mail \in NewIn(db.rows, n)
  BY <1>1 DEF Fresh, NewIn
<1>4. ASSUME NEW i \in 1..k
      PROVE  /\ i \in DOMAIN e.rows /\ e.rows[i].mail = db.rows[i].mail
             /\ e.rows[i].folder = db.rows[i].folder /\ e.rows[i].deleted = db.rows[i].deleted
             /\ \/ e.rows[i].uid = db.rows[i].uid
                \/ /\ i \in DOMAIN t.tx.rows /\ t.tx.rows[i].mail = db.rows[i].mail
                   /\ e.rows[i].uid = t.tx.rows[i].uid
  <2>1. i \in DOMAIN e.rows /\ e.rows[i] = OldRow(t, i)
    <3> HIDE DEF e, n, N, k
    <3> QED BY <1>1
  <2> HIDE DEF e, n, N, k
  <2>2. CASE i \notin Adopted(t)
    BY <2>1, <2>2 DEF OldRow
  <2>3. CASE i \in Adopted(t)
    <3>1. i \in DOMAIN t.snap.rows /\ e.rows[i] = [db.rows[i] EXCEPT !.uid = t.tx.rows[i].uid]
      BY <2>1, <2>3 DEF OldRow, Adopted
    <3>2. i \in DOMAIN t.tx.rows /\ t.tx.rows[i].mail = db.rows[i].mail
      BY <3>1 DEF Within, Grows
    <3> QED BY <1>2, <2>1, <3>1, <3>2 DEF MailRow
  <2> QED BY <2>2, <2>3
<1>5. ASSUME NEW j \in Fresh(e.rows, db.rows)
      PROVE  From(t, j) \in Fresh(t.tx.rows, t.snap.rows) /\ e.rows[j] = t.tx.rows[From(t, j)]
  <2>1. From(t, j) = j - (k - n)
    BY DEF From
  <2> HIDE DEF e, n, N, k
  <2>2. j \in 1..(k + N - n) /\ j \notin 1..k
    BY <1>1 DEF Fresh
  <2>3. From(t, j) \in (n + 1)..N /\ From(t, j) + (k - n) = j
    BY <1>1, <2>1, <2>2
  <2> QED BY <1>1, <2>3 DEF Fresh
<1>6. \A i, j \in Fresh(e.rows, db.rows) : From(t, i) = From(t, j) => i = j
  <2>1. \A i \in Fresh(e.rows, db.rows) : i \in Int
    <3> HIDE DEF e, n, N, k
    <3> QED BY <1>1 DEF Fresh
  <2>2. \A j : From(t, j) = j - (k - n)
    BY DEF From
  <2> HIDE DEF e, n, N, k
  <2> QED BY <1>1, <2>1, <2>2
<1>7. \A i \in 1..k :
        /\ i \in DOMAIN e.rows /\ e.rows[i].mail = db.rows[i].mail
        /\ e.rows[i].folder = db.rows[i].folder /\ e.rows[i].deleted = db.rows[i].deleted
        /\ \/ e.rows[i].uid = db.rows[i].uid
           \/ /\ i \in DOMAIN t.tx.rows /\ t.tx.rows[i].mail = db.rows[i].mail
              /\ e.rows[i].uid = t.tx.rows[i].uid
  <2> HIDE DEF e, n, N, k
  <2> QED BY <1>4
<1> HIDE DEF e
<1> QED BY <1>1, <1>3, <1>5, <1>6, <1>7 DEF e

LEMMA MergedTidy ==
  ASSUME BoxOK(box), NEW h, NEW og, Apart(box, h), OwnPlaces(box, h, og), Tidy(box, og, h, db),
         db \in Mailbox, NEW t \in Passes, Within(t.snap, t.tx, {}), Grows(t.snap, db),
         Tidy(box, og, h, t.tx), Keyed(t.snap, t.tx), Follows(t.snap, db), ~Clashes(t),
         NewIn(t.tx.rows, Len(t.snap.rows)) \cap NewIn(db.rows, Len(t.snap.rows)) \subseteq h.crossed
  PROVE  Tidy(box, og, h, Merged(t))
<1> DEFINE
  s == t.snap
  d == t.tx
  e == Merged(t)
<1>1. /\ e \in Mailbox /\ d \in Mailbox /\ s \in Mailbox
      /\ db.moved \subseteq e.moved /\ d.moved \subseteq e.moved
      /\ db.rescanned \subseteq e.rescanned /\ d.rescanned \subseteq e.rescanned
      /\ e.last = Wrote(d.last, s.last, db.last)
      /\ \A f \in Folders : e.last[f] < db.last[f] => f \in e.rescanned
  BY MergedIs DEF Passes
<1>2. \A i \in DOMAIN db.rows :
        /\ i \in DOMAIN e.rows /\ e.rows[i].mail = db.rows[i].mail
        /\ e.rows[i].folder = db.rows[i].folder /\ e.rows[i].deleted = db.rows[i].deleted
        /\ \/ e.rows[i].uid = db.rows[i].uid
           \/ /\ i \in DOMAIN d.rows /\ d.rows[i].mail = db.rows[i].mail
              /\ e.rows[i].uid = d.rows[i].uid
  BY CommittedRows
<1>3. \A j \in DOMAIN e.rows : j \notin DOMAIN db.rows =>
        /\ From(t, j) \in DOMAIN d.rows /\ From(t, j) \notin DOMAIN s.rows
        /\ e.rows[j] = d.rows[From(t, j)]
        /\ \A i \in DOMAIN e.rows : i \notin DOMAIN db.rows /\ From(t, i) = From(t, j) => i = j
  BY CommittedRows DEF Fresh
<1>4. \A i \in DOMAIN d.rows, j \in DOMAIN db.rows :
        i \notin DOMAIN s.rows /\ j \notin DOMAIN s.rows /\ d.rows[i].mail = db.rows[j].mail =>
          d.rows[i].mail \in h.crossed
  BY CommittedRows DEF Fresh
<1>5. \A k \in d.keys : Holds(db, k[1], k[2]) = {}
  BY DEF Clashes
<1>6. /\ \A j \in DOMAIN s.rows : /\ j \in DOMAIN d.rows /\ d.rows[j].deleted = s.rows[j].deleted
                                  /\ j \in DOMAIN db.rows /\ d.rows[j].mail = db.rows[j].mail
                                  /\ d.rows[j].deleted => db.rows[j].deleted
      /\ db.rescanned = {} => \A f \in Folders : s.last[f] <= db.last[f]
  BY DEF Within, Grows, Follows
<1>7. /\ Homed(box, h, db) /\ PassedBy(box, h, db, "none", {}) /\ Twins(h, db) /\ OwnFiled(h, og, db)
      /\ Homed(box, h, d) /\ PassedBy(box, h, d, "none", {}) /\ Twins(h, d) /\ OwnFiled(h, og, d)
      /\ Keyed(s, d)
  BY DEF Tidy
<1> HIDE DEF s, d, e
<1>8. /\ \A i \in DOMAIN db.rows : db.rows[i].mail # Gone
      /\ \A i \in DOMAIN d.rows : d.rows[i].mail # Gone
  BY <1>1, RowMails
\* A row of the mailbox and one of the pass, whose mails did not leave their folders.
<1>9. ASSUME NEW i \in DOMAIN db.rows, NEW j \in DOMAIN d.rows, d.rows[j].mail = db.rows[i].mail,
             db.rows[i].mail \notin Excepted(h) \cup e.moved \cup Own
      PROVE  /\ db.rows[i].folder = d.rows[j].folder
             /\ d.rows[j].folder \notin h.renumbered =>
                  /\ d.rows[j].uid = db.rows[i].uid
                  /\ Lies(box, d.rows[j].folder, d.rows[j].uid, d.rows[j].mail)
  <2>1. HomeOf(box, h, db.moved, db.rows[i]) /\ HomeOf(box, h, d.moved, d.rows[j])
    BY <1>7 DEF Homed
  <2>2. LiesIn(box, db.rows[i].folder, db.rows[i].mail) /\ LiesIn(box, d.rows[j].folder, db.rows[i].mail)
    BY <1>1, <1>9, <2>1 DEF HomeOf
  <2>3. db.rows[i].folder = d.rows[j].folder
    BY <1>8, <1>9, <2>2, OneFolder
  <2>4. ASSUME d.rows[j].folder \notin h.renumbered
        PROVE  /\ Lies(box, db.rows[i].folder, db.rows[i].uid, db.rows[i].mail)
               /\ Lies(box, d.rows[j].folder, d.rows[j].uid, db.rows[i].mail)
    BY <1>1, <1>9, <2>1, <2>3, <2>4 DEF HomeOf
  <2>5. ASSUME d.rows[j].folder \notin h.renumbered PROVE d.rows[j].uid = db.rows[i].uid
    <3>1. /\ Lies(box, db.rows[i].folder, db.rows[i].uid, db.rows[i].mail)
          /\ Lies(box, d.rows[j].folder, d.rows[j].uid, db.rows[i].mail)
      BY <2>4, <2>5
    <3> QED BY <1>8, <1>9, <3>1, OnePlace
  <2> QED BY <1>9, <2>3, <2>4, <2>5
<1>10. Homed(box, h, e)
  <2>1. ASSUME NEW i \in DOMAIN db.rows PROVE HomeOf(box, h, e.moved, e.rows[i])
    <3>1. HomeOf(box, h, db.moved, db.rows[i])
      BY <1>7 DEF Homed
    <3>2. CASE e.rows[i].uid = db.rows[i].uid
      BY <1>1, <1>2, <3>1, <3>2 DEF HomeOf
    <3>3. CASE i \in DOMAIN d.rows /\ d.rows[i].mail = db.rows[i].mail /\ e.rows[i].uid = d.rows[i].uid
      <4>1. SUFFICES ASSUME e.rows[i].mail \notin Excepted(h) PROVE HomeOf(box, h, e.moved, e.rows[i])
        BY DEF HomeOf
      <4>2. /\ e.rows[i].mail \notin Own => Somewhere(box, e.rows[i].mail)
            /\ e.rows[i].mail \in Own \ e.moved => e.rows[i].folder = "sent"
            /\ e.rows[i].mail \notin e.moved \cup Own => LiesIn(box, e.rows[i].folder, e.rows[i].mail)
        BY <1>1, <1>2, <3>1, <4>1 DEF HomeOf
      <4>3. ASSUME e.rows[i].mail \notin e.moved \cup Own, e.rows[i].folder \notin h.renumbered
            PROVE  Lies(box, e.rows[i].folder, e.rows[i].uid, e.rows[i].mail)
        BY <1>2, <1>9, <3>3, <4>1, <4>3
      <4> QED BY <4>2, <4>3 DEF HomeOf
    <3> QED BY <1>2, <3>2, <3>3
  <2>2. ASSUME NEW j \in DOMAIN e.rows, j \notin DOMAIN db.rows PROVE HomeOf(box, h, e.moved, e.rows[j])
    <3>1. HomeOf(box, h, d.moved, e.rows[j])
      BY <1>3, <1>7, <2>2 DEF Homed
    <3> QED BY <1>1, <3>1 DEF HomeOf
  <2> QED BY <2>1, <2>2 DEF Homed
<1>11. PassedBy(box, h, e, "none", {})
  <2>1. SUFFICES ASSUME e.rescanned = {}, NEW j \in DOMAIN e.rows, e.rows[j].mail \notin Excepted(h) \cup Own,
                        NEW g \in Served, NEW u \in DOMAIN box[g], box[g][u] = e.rows[j].mail
                 PROVE  u <= e.last[g]
    BY DEF PassedBy
  <2>2. db.rescanned = {} /\ d.rescanned = {}
    BY <1>1, <2>1
  <2>3. u <= db.last[g] \/ u <= d.last[g]
    BY <1>2, <1>3, <1>7, <2>1, <2>2 DEF PassedBy
  <2>4. g \in Folders
    BY DEF Served
  <2>5. e.last[g] = IF d.last[g] # s.last[g] THEN d.last[g] ELSE db.last[g]
    BY <1>1, <2>4 DEF Wrote
  <2>6. s.last[g] <= db.last[g] /\ ~(e.last[g] < db.last[g])
    BY <1>1, <1>6, <2>1, <2>2, <2>4
  <2>7. /\ db.last[g] \in Nat /\ d.last[g] \in Nat /\ s.last[g] \in Nat /\ e.last[g] \in Nat
        /\ u \in Nat
    <3>1. \A w \in DOMAIN box[g] : w \in Nat
      BY Uids
    <3> QED BY <1>1, <2>4, <3>1 DEF Mailbox
  <2> QED BY <2>3, <2>5, <2>6, <2>7
<1>12. ASSUME NEW o \in DOMAIN db.rows, NEW x \in DOMAIN d.rows, x \notin DOMAIN s.rows,
              d.rows[x].mail = db.rows[o].mail, ~d.rows[x].deleted, ~db.rows[o].deleted
       PROVE  /\ Explained(h, e, db.rows[o].mail, db.rows[o].folder)
              /\ Explained(h, e, db.rows[o].mail, d.rows[x].folder)
  <2> DEFINE m == db.rows[o].mail
  <2>1. CASE o \in DOMAIN s.rows
    <3>1. o # x /\ o \in DOMAIN d.rows /\ d.rows[o].mail = m /\ ~d.rows[o].deleted
      BY <1>6, <1>12, <2>1
    <3>2. Explained(h, d, m, d.rows[o].folder) /\ Explained(h, d, m, d.rows[x].folder)
      BY <1>7, <1>12, <3>1 DEF Twins
    <3>3. m \notin Excepted(h) \cup e.moved \cup Own => db.rows[o].folder = d.rows[o].folder
      BY <1>9, <3>1
    <3> QED BY <1>1, <3>2, <3>3 DEF Explained
  <2>2. CASE o \notin DOMAIN s.rows
    <3>1. m \in h.crossed
      BY <1>4, <1>12, <2>2
    <3>2. ASSUME m \notin Excepted(h) \cup e.moved \cup Own
          PROVE  db.rows[o].folder \in h.renumbered /\ d.rows[x].folder \in h.renumbered
      <4>1. /\ db.rows[o].folder = d.rows[x].folder
            /\ d.rows[x].folder \notin h.renumbered => d.rows[x].uid = db.rows[o].uid
        BY <1>9, <1>12, <3>2
      <4>2. <<d.rows[x].folder, d.rows[x].uid>> \in d.keys
        BY <1>1, <1>7, <1>12, <3>2 DEF Keyed
      <4>3. Holds(db, d.rows[x].folder, d.rows[x].uid) = {}
        BY <1>5, <4>2
      <4> QED BY <4>1, <4>3 DEF Holds
    <3> QED BY <3>1, <3>2 DEF Explained
  <2> QED BY <2>1, <2>2
<1>13. Twins(h, e)
  <2>1. SUFFICES ASSUME NEW i \in DOMAIN e.rows, NEW j \in DOMAIN e.rows, i # j,
                        e.rows[i].mail = e.rows[j].mail, ~e.rows[i].deleted, ~e.rows[j].deleted
                 PROVE  Explained(h, e, e.rows[i].mail, e.rows[i].folder)
    BY DEF Twins
  <2>2. CASE i \in DOMAIN db.rows /\ j \in DOMAIN db.rows
    <3>1. Explained(h, db, db.rows[i].mail, db.rows[i].folder)
      BY <1>2, <1>7, <2>1, <2>2 DEF Twins
    <3> QED BY <1>1, <1>2, <2>2, <3>1 DEF Explained
  <2>3. CASE i \notin DOMAIN db.rows /\ j \notin DOMAIN db.rows
    <3>1. Explained(h, d, e.rows[i].mail, e.rows[i].folder)
      BY <1>3, <1>7, <2>1, <2>3 DEF Twins
    <3> QED BY <1>1, <3>1 DEF Explained
  <2>4. CASE i \in DOMAIN db.rows /\ j \notin DOMAIN db.rows
    BY <1>2, <1>3, <1>12, <2>1, <2>4
  <2>5. CASE i \notin DOMAIN db.rows /\ j \in DOMAIN db.rows
    BY <1>2, <1>3, <1>12, <2>1, <2>5
  <2> QED BY <2>2, <2>3, <2>4, <2>5
<1>14. OwnFiled(h, og, e)
  <2>1. SUFFICES ASSUME NEW i \in DOMAIN e.rows, e.rows[i].mail \in Own \ Excepted(h)
                 PROVE  og[e.rows[i].mail].at \in {"filed", "kept"}
    BY DEF OwnFiled
  <2> QED BY <1>2, <1>3, <1>7, <2>1 DEF OwnFiled
<1> QED BY <1>10, <1>11, <1>13, <1>14 DEF Tidy, e

LEMMA CommitTwice ==
  ASSUME SyncInv, SyncInv', TwiceInv, NEW p \in DOMAIN pass, Commit(p)
  PROVE  TwiceInv'
<1> DEFINE
  t == pass[p]
  e == Merged(t)
  X == NewIn(t.tx.rows, Len(t.snap.rows)) \cap NewIn(db.rows, Len(t.snap.rows))
<1>1. /\ box' = box /\ db' = e /\ outgoing' = outgoing /\ pass' = Without(p) /\ ~Clashes(t)
      /\ \E z : past' = [past EXCEPT !.crossed = @ \cup X, !.carried = z]
  BY DEF Commit
<1>2. Told /\ X \subseteq past'.crossed
  <2> HIDE DEF X
  <2>1. {"strayed", "selfKept", "crossed", "renumbered"} \subseteq DOMAIN past
    BY DEF TwiceInv
  <2>2. /\ {"strayed", "selfKept", "crossed", "renumbered"} \subseteq DOMAIN past'
        /\ past'.strayed = past.strayed /\ past'.selfKept = past.selfKept
        /\ past'.crossed = past.crossed \cup X /\ past'.renumbered = past.renumbered
    BY <1>1, <2>1
  <2> QED BY <2>2 DEF Told, Longer
<1>3. /\ db \in Mailbox /\ BoxOK(box) /\ t \in Passes /\ t.tx \in Mailbox
      /\ Within(t.snap, t.tx, {}) /\ Grows(t.snap, db)
  BY MailboxIs, PassIs DEF PassOK, Passes
<1>4. PassTidy(box, outgoing, past, db, t)
  BY DEF TwiceInv
<1>5. /\ outgoing \in [Own -> Sendings] /\ Onward(outgoing, outgoing)
      /\ Stays(box, box, past') /\ FromThere(box, box, past')
  BY <1>3, SameBox DEF TwiceInv, Onward
<1> HIDE DEF t
<1>6. Tidy(box, outgoing, past', db) /\ Tidy(box, outgoing, past', t.tx)
  BY <1>2, <1>3, <1>4, <1>5, TidyBox DEF TwiceInv, PassTidy, Told
<1>7. Apart(box, past') /\ OwnPlaces(box, past', outgoing)
  BY <1>2, <1>5, PlacesLater DEF TwiceInv, Told
<1>8. Keyed(t.snap, t.tx) /\ Follows(t.snap, db)
  BY <1>4 DEF PassTidy
<1>9. Tidy(box, outgoing, past', e)
  BY <1>1, <1>2, <1>3, <1>6, <1>7, <1>8, MergedTidy
<1>10. Follows(db, e) /\ db.rescanned \subseteq e.rescanned
  <2>1. /\ e \in Mailbox /\ db.rescanned \subseteq e.rescanned
        /\ \A f \in Folders : e.last[f] < db.last[f] => f \in e.rescanned
    BY <1>3, MergedIs
  <2>2. \A i \in DOMAIN db.rows : db.rows[i].deleted => e.rows[i].deleted
    BY <1>3, CommittedRows
  <2> HIDE DEF e
  <2>3. \A f \in Folders : db.last[f] \in Nat /\ e.last[f] \in Nat
    BY <1>3, <2>1 DEF Mailbox
  <2> QED BY <2>1, <2>2, <2>3 DEF Follows
<1>11. \A q \in DOMAIN pass' : q \in DOMAIN pass /\ pass'[q] = pass[q]
  BY <1>1 DEF Without
<1> HIDE DEF e, X
<1> QED BY <1>1, <1>2, <1>5, <1>9, <1>10, <1>11, MailboxStep

-----------------------------------------------------------------------------
\* The inductive invariant.

LEMMA TwiceInitially == SyncInit => TwiceInv
<1> SUFFICES ASSUME SyncInit PROVE TwiceInv
  OBVIOUS
<1>1. BoxOK(box)
  BY SyncInitially DEF SyncInv
<1>2. \A f \in Served : \A u \in DOMAIN box[f] : box[f][u] \in Mails \cup {Gone}
  <2>1. ASSUME NEW f \in Served, f \in DOMAIN case.box
        PROVE  \A u \in DOMAIN case.box[f] : case.box[f][u] \in Mails \cup {Gone}
    <3>1. case.box[f] \in Seq(Mails \cup {Gone})
      BY <2>1, SyncAssumption DEF SyncInit
    <3> QED BY <3>1, LenProperties
  <2>2. DOMAIN <<>> = {}
    OBVIOUS
  <2>3. \A f \in Served : box[f] = IF f \in DOMAIN case.box THEN case.box[f] ELSE <<>>
    BY DEF SyncInit
  <2> QED BY <2>1, <2>2, <2>3
<1>3. /\ {"strayed", "selfKept", "crossed", "renumbered"} \subseteq DOMAIN past
      /\ past.strayed = {m \in Mails : Doubled(m)}
  BY DEF SyncInit
<1>4. outgoing \in [Own -> Sendings]
  BY ViewsInitially DEF ViewsOK
<1>5. Apart(box, past)
  <2>1. SUFFICES ASSUME NEW f \in Served, NEW g \in Served, NEW u \in DOMAIN box[f], NEW v \in DOMAIN box[g],
                        box[f][u] = box[g][v], box[f][u] \notin Excepted(past) \cup {Gone}
                 PROVE  f = g /\ u = v
    BY DEF Apart
  <2>2. box[f][u] \in Mails /\ ~Doubled(box[f][u])
    BY <1>2, <1>3, <2>1 DEF Excepted
  <2>3. ~(<<f, u>> # <<g, v>>)
    BY <2>1, <2>2 DEF Doubled
  <2> QED BY <2>3
<1>6. OwnPlaces(box, past, outgoing)
  BY <1>2, SyncAssumption DEF OwnPlaces, AllMails
<1>7. DOMAIN db.rows = {}
  BY DEF SyncInit, Empty
<1>8. Tidy(box, outgoing, past, db)
  BY <1>7 DEF Tidy, Homed, PassedBy, Twins, OwnFiled
<1>9. DOMAIN pass = {}
  BY DEF SyncInit
<1> QED BY <1>3, <1>4, <1>5, <1>6, <1>8, <1>9 DEF TwiceInv

LEMMA TwicePreserved == SyncInv /\ SyncInv' /\ TwiceInv /\ [SyncNext]_syncVars => TwiceInv'
<1> SUFFICES ASSUME SyncInv, SyncInv', TwiceInv, [SyncNext]_syncVars PROVE TwiceInv'
  OBVIOUS
<1>1. CASE UNCHANGED syncVars
  BY <1>1, AskingTwice
<1>2. CASE SyncStep
  <2>1. CASE \E p \in Kinds : Start(p) \/ ConnectFails(p)
    BY <2>1, StartTwice, AskingTwice
  <2>2. CASE \E p \in DOMAIN pass : \/ PassBy(p) \/ Search(p) \/ FolderFails(p)
                                    \/ Fetch(p) \/ Commit(p) \/ RollBack(p)
    BY <2>2, GoingOnTwice, SearchTwice, FetchTwice, CommitTwice, AskingTwice
  <2>3. CASE NotStarted \/ PollDue \/ IdleStarts \/ IdleStops \/ IdleSync
    BY <2>3, AskingTwice
  <2>4. CASE \E m \in Mails : Arrive(m)
    BY <2>4, ArriveTwice
  <2>5. CASE \E f \in Served : Renumber(f) \/ \E u \in DOMAIN box[f] : Expunge(f, u)
    BY <2>5, RenumberTwice, ExpungeTwice
  <2>6. CASE \E o \in Own : Sending(o) \/ Sent(o) \/ Filed(o) \/ _append_to_sent(o)
    BY <2>6, SendingTwice, FiledTwice
  <2>7. CASE \E I \in Chosen : \/ HardDelete(I)
                               \/ \E b \in BOOLEAN : MarkRead(I, b) \/ _junk(I, b)
                               \/ \E f \in Folders \ db.dropped : MoveTo(I, f)
    BY <2>7, RowHandlersTwice
  <2>8. CASE \/ \E k \in DOMAIN db.rules : RunRule(k)
             \/ \E f \in Folders : empty_folder(f)
             \/ \E b \in BOOLEAN : resync(b)
             \/ delete_folder \/ update_account \/ delete_account \/ create_account
    BY <2>8, OtherHandlersTwice
  <2> QED BY <1>2, <2>1, <2>2, <2>3, <2>4, <2>5, <2>6, <2>7, <2>8 DEF SyncStep
<1> QED BY <1>1, <1>2 DEF SyncNext

\* A mail is shown twice only where the server had it at two places, where its row left its
\* folder before last_uid went back or while two passes stored it, where the folder was
\* renumbered between them or the mail has no Message-ID to be known by, or where an own
\* mail was filed beside a copy of the server.
THEOREM TwiceIsExplained == SyncSpec => []TwiceExplained
<1>1. TwiceInv => TwiceExplained
  BY DEF TwiceInv, Tidy, Twins, Explained, Excepted, TwiceExplained
<1> QED BY <1>1, SyncInitially, SyncPreserved, ViewsInitially, ViewsPreserved, TwiceInitially, TwicePreserved, PTL DEF SyncSpec

-----------------------------------------------------------------------------
\* The outbox.  Operators on one row.

LEMMA DraftType == Draft \in Row
  BY DEF Draft, Row

LEMMA AppliedType ==
  ASSUME NEW o, NEW r \in Row PROVE Applied(o, r) \in Row
  BY DEF Applied, Row

LEMMA OutcomeType ==
  ASSUME NEW r \in Row, NEW ok \in BOOLEAN PROVE Outcome(r, ok) \in Row
<1>1. r.attempts + 1 \in Nat
  BY DEF Row
<1>2. [r EXCEPT !.status = "sent"] \in Row
  BY DEF Row
<1>3. ASSUME NEW s \in {"queued", "failed"}
      PROVE  [r EXCEPT !.status = s, !.attempts = @ + 1] \in Row
  BY <1>1, <1>3 DEF Row
<1> QED BY <1>2, <1>3 DEF Outcome

LEMMA FlushType ==
  ASSUME NEW c \in Row, NEW l \in Row, NEW o \in Row PROVE Flush(c, l, o) \in Row
  BY DEF Flush, Changed, Row

\* A commit that did not change the status leaves the committed one.
LEMMA FlushStatus ==
  ASSUME NEW c \in Row, NEW l \in Row, NEW o \in Row
  PROVE  Flush(c, l, o).status = IF o.status = l.status THEN c.status ELSE o.status
  BY DEF Flush, Changed, Row

\* A non-empty set of ids has a lowest, by the least-number principle.
LEMMA LowestId ==
  ASSUME NEW S \in SUBSET Nat, S # {} PROVE \E m \in S : \A k \in S : m <= k
<1> DEFINE R == OpToRel(<, Nat)
<1>1. PICK m \in S : \A k \in S : <<k, m>> \notin R
  BY WFMin, NatLessThanWellFounded, Zenon
<1>2. ASSUME NEW k \in S PROVE ~ (k < m)
  BY <1>1, Zenon DEF OpToRel
<1>3. \A k \in S : m <= k
  <2> HIDE DEF R
  <2> QED BY <1>2
<1> QED BY <1>3, Zenon

\* The message at work is one of the pass.
LEMMA AtWorkInPass ==
  ASSUME todo \subseteq Messages, todo # {} PROVE AtWork \in todo
<1>1. todo \in SUBSET Nat
  BY MessagesAssumption
<1>2. \E m \in todo : \A k \in todo : m <= k
  BY <1>1, LowestId
<1> QED BY <1>2 DEF AtWork

-----------------------------------------------------------------------------
\* Type correctness.

LEMMA WorkerType == TypeOK /\ WorkerStep => TypeOK'
<1> SUFFICES ASSUME TypeOK, WorkerStep PROVE TypeOK'
  OBVIOUS
<1> USE DEF workerVars, requestVars, sendHist, userHist
<1>1. pc # "idle" => AtWork \in todo /\ AtWork \in Messages
  BY AtWorkInPass DEF TypeOK
<1>2. ASSUME NEW o \in Row, WorkerWrites(o), pc # "idle" PROVE row' \in [Messages -> Row]
  BY <1>1, <1>2, FlushType DEF WorkerWrites, TypeOK
<1>3. ASSUME NEW v \in [Messages -> Row], NextCandidate(v)
      PROVE  /\ todo' \subseteq Messages
             /\ pc' \in {"idle", "check"} /\ (pc' # "idle" => todo' # {})
             /\ view' \in [Messages -> Row] /\ smtp' = "none"
  BY <1>3, DraftType DEF NextCandidate, TypeOK
<1>4. ASSUME NEW s \in {"failed", "sending"}, pc # "idle"
      PROVE  [view[AtWork] EXCEPT !.status = s] \in Row
  <2>1. view[AtWork] \in Row
    BY <1>1, <1>4 DEF TypeOK
  <2>2. ASSUME NEW c \in Row PROVE [c EXCEPT !.status = s] \in Row
    BY DEF Row
  <2> QED BY <2>1, <2>2
<1>5. CASE PassLoad
  BY <1>5, DraftType DEF PassLoad, Loaded, Oldest, Candidates, TypeOK
<1>6. CASE PassOver
  BY <1>3, <1>6 DEF PassOver, TypeOK
<1>7. CASE Refuse
  BY <1>2, <1>4, <1>7 DEF Refuse, TypeOK
<1>8. CASE MarkSending
  BY <1>2, <1>4, <1>8 DEF MarkSending, TypeOK
<1>9. CASE Compose
  BY <1>1, <1>9 DEF Compose, TypeOK
<1>10. CASE Send
  BY <1>1, <1>10 DEF Send, TypeOK
<1>11. CASE Record
  <2>1. Outcome(view[AtWork], smtp = "ok") \in Row
    BY <1>1, <1>11, OutcomeType DEF Record, TypeOK
  <2> QED BY <1>2, <1>11, <2>1 DEF Record, TypeOK
<1>12. CASE Refresh
  BY <1>3, <1>12 DEF Refresh, TypeOK
<1> QED BY <1>5, <1>6, <1>7, <1>8, <1>9, <1>10, <1>11, <1>12 DEF WorkerStep

LEMMA WrittenType ==
  ASSUME NEW o, NEW c \in Row, NEW l \in Row PROVE Written(o, c, l) \in Row
<1> DEFINE flushed == Flush(c, l, Applied(o, l))
<1>1. flushed \in Row
  BY AppliedType, FlushType
<1>2. Written(o, c, l) = CASE o = "schedule" ->
                                [flushed EXCEPT !.sched = "future", !.undo = "open"]
                           [] o = "edit" -> [flushed EXCEPT !.undo = "open"]
                           [] OTHER -> flushed
  BY DEF Written
<1> HIDE DEF flushed
<1> QED BY <1>1, <1>2 DEF Row

LEMMA RequestType ==
  ASSUME TypeOK, NEW r \in Requests,
         \/ RequestCommit(r)
         \/ \E m \in Messages, o \in Ops : RequestLoad(r, m, o)
  PROVE  TypeOK'
<1> USE DEF workerVars, requestVars, sendHist, userHist
<1>1. CASE RequestCommit(r)
  <2> DEFINE m == target[r]
  <2>1. m \in Messages
    BY <1>1 DEF RequestCommit, TypeOK
  <2>2. Written(op[r], row[m], copy[r]) \in Row
    BY <2>1, WrittenType DEF TypeOK
  <2>3. row' \in [Messages -> Row]
    BY <1>1, <2>1, <2>2 DEF RequestCommit, TypeOK
  <2>4. enqueues' \in [Messages -> Nat]
    BY <1>1, <2>1 DEF RequestCommit, TypeOK
  <2>5. undone' \in [Messages -> BOOLEAN]
    BY <1>1, <2>1 DEF RequestCommit, TypeOK
  <2> QED BY <1>1, <2>3, <2>4, <2>5, DraftType DEF RequestCommit, TypeOK
<1>2. CASE \E m \in Messages, o \in Ops : RequestLoad(r, m, o)
  BY <1>2 DEF RequestLoad, TypeOK
<1> QED BY <1>1, <1>2

LEMMA OtherType ==
  ASSUME TypeOK,
         \/ PassFails \/ ConnectionChanges \/ UNCHANGED vars
         \/ \E m \in Messages : UndoElapses(m) \/ OldUndoElapses(m) \/ ScheduleReached(m)
  PROVE  TypeOK'
<1> USE DEF workerVars, requestVars, sendHist, userHist
<1>1. CASE PassFails
  BY <1>1, DraftType DEF PassFails, Loaded, TypeOK
<1>2. CASE ConnectionChanges
  BY <1>2 DEF ConnectionChanges, TypeOK
<1>3. CASE UNCHANGED vars
  BY <1>3 DEF vars, TypeOK
<1>4. ASSUME NEW c \in Row PROVE [c EXCEPT !.undo = "elapsed"] \in Row
                                 /\ [c EXCEPT !.sched = "reached"] \in Row
  BY <1>4 DEF Row
<1>5. ASSUME NEW m \in Messages, UndoElapses(m) PROVE TypeOK'
  <2>1. row' = [row EXCEPT ![m] = [row[m] EXCEPT !.undo = "elapsed"]]
    BY <1>5 DEF UndoElapses
  <2>2. view' = IF m \in todo
                THEN [view EXCEPT ![m] = [view[m] EXCEPT !.undo = "elapsed"]]
                ELSE view
    BY <1>5 DEF UndoElapses, TypeOK, Row
  <2>3. row' \in [Messages -> Row] /\ view' \in [Messages -> Row]
    BY <1>4, <2>1, <2>2 DEF TypeOK
  <2> QED BY <1>5, <2>3 DEF UndoElapses, TypeOK
<1>6. ASSUME NEW m \in Messages, OldUndoElapses(m) PROVE TypeOK'
  <2>1. view' = [view EXCEPT ![m] = [view[m] EXCEPT !.undo = "elapsed"]]
    BY <1>6 DEF OldUndoElapses
  <2>2. view' \in [Messages -> Row]
    BY <1>4, <2>1 DEF TypeOK
  <2> QED BY <1>6, <2>2 DEF OldUndoElapses, TypeOK
<1>7. ASSUME NEW m \in Messages, ScheduleReached(m) PROVE TypeOK'
  <2>1. row' = [row EXCEPT ![m] = [row[m] EXCEPT !.sched = "reached"]]
    BY <1>7 DEF ScheduleReached
  <2>2. row' \in [Messages -> Row]
    BY <1>4, <2>1 DEF TypeOK
  <2> QED BY <1>7, <2>2 DEF ScheduleReached, TypeOK
<1> QED BY <1>1, <1>2, <1>3, <1>5, <1>6, <1>7

LEMMA InitType == Init => TypeOK
  BY DraftType DEF Init, TypeOK

LEMMA StepType == TypeOK /\ [Next]_vars => TypeOK'
  BY WorkerType, RequestType, OtherType DEF Next

\* Every reachable state has the declared types; a pass under way has a message
\* at work (send_worker.run).
THEOREM OutboxTypeCorrect == Spec => []TypeOK
<1>1. Init => TypeOK
  BY InitType
<1>2. TypeOK /\ [Next]_vars => TypeOK'
  BY StepType
<1> QED BY <1>1, <1>2, PTL DEF Spec

-----------------------------------------------------------------------------
\* The invariant behind deliveries and behind the status "sending".

\* The pass will come to m, or is about to decide on it.
Waiting(m) == m \in todo /\ (m # AtWork \/ pc = "check")

\* The worker holds m and may still deliver it or queue it again.
InHand(m) ==
  /\ todo # {} /\ m = AtWork
  /\ pc \in {"compose", "smtp"} \/ (pc = "record" /\ smtp # "ok")

One(condition) == IF condition THEN 1 ELSE 0

\* Deliveries of m that may still happen without another request.  A message
\* that waits in the pass counts once, whatever its row says.
Claims(m) == IF Waiting(m) THEN 1
             ELSE One(InHand(m)) + One(row[m].status = "queued")

ClaimsCovered ==
  \A m \in Messages : accepted[m] + Claims(m) <= enqueues[m] + ambiguous[m]

IdleHasNoPass == pc = "idle" => todo = {}

\* Only the worker writes "sending", and only to the message at work.
WaitingIsUnmarked ==
  \A m \in Messages :
    Waiting(m) => row[m].status # "sending" /\ view[m].status # "sending"

\* What the worker marked it finds marked when it loads the message again,
\* unless a request has replaced the mark; no request restores it.
MarkIsSeen ==
  pc \in {"smtp", "record"} =>
    (row[AtWork].status = "sending" => view[AtWork].status = "sending")

IInv ==
  /\ TypeOK
  /\ IdleHasNoPass
  /\ WaitingIsUnmarked
  /\ MarkIsSeen
  /\ SendingInFlight
  /\ ClaimsCovered

-----------------------------------------------------------------------------
\* What steps do to the status column.

\* A request leaves the status, queues the message or cancels it.
LEMMA WrittenStatus ==
  ASSUME NEW o, NEW c \in Row, NEW l \in Row
  PROVE  \/ Written(o, c, l).status = c.status
         \/ o \in Queueing /\ Written(o, c, l).status = "queued"
         \/ Written(o, c, l).status = "canceled"
<1> DEFINE object == Applied(o, l)
           flushed == Flush(c, l, object)
<1>1. object \in Row /\ flushed \in Row
  BY AppliedType, FlushType
<1>2. \/ object.status = l.status
      \/ o \in Queueing /\ object.status = "queued"
      \/ object.status = "canceled"
  BY DEF Applied, Queueing, Row
<1>3. flushed.status = IF object.status = l.status THEN c.status ELSE object.status
  BY <1>1, FlushStatus
<1>4. Written(o, c, l) = CASE o = "schedule" ->
                                [flushed EXCEPT !.sched = "future", !.undo = "open"]
                           [] o = "edit" -> [flushed EXCEPT !.undo = "open"]
                           [] OTHER -> flushed
  BY DEF Written
<1>5. Written(o, c, l).status = flushed.status
  <2> HIDE DEF flushed
  <2> QED BY <1>1, <1>4 DEF Row
<1> QED BY <1>2, <1>3, <1>5

LEMMA WorkerWritesStatus ==
  ASSUME TypeOK, pc # "idle", NEW o \in Row, WorkerWrites(o)
  PROVE  \A k \in Messages :
           row'[k].status = IF k = AtWork /\ o.status # view[k].status
                            THEN o.status ELSE row[k].status
<1>1. AtWork \in Messages
  BY AtWorkInPass DEF TypeOK
<1>2. row' = [row EXCEPT ![AtWork] = Flush(row[AtWork], view[AtWork], o)]
  BY DEF WorkerWrites
<1>3. row[AtWork] \in Row /\ view[AtWork] \in Row
  BY <1>1 DEF TypeOK
<1>4. Flush(row[AtWork], view[AtWork], o).status
        = IF o.status = view[AtWork].status THEN row[AtWork].status ELSE o.status
  BY <1>3, FlushStatus
<1>5. \A k \in Messages : k # AtWork => row'[k] = row[k]
  BY <1>2 DEF TypeOK
<1>6. row'[AtWork] = Flush(row[AtWork], view[AtWork], o)
  BY <1>1, <1>2 DEF TypeOK
<1> QED BY <1>4, <1>5, <1>6

LEMMA MarkedStatus ==
  ASSUME NEW c \in Row, NEW s \in {"failed", "sending"}
  PROVE  [c EXCEPT !.status = s] \in Row /\ [c EXCEPT !.status = s].status = s
  BY DEF Row

LEMMA OutcomeStatus ==
  ASSUME NEW r \in Row, NEW ok \in BOOLEAN
  PROVE  /\ Outcome(r, ok).status \in {"sent", "queued", "failed"}
         /\ ok => Outcome(r, ok).status = "sent"
  BY DEF Outcome, Row

LEMMA AtWorkStays == ASSUME todo' = todo PROVE AtWork' = AtWork
  BY DEF AtWork

-----------------------------------------------------------------------------
\* The steps that preserve the invariant.

Rest == WaitingIsUnmarked /\ MarkIsSeen /\ SendingInFlight /\ ClaimsCovered

\* Steps that leave every status alone, as the clock does.
LEMMA SameStatusPreserves ==
  ASSUME IInv,
         UNCHANGED <<pc, todo, smtp, enqueues, accepted, ambiguous, faults>>,
         \A k \in Messages : /\ row'[k].status = row[k].status
                             /\ view'[k].status = view[k].status
  PROVE  IdleHasNoPass' /\ Rest'
<1>1. AtWork' = AtWork
  BY AtWorkStays
<1>2. pc # "idle" => AtWork \in Messages
  BY AtWorkInPass DEF IInv, TypeOK
<1>3. IdleHasNoPass' /\ WaitingIsUnmarked'
  BY <1>1 DEF IInv, IdleHasNoPass, WaitingIsUnmarked, Waiting
<1>4. MarkIsSeen' /\ SendingInFlight'
  BY <1>1, <1>2 DEF IInv, MarkIsSeen, SendingInFlight
<1>5. ClaimsCovered'
  BY <1>1 DEF IInv, ClaimsCovered, Claims, Waiting, InHand, One
<1> QED BY <1>3, <1>4, <1>5 DEF Rest

LEMMA ClaimsOnlyFall ==
  ASSUME IInv, UNCHANGED <<enqueues, accepted, ambiguous>>,
         \A k \in Messages : Claims(k)' <= Claims(k)
  PROVE  ClaimsCovered'
<1>1. \A k \in Messages : Claims(k) \in Nat /\ Claims(k)' \in Nat
  BY DEF Claims, One
<1> QED BY <1>1 DEF IInv, TypeOK, ClaimsCovered

\* A pass ends or goes on with the next message.
LEMMA NextCandidatePreserves ==
  ASSUME IInv, pc \in {"check", "refresh"}, NextCandidate(IF pc = "check" THEN view ELSE row),
         UNCHANGED <<row, enqueues, accepted, ambiguous, faults>>
  PROVE  IdleHasNoPass' /\ Rest'
<1> DEFINE loaded == IF pc = "check" THEN view ELSE row
<1>1. AtWork \in todo /\ AtWork \in Messages
  BY AtWorkInPass DEF IInv, TypeOK
<1>2. /\ todo' = todo \ {AtWork}
      /\ pc' = IF todo' = {} THEN "idle" ELSE "check"
      /\ \A k \in todo' : view'[k] = loaded[k]
  BY <1>1 DEF NextCandidate, IInv, TypeOK
<1>3. \A k \in todo' : Waiting(k)
  BY <1>2 DEF Waiting
<1>4. \A k \in todo' : Waiting(k)'
  BY <1>2 DEF Waiting
<1>5. IdleHasNoPass'
  BY <1>2 DEF IdleHasNoPass
<1>6. WaitingIsUnmarked'
  BY <1>2, <1>3 DEF IInv, TypeOK, WaitingIsUnmarked, Waiting
<1>7. MarkIsSeen'
  BY <1>2 DEF MarkIsSeen
<1>8. SendingInFlight'
  BY <1>1, <1>2 DEF IInv, SendingInFlight, WaitingIsUnmarked, Waiting
<1>9. ASSUME NEW k \in Messages PROVE Claims(k)' <= Claims(k)
  <2>1. CASE k \in todo'
    BY <1>3, <1>4, <2>1 DEF Claims
  <2>2. CASE k \notin todo'
    <3>1. ~ Waiting(k)' /\ ~ InHand(k)'
      BY <1>2, <2>2 DEF Waiting, InHand
    <3>2. Claims(k)' = One(row[k].status = "queued")
      BY <3>1 DEF Claims, One
    <3> QED BY <3>2 DEF Claims, One
  <2> QED BY <2>1, <2>2
<1>10. ClaimsCovered'
  BY <1>9, ClaimsOnlyFall
<1> QED BY <1>5, <1>6, <1>7, <1>8, <1>10 DEF Rest

LEMMA PassLoadPreserves ==
  ASSUME IInv, PassLoad PROVE IdleHasNoPass' /\ Rest'
<1> USE DEF requestVars, sendHist, userHist
<1>1. /\ pc = "idle" /\ todo = {} /\ pc' = "check" /\ todo' # {}
      /\ todo' \subseteq Messages
      /\ \A k \in todo' : row[k].status = "queued" /\ view'[k] = row[k]
      /\ UNCHANGED <<row, smtp, enqueues, accepted, ambiguous, faults>>
  BY DEF PassLoad, IInv, IdleHasNoPass, Loaded, Oldest, Candidates
<1>2. IdleHasNoPass' /\ MarkIsSeen'
  BY <1>1 DEF IdleHasNoPass, MarkIsSeen
<1>3. WaitingIsUnmarked'
  BY <1>1 DEF WaitingIsUnmarked, Waiting
<1>4. SendingInFlight'
  BY <1>1 DEF IInv, SendingInFlight
<1>5. ASSUME NEW k \in Messages PROVE Claims(k)' <= Claims(k)
  <2>1. Claims(k) = One(row[k].status = "queued")
    BY <1>1 DEF Claims, Waiting, InHand, One
  <2>2. Claims(k)' = One(row[k].status = "queued")
    BY <1>1 DEF Claims, Waiting, InHand, One
  <2> QED BY <2>1, <2>2 DEF One
<1>6. ClaimsCovered'
  BY <1>1, <1>5, ClaimsOnlyFall
<1> QED BY <1>2, <1>3, <1>4, <1>6 DEF Rest

\* The worker writes a status to the row of the message at work.
LEMMA WorkerWriteFacts ==
  ASSUME IInv, pc # "idle", NEW o \in Row, WorkerWrites(o), UNCHANGED todo
  PROVE  /\ AtWork' = AtWork /\ AtWork \in todo /\ AtWork \in Messages
         /\ \A k \in Messages : k # AtWork => row'[k].status = row[k].status
         /\ row'[AtWork].status = IF o.status = view[AtWork].status
                                  THEN row[AtWork].status ELSE o.status
<1>1. AtWork' = AtWork
  BY AtWorkStays
<1>2. AtWork \in todo /\ AtWork \in Messages
  BY AtWorkInPass DEF IInv, TypeOK
<1> QED BY <1>1, <1>2, WorkerWritesStatus DEF IInv

LEMMA RefusePreserves ==
  ASSUME IInv, Refuse PROVE IdleHasNoPass' /\ Rest'
<1> USE DEF requestVars, sendHist, userHist
<1> DEFINE object == [view[AtWork] EXCEPT !.status = "failed"]
<1>1. AtWork \in todo /\ AtWork \in Messages /\ view[AtWork] \in Row
  BY AtWorkInPass DEF Refuse, IInv, TypeOK
<1>2. object \in Row /\ object.status = "failed"
  BY <1>1, MarkedStatus
<1>3. /\ pc = "check" /\ pc' = "refresh" /\ WorkerWrites(object)
      /\ UNCHANGED <<todo, view, smtp, enqueues, accepted, ambiguous, faults>>
  BY DEF Refuse
<1> HIDE DEF object
<1>4. /\ AtWork' = AtWork
      /\ \A k \in Messages : k # AtWork => row'[k].status = row[k].status
      /\ row'[AtWork].status \in {row[AtWork].status, "failed"}
  BY <1>2, <1>3, WorkerWriteFacts
<1>5. IdleHasNoPass' /\ MarkIsSeen'
  BY <1>3 DEF IdleHasNoPass, MarkIsSeen
<1>6. WaitingIsUnmarked'
  BY <1>3, <1>4 DEF IInv, TypeOK, WaitingIsUnmarked, Waiting
<1>7. SendingInFlight'
  BY <1>1, <1>3, <1>4 DEF IInv, SendingInFlight, WaitingIsUnmarked, Waiting
<1>8. ASSUME NEW k \in Messages PROVE Claims(k)' <= Claims(k)
  BY <1>1, <1>3, <1>4 DEF Claims, Waiting, InHand, One
<1>9. ClaimsCovered'
  BY <1>3, <1>8, ClaimsOnlyFall
<1> QED BY <1>5, <1>6, <1>7, <1>9 DEF Rest

\* The mark uses up the claim of the queue: nobody else will pick m up.
LEMMA MarkSendingPreserves ==
  ASSUME IInv, MarkSending PROVE IdleHasNoPass' /\ Rest'
<1> USE DEF requestVars, sendHist, userHist
<1> DEFINE object == [view[AtWork] EXCEPT !.status = "sending"]
<1>1. AtWork \in todo /\ AtWork \in Messages /\ view[AtWork] \in Row
  BY AtWorkInPass DEF MarkSending, IInv, TypeOK
<1>2. object \in Row /\ object.status = "sending"
  BY <1>1, MarkedStatus
<1>3. /\ pc = "check" /\ pc' = "compose" /\ WorkerWrites(object)
      /\ UNCHANGED <<todo, view, smtp, enqueues, accepted, ambiguous, faults>>
  BY DEF MarkSending
<1>4. view[AtWork].status # "sending"
  BY <1>1, <1>3 DEF IInv, WaitingIsUnmarked, Waiting
<1> HIDE DEF object
<1>5. /\ AtWork' = AtWork
      /\ \A k \in Messages : k # AtWork => row'[k].status = row[k].status
      /\ row'[AtWork].status = "sending"
  BY <1>2, <1>3, <1>4, WorkerWriteFacts
<1>6. IdleHasNoPass' /\ MarkIsSeen'
  BY <1>3 DEF IdleHasNoPass, MarkIsSeen
<1>7. WaitingIsUnmarked'
  BY <1>3, <1>5 DEF IInv, TypeOK, WaitingIsUnmarked, Waiting
<1>8. SendingInFlight'
  BY <1>1, <1>3, <1>5 DEF IInv, SendingInFlight
<1>9. ASSUME NEW k \in Messages PROVE Claims(k)' <= Claims(k)
  BY <1>1, <1>3, <1>5 DEF Claims, Waiting, InHand, One
<1>10. ClaimsCovered'
  BY <1>3, <1>9, ClaimsOnlyFall
<1> QED BY <1>6, <1>7, <1>8, <1>10 DEF Rest

LEMMA ComposePreserves ==
  ASSUME IInv, Compose PROVE IdleHasNoPass' /\ Rest'
<1> USE DEF requestVars, sendHist, userHist
<1>1. AtWork \in todo /\ AtWork \in Messages /\ AtWork' = AtWork
  BY AtWorkInPass, AtWorkStays DEF Compose, IInv, TypeOK
<1>2. /\ pc = "compose" /\ pc' = "smtp" /\ view'[AtWork] = row[AtWork]
      /\ \A k \in Messages : k # AtWork => view'[k] = view[k]
      /\ UNCHANGED <<row, todo, smtp, enqueues, accepted, ambiguous, faults>>
  BY <1>1 DEF Compose, IInv, TypeOK
<1>3. IdleHasNoPass' /\ MarkIsSeen'
  BY <1>1, <1>2 DEF IdleHasNoPass, MarkIsSeen
<1>4. WaitingIsUnmarked'
  BY <1>1, <1>2 DEF IInv, WaitingIsUnmarked, Waiting
<1>5. SendingInFlight'
  BY <1>1, <1>2 DEF IInv, SendingInFlight
<1>6. \A k \in Messages : Claims(k)' <= Claims(k)
  BY <1>1, <1>2 DEF Claims, Waiting, InHand, One
<1>7. ClaimsCovered'
  BY <1>2, <1>6, ClaimsOnlyFall
<1> QED BY <1>3, <1>4, <1>5, <1>7 DEF Rest

\* A delivery uses up the claim of the message in hand, unless it is explained.
LEMMA SendPreserves ==
  ASSUME IInv, Send PROVE IdleHasNoPass' /\ Rest'
<1> USE DEF requestVars, sendHist, userHist
<1>1. AtWork \in todo /\ AtWork \in Messages /\ AtWork' = AtWork
  BY AtWorkInPass, AtWorkStays DEF Send, IInv, TypeOK
<1>2. /\ pc = "smtp" /\ pc' = "record"
      /\ UNCHANGED <<row, todo, view, enqueues, faults>>
  BY DEF Send
<1>3. PICK took \in BOOLEAN, ok \in BOOLEAN :
        /\ ok => took
        /\ smtp' = IF ok THEN "ok" ELSE "failed"
        /\ accepted' = [accepted EXCEPT ![AtWork] = IF took THEN @ + 1 ELSE @]
        /\ ambiguous' = [ambiguous EXCEPT ![AtWork] = IF took /\ ~ok THEN @ + 1 ELSE @]
  BY DEF Send
<1>4. IdleHasNoPass' /\ MarkIsSeen'
  BY <1>1, <1>2 DEF IInv, IdleHasNoPass, MarkIsSeen
<1>5. WaitingIsUnmarked'
  BY <1>1, <1>2 DEF IInv, WaitingIsUnmarked, Waiting
<1>6. SendingInFlight'
  BY <1>1, <1>2 DEF IInv, SendingInFlight
<1>7. ASSUME NEW k \in Messages
      PROVE  accepted'[k] + Claims(k)' <= enqueues'[k] + ambiguous'[k]
  <2>1. accepted[k] + Claims(k) <= enqueues[k] + ambiguous[k]
    BY DEF IInv, ClaimsCovered
  <2>2. Claims(k) \in Nat /\ Claims(k)' \in Nat
    BY DEF Claims, One
  <2>3. accepted[k] \in Nat /\ enqueues[k] \in Nat /\ ambiguous[k] \in Nat
    BY DEF IInv, TypeOK
  <2>4. CASE k # AtWork
    <3>1. accepted'[k] = accepted[k] /\ ambiguous'[k] = ambiguous[k]
      BY <1>3, <2>4 DEF IInv, TypeOK
    <3>2. Claims(k)' = Claims(k)
      BY <1>1, <1>2, <2>4 DEF Claims, Waiting, InHand, One
    <3> QED BY <1>2, <2>1, <3>1, <3>2
  <2>5. CASE k = AtWork
    <3>1. Claims(k) = 1 + One(row[k].status = "queued")
      BY <1>1, <1>2, <2>5 DEF Claims, Waiting, InHand, One
    <3>2. Claims(k)' = One(~ok) + One(row[k].status = "queued")
      BY <1>1, <1>2, <1>3, <2>5 DEF Claims, Waiting, InHand, One
    <3>3. accepted'[k] = accepted[k] + One(took) /\ ambiguous'[k] = ambiguous[k] + One(took /\ ~ok)
      BY <1>1, <1>3, <2>5 DEF IInv, TypeOK, One
    <3> QED BY <1>2, <1>3, <2>1, <2>3, <3>1, <3>2, <3>3 DEF One
  <2> QED BY <2>4, <2>5
<1>8. ClaimsCovered'
  BY <1>7 DEF ClaimsCovered
<1> QED BY <1>4, <1>5, <1>6, <1>8 DEF Rest

\* What is recorded as sent is not queued again by the worker.
LEMMA RecordPreserves ==
  ASSUME IInv, Record PROVE IdleHasNoPass' /\ Rest'
<1> USE DEF requestVars, sendHist, userHist
<1> DEFINE object == Outcome(view[AtWork], smtp = "ok")
<1>1. AtWork \in todo /\ AtWork \in Messages /\ view[AtWork] \in Row
  BY AtWorkInPass DEF Record, IInv, TypeOK
<1>2. /\ object \in Row /\ object.status \in {"sent", "queued", "failed"}
      /\ smtp = "ok" => object.status = "sent"
  BY <1>1, OutcomeType, OutcomeStatus
<1>3. /\ pc = "record" /\ pc' = "refresh" /\ WorkerWrites(object)
      /\ UNCHANGED <<todo, view, smtp, enqueues, accepted, ambiguous, faults>>
  BY DEF Record
<1> HIDE DEF object
<1>4. /\ AtWork' = AtWork
      /\ \A k \in Messages : k # AtWork => row'[k].status = row[k].status
      /\ row'[AtWork].status = IF object.status = view[AtWork].status
                               THEN row[AtWork].status ELSE object.status
  BY <1>2, <1>3, WorkerWriteFacts
<1>5. IdleHasNoPass' /\ MarkIsSeen'
  BY <1>3 DEF IdleHasNoPass, MarkIsSeen
<1>6. WaitingIsUnmarked'
  BY <1>3, <1>4 DEF IInv, TypeOK, WaitingIsUnmarked, Waiting
<1>7. row'[AtWork].status # "sending"
  BY <1>2, <1>3, <1>4 DEF IInv, MarkIsSeen
<1>8. SendingInFlight'
  BY <1>1, <1>3, <1>4, <1>7 DEF IInv, SendingInFlight
<1>9. \A k \in Messages : Claims(k)' <= Claims(k)
  BY <1>1, <1>2, <1>3, <1>4 DEF Claims, Waiting, InHand, One
<1>10. ClaimsCovered'
  BY <1>3, <1>9, ClaimsOnlyFall
<1> QED BY <1>5, <1>6, <1>8, <1>10 DEF Rest

\* A pass that fails gives up its claims; "sending" is left behind.
LEMMA PassFailsPreserves ==
  ASSUME IInv, PassFails PROVE IdleHasNoPass' /\ Rest'
<1> USE DEF requestVars, sendHist, userHist
<1>1. /\ pc' = "idle" /\ todo' = {} /\ faults' = faults + 1
      /\ UNCHANGED <<row, enqueues, accepted, ambiguous>>
  BY DEF PassFails
<1>2. IdleHasNoPass' /\ MarkIsSeen' /\ WaitingIsUnmarked'
  BY <1>1 DEF IdleHasNoPass, MarkIsSeen, WaitingIsUnmarked, Waiting
<1>3. SendingInFlight'
  BY <1>1 DEF IInv, TypeOK, SendingInFlight
<1>4. \A k \in Messages : Claims(k)' <= Claims(k)
  BY <1>1 DEF Claims, Waiting, InHand, One
<1>5. ClaimsCovered'
  BY <1>1, <1>4, ClaimsOnlyFall
<1> QED BY <1>2, <1>3, <1>5 DEF Rest

\* A request that queues a message brings the claim it may need.
LEMMA RequestCommitPreserves ==
  ASSUME IInv, NEW r \in Requests, RequestCommit(r) PROVE IdleHasNoPass' /\ Rest'
<1> USE DEF workerVars, sendHist
<1> DEFINE m == target[r]
           written == Written(op[r], row[m], copy[r])
<1>1. m \in Messages /\ row[m] \in Row /\ copy[r] \in Row
  BY DEF RequestCommit, IInv, TypeOK
<1>2. /\ AtWork' = AtWork
      /\ UNCHANGED <<pc, todo, view, smtp, accepted, ambiguous, faults>>
  BY AtWorkStays DEF RequestCommit
<1>3. \/ written.status = row[m].status
      \/ op[r] \in Queueing /\ written.status = "queued"
      \/ written.status = "canceled"
  BY <1>1, WrittenStatus
<1>4. row'[m] = written /\ \A k \in Messages : k # m => row'[k] = row[k]
  BY <1>1 DEF RequestCommit, IInv, TypeOK
<1>5. /\ enqueues'[m] = enqueues[m] + One(op[r] \in Queueing)
      /\ \A k \in Messages : k # m => enqueues'[k] = enqueues[k]
  BY <1>1 DEF RequestCommit, IInv, TypeOK, One
<1>6. pc # "idle" => AtWork \in Messages
  BY AtWorkInPass DEF IInv, TypeOK
<1> HIDE DEF m, written
<1>7. IdleHasNoPass'
  BY <1>2 DEF IInv, IdleHasNoPass
<1>8. MarkIsSeen'
  BY <1>2, <1>3, <1>4, <1>6 DEF IInv, MarkIsSeen
<1>9. WaitingIsUnmarked'
  BY <1>2, <1>3, <1>4 DEF IInv, WaitingIsUnmarked, Waiting
<1>10. SendingInFlight'
  BY <1>2, <1>3, <1>4 DEF IInv, SendingInFlight
<1>11. ASSUME NEW k \in Messages
       PROVE  accepted'[k] + Claims(k)' <= enqueues'[k] + ambiguous'[k]
  <2>1. accepted[k] + Claims(k) <= enqueues[k] + ambiguous[k]
    BY DEF IInv, ClaimsCovered
  <2>2. Claims(k) \in Nat /\ Claims(k)' \in Nat
    BY DEF Claims, One
  <2>3. accepted[k] \in Nat /\ enqueues[k] \in Nat /\ ambiguous[k] \in Nat
    BY DEF IInv, TypeOK
  <2>4. CASE k # m
    <3>1. Claims(k)' = Claims(k)
      BY <1>2, <1>4, <2>4 DEF Claims, Waiting, InHand, One
    <3> QED BY <1>2, <1>5, <2>1, <2>4, <3>1
  <2>5. CASE k = m
    <3>1. Claims(k)' <= Claims(k) + One(op[r] \in Queueing)
      BY <1>2, <1>3, <1>4, <2>5 DEF Claims, Waiting, InHand, One
    <3> QED BY <1>2, <1>5, <2>1, <2>2, <2>3, <2>5, <3>1 DEF One
  <2> QED BY <2>4, <2>5
<1>12. ClaimsCovered'
  BY <1>11 DEF ClaimsCovered
<1> QED BY <1>7, <1>8, <1>9, <1>10, <1>12 DEF Rest

\* The clock, the mailbox and requests that have only loaded a row.
LEMMA OtherPreserves ==
  ASSUME IInv,
         \/ ConnectionChanges \/ UNCHANGED vars
         \/ \E r \in Requests, m \in Messages, o \in Ops : RequestLoad(r, m, o)
         \/ \E m \in Messages : UndoElapses(m) \/ OldUndoElapses(m) \/ ScheduleReached(m)
  PROVE  IdleHasNoPass' /\ Rest'
<1> USE DEF workerVars, requestVars, sendHist, userHist
<1> DEFINE SameStatus == \A k \in Messages : /\ row'[k].status = row[k].status
                                             /\ view'[k].status = view[k].status
           SameRest == UNCHANGED <<pc, todo, smtp, enqueues, accepted, ambiguous, faults>>
<1>1. CASE ConnectionChanges
  BY <1>1, SameStatusPreserves DEF ConnectionChanges
<1>2. CASE UNCHANGED vars
  BY <1>2, SameStatusPreserves DEF vars
<1>3. CASE \E r \in Requests, m \in Messages, o \in Ops : RequestLoad(r, m, o)
  BY <1>3, SameStatusPreserves DEF RequestLoad
<1>4. ASSUME NEW m \in Messages, UndoElapses(m) \/ OldUndoElapses(m) \/ ScheduleReached(m)
      PROVE  SameStatus /\ SameRest
  <2>1. ASSUME NEW c \in Row, NEW x
        PROVE  /\ [c EXCEPT !.undo = x].status = c.status
               /\ [c EXCEPT !.sched = x].status = c.status
    BY DEF Row
  <2>2. row[m] \in Row /\ view[m] \in Row
    BY DEF IInv, TypeOK
  <2>3. CASE UndoElapses(m)
    <3>1. row' = [row EXCEPT ![m] = [row[m] EXCEPT !.undo = "elapsed"]]
      BY <2>3 DEF UndoElapses
    <3>2. view' = [view EXCEPT ![m] =
                     [view[m] EXCEPT !.undo = IF m \in todo THEN "elapsed" ELSE @]]
      BY <2>3 DEF UndoElapses
    <3>3. SameStatus
      BY <2>1, <2>2, <3>1, <3>2 DEF IInv, TypeOK
    <3> QED BY <2>3, <3>3 DEF UndoElapses
  <2>4. CASE OldUndoElapses(m)
    <3>1. view' = [view EXCEPT ![m] = [view[m] EXCEPT !.undo = "elapsed"]] /\ row' = row
      BY <2>4 DEF OldUndoElapses
    <3>2. SameStatus
      BY <2>1, <2>2, <3>1 DEF IInv, TypeOK
    <3> QED BY <2>4, <3>2 DEF OldUndoElapses
  <2>5. CASE ScheduleReached(m)
    <3>1. row' = [row EXCEPT ![m] = [row[m] EXCEPT !.sched = "reached"]]
      BY <2>5 DEF ScheduleReached
    <3>2. SameStatus
      BY <2>1, <2>2, <2>5, <3>1 DEF ScheduleReached, IInv, TypeOK
    <3> QED BY <2>5, <3>2 DEF ScheduleReached
  <2> QED BY <1>4, <2>3, <2>4, <2>5
<1> QED BY <1>1, <1>2, <1>3, <1>4, SameStatusPreserves

-----------------------------------------------------------------------------
\* The theorems.

LEMMA InitIInv == Init => IInv
<1> SUFFICES ASSUME Init PROVE IInv
  OBVIOUS
<1>1. TypeOK
  BY InitType
<1>2. \A k \in Messages : row[k].status = "none"
  BY DEF Init, Draft
<1>3. IdleHasNoPass /\ WaitingIsUnmarked /\ MarkIsSeen /\ SendingInFlight
  BY <1>2 DEF Init, IdleHasNoPass, WaitingIsUnmarked, Waiting, MarkIsSeen, SendingInFlight
<1>4. ClaimsCovered
  BY <1>2 DEF Init, ClaimsCovered, Claims, Waiting, InHand, One
<1> QED BY <1>1, <1>3, <1>4 DEF IInv

LEMMA StepIInv == IInv /\ [Next]_vars => IInv'
<1> SUFFICES ASSUME IInv, [Next]_vars PROVE IInv'
  OBVIOUS
<1>1. TypeOK'
  BY StepType DEF IInv
<1>2. ASSUME IdleHasNoPass' /\ Rest' PROVE IInv'
  BY <1>1, <1>2 DEF Rest, IInv
<1>3. CASE PassLoad
  BY <1>2, <1>3, PassLoadPreserves
<1>4. CASE PassOver
  <2>1. /\ pc = "check" /\ NextCandidate(IF pc = "check" THEN view ELSE row)
        /\ UNCHANGED <<row, enqueues, accepted, ambiguous, faults>>
    BY <1>4 DEF PassOver, sendHist, userHist
  <2> QED BY <1>2, <2>1, NextCandidatePreserves
<1>5. CASE Refresh
  <2>1. /\ pc = "refresh" /\ NextCandidate(IF pc = "check" THEN view ELSE row)
        /\ UNCHANGED <<row, enqueues, accepted, ambiguous, faults>>
    BY <1>5 DEF Refresh, sendHist, userHist
  <2> QED BY <1>2, <2>1, NextCandidatePreserves
<1>6. CASE Refuse
  BY <1>2, <1>6, RefusePreserves
<1>7. CASE MarkSending
  BY <1>2, <1>7, MarkSendingPreserves
<1>8. CASE Compose
  BY <1>2, <1>8, ComposePreserves
<1>9. CASE Send
  BY <1>2, <1>9, SendPreserves
<1>10. CASE Record
  BY <1>2, <1>10, RecordPreserves
<1>11. CASE PassFails
  BY <1>2, <1>11, PassFailsPreserves
<1>12. CASE \E r \in Requests : RequestCommit(r)
  BY <1>2, <1>12, RequestCommitPreserves
<1>13. CASE \/ ConnectionChanges \/ UNCHANGED vars
            \/ \E r \in Requests, m \in Messages, o \in Ops : RequestLoad(r, m, o)
            \/ \E m \in Messages : UndoElapses(m) \/ OldUndoElapses(m) \/ ScheduleReached(m)
  BY <1>2, <1>13, OtherPreserves
<1> QED BY <1>3, <1>4, <1>5, <1>6, <1>7, <1>8, <1>9, <1>10, <1>11, <1>12, <1>13
        DEF Next, WorkerStep

\* However requests, crashes and lost answers interleave with the worker
\* (send_worker.run, compose_api), the server takes a message no more often than
\* it was queued, except after attempts it took and the worker saw fail.
THEOREM OutboxDeliveriesExplained == Spec => []DeliveriesExplained
<1>1. IInv => DeliveriesExplained
  <2>1. \A k \in Messages : Claims(k) \in Nat
    BY DEF Claims, One
  <2> QED BY <2>1 DEF IInv, TypeOK, ClaimsCovered, DeliveriesExplained
<1> QED BY <1>1, InitIInv, StepIInv, PTL DEF Spec

\* Without a failed pass a row says "sending" only while the worker holds it
\* (send_worker.run): no interleaving with requests leaves it there.
THEOREM OutboxSendingInFlight == Spec => []SendingInFlight
<1>1. IInv => SendingInFlight
  BY DEF IInv
<1> QED BY <1>1, InitIInv, StepIInv, PTL DEF Spec

-----------------------------------------------------------------------------
\* The budget of SMTP attempts.

\* Attempts that follow one that fails as attempt a + 1, without a new request.
Again(a) == IF a + 1 < MAX_RETRIES THEN MAX_RETRIES - a - 1 ELSE 0

Larger(a, b) == IF a < b THEN b ELSE a

\* Attempts that the row of m alone allows.
FromRow(m) == IF row[m].status = "queued" THEN 1 + Again(row[m].attempts) ELSE 0

\* Attempts on m that may still happen without another request.  What a request
\* queues while the worker holds m does not add to what the worker will record:
\* the outcome overwrites the attempts the request has reset.  Only a pass that
\* fails leaves what the row allows.
Sends(m) ==
  CASE Waiting(m) -> 1 + Again(row[m].attempts)
    [] todo # {} /\ m = AtWork /\ pc = "compose" ->
         1 + Larger(Again(row[m].attempts), FromRow(m))
    [] todo # {} /\ m = AtWork /\ pc = "smtp" ->
         1 + Larger(Again(view[m].attempts), FromRow(m))
    [] todo # {} /\ m = AtWork /\ pc = "record" /\ smtp # "ok" ->
         Larger(Again(view[m].attempts), FromRow(m))
    [] OTHER -> FromRow(m)

SmtpCovered == \A m \in Messages : handed[m] + Sends(m) <= MAX_RETRIES * enqueues[m]

LEMMA AgainBounds ==
  ASSUME NEW a \in Nat
  PROVE  /\ MAX_RETRIES \in Nat /\ MAX_RETRIES >= 1
         /\ Again(a) \in Nat /\ Again(a) + 1 <= MAX_RETRIES
  BY LimitsAssumption DEF Again

LEMMA SendsType ==
  ASSUME TypeOK, NEW m \in Messages
  PROVE  /\ row[m].attempts \in Nat /\ view[m].attempts \in Nat
         /\ FromRow(m) \in Nat /\ FromRow(m) <= MAX_RETRIES
         /\ Sends(m) \in Nat /\ FromRow(m) <= Sends(m)
<1>1. row[m].attempts \in Nat /\ view[m].attempts \in Nat
  BY DEF TypeOK, Row
<1>2. /\ Again(row[m].attempts) \in Nat /\ Again(view[m].attempts) \in Nat
      /\ Again(row[m].attempts) + 1 <= MAX_RETRIES /\ MAX_RETRIES \in Nat
  BY <1>1, AgainBounds
<1>3. FromRow(m) \in Nat /\ FromRow(m) <= MAX_RETRIES /\ FromRow(m) <= 1 + Again(row[m].attempts)
  BY <1>2 DEF FromRow
<1> QED BY <1>1, <1>2, <1>3 DEF Sends, Larger

\* The column attempts after each kind of commit.

LEMMA FlushAttempts ==
  ASSUME NEW c \in Row, NEW l \in Row, NEW o \in Row
  PROVE  Flush(c, l, o).attempts
           = IF o.attempts = l.attempts THEN c.attempts ELSE o.attempts
  BY DEF Flush, Changed, Row

LEMMA WrittenAttempts ==
  ASSUME NEW o, NEW c \in Row, NEW l \in Row
  PROVE  /\ Written(o, c, l).attempts \in {0, c.attempts}
         /\ o \notin Queueing => Written(o, c, l).attempts = c.attempts
<1> DEFINE object == Applied(o, l)
           flushed == Flush(c, l, object)
<1>1. object \in Row /\ flushed \in Row
  BY AppliedType, FlushType
<1>2. object.attempts = l.attempts \/ (o \in Queueing /\ object.attempts = 0)
  BY DEF Applied, Queueing, Row
<1>3. flushed.attempts = IF object.attempts = l.attempts THEN c.attempts ELSE object.attempts
  BY <1>1, FlushAttempts
<1>4. Written(o, c, l) = CASE o = "schedule" ->
                                [flushed EXCEPT !.sched = "future", !.undo = "open"]
                           [] o = "edit" -> [flushed EXCEPT !.undo = "open"]
                           [] OTHER -> flushed
  BY DEF Written
<1>5. Written(o, c, l).attempts = flushed.attempts
  <2> HIDE DEF flushed
  <2> QED BY <1>1, <1>4 DEF Row
<1> QED BY <1>2, <1>3, <1>5

LEMMA WorkerWritesAttempts ==
  ASSUME TypeOK, pc # "idle", NEW o \in Row, WorkerWrites(o)
  PROVE  \A k \in Messages :
           row'[k].attempts = IF k = AtWork /\ o.attempts # view[k].attempts
                              THEN o.attempts ELSE row[k].attempts
<1>1. AtWork \in Messages
  BY AtWorkInPass DEF TypeOK
<1>2. row' = [row EXCEPT ![AtWork] = Flush(row[AtWork], view[AtWork], o)]
  BY DEF WorkerWrites
<1>3. row[AtWork] \in Row /\ view[AtWork] \in Row
  BY <1>1 DEF TypeOK
<1>4. Flush(row[AtWork], view[AtWork], o).attempts
        = IF o.attempts = view[AtWork].attempts THEN row[AtWork].attempts ELSE o.attempts
  BY <1>3, FlushAttempts
<1>5. \A k \in Messages : k # AtWork => row'[k] = row[k]
  BY <1>2 DEF TypeOK
<1>6. row'[AtWork] = Flush(row[AtWork], view[AtWork], o)
  BY <1>1, <1>2 DEF TypeOK
<1> QED BY <1>4, <1>5, <1>6

LEMMA OutcomeColumns ==
  ASSUME NEW r \in Row, NEW ok \in BOOLEAN
  PROVE  /\ ok => Outcome(r, ok).status = "sent" /\ Outcome(r, ok).attempts = r.attempts
         /\ ~ok => /\ Outcome(r, ok).attempts = r.attempts + 1
                   /\ Outcome(r, ok).status =
                        IF r.attempts + 1 >= MAX_RETRIES THEN "failed" ELSE "queued"
<1>1. r.attempts + 1 \in Nat
  BY DEF Row
<1>2. [r EXCEPT !.status = "sent"].status = "sent" /\ [r EXCEPT !.status = "sent"].attempts = r.attempts
  BY DEF Row
<1>3. ASSUME NEW s \in {"queued", "failed"}
      PROVE  /\ [r EXCEPT !.status = s, !.attempts = @ + 1].status = s
             /\ [r EXCEPT !.status = s, !.attempts = @ + 1].attempts = r.attempts + 1
  BY <1>3 DEF Row
<1>4. ASSUME ok PROVE Outcome(r, ok) = [r EXCEPT !.status = "sent"]
  BY <1>4 DEF Outcome
<1>5. ASSUME ~ok, r.attempts + 1 >= MAX_RETRIES
      PROVE  Outcome(r, ok) = [r EXCEPT !.status = "failed", !.attempts = @ + 1]
  BY <1>5 DEF Outcome
<1>6. ASSUME ~ok, ~(r.attempts + 1 >= MAX_RETRIES)
      PROVE  Outcome(r, ok) = [r EXCEPT !.status = "queued", !.attempts = @ + 1]
  BY <1>6 DEF Outcome
<1> QED BY <1>2, <1>3, <1>4, <1>5, <1>6

-----------------------------------------------------------------------------
\* The steps that preserve the budget.

LEMMA SendsOnlyFall ==
  ASSUME TypeOK, TypeOK', SmtpCovered, UNCHANGED <<enqueues, handed>>,
         \A k \in Messages : Sends(k)' <= Sends(k)
  PROVE  SmtpCovered'
<1>1. \A k \in Messages : Sends(k) \in Nat /\ Sends(k)' \in Nat
  <2>1. \A k \in Messages : Sends(k) \in Nat
    BY SendsType
  <2>2. ASSUME NEW k \in Messages PROVE Sends(k)' \in Nat
    <3>1. row'[k].attempts \in Nat /\ view'[k].attempts \in Nat
      BY DEF TypeOK, Row
    <3>2. Again(row'[k].attempts) \in Nat /\ Again(view'[k].attempts) \in Nat
      BY <3>1, AgainBounds
    <3>3. FromRow(k)' \in Nat
      BY <3>2 DEF FromRow
    <3> QED BY <3>2, <3>3 DEF Sends, Larger
  <2> QED BY <2>1, <2>2
<1>2. \A k \in Messages : handed[k] \in Nat /\ MAX_RETRIES * enqueues[k] \in Nat
  BY LimitsAssumption DEF TypeOK
<1> QED BY <1>1, <1>2 DEF SmtpCovered
\* Steps that leave the columns and the worker's progress alone, as the clock does.
LEMMA SameColumnsFall ==
  ASSUME IInv, UNCHANGED <<pc, todo, smtp>>, NEW k \in Messages,
         /\ row'[k].status = row[k].status /\ row'[k].attempts = row[k].attempts
         /\ view'[k].attempts = view[k].attempts
  PROVE  Sends(k)' <= Sends(k)
<1>1. AtWork' = AtWork
  BY AtWorkStays
<1>2. FromRow(k)' = FromRow(k)
  BY DEF FromRow
<1>3. Sends(k)' = Sends(k)
  BY <1>1, <1>2 DEF Sends, Waiting
<1> QED BY <1>3, SendsType DEF IInv

\* The end of the work on a message leaves it what its row allows.
LEMMA NextCandidateFalls ==
  ASSUME IInv, pc \in {"check", "refresh"}, NEW v, NextCandidate(v), UNCHANGED row,
         NEW k \in Messages
  PROVE  Sends(k)' <= Sends(k)
<1>1. AtWork \in todo
  BY AtWorkInPass DEF IInv, TypeOK
<1>2. todo' = todo \ {AtWork} /\ pc' = IF todo' = {} THEN "idle" ELSE "check"
  BY DEF NextCandidate
<1>3. FromRow(k)' = FromRow(k)
  BY DEF FromRow
<1>4. /\ FromRow(k) \in Nat /\ Sends(k) \in Nat /\ FromRow(k) <= Sends(k)
      /\ row[k].attempts \in Nat
  BY SendsType DEF IInv
<1>5. CASE k \in todo'
  <2>1. Waiting(k)
    BY <1>2, <1>5 DEF Waiting
  <2>2. Sends(k) = 1 + Again(row[k].attempts)
    BY <2>1 DEF Sends
  <2>3. Waiting(k)' /\ row'[k].attempts = row[k].attempts
    BY <1>2, <1>5 DEF Waiting
  <2>4. pc' = "check"
    BY <1>2, <1>5
  <2>5. Sends(k)' = 1 + Again(row'[k].attempts)
    BY <2>3, <2>4 DEF Sends
  <2> QED BY <1>4, <2>2, <2>3, <2>5
<1>6. CASE k \notin todo'
  <2>1. ~Waiting(k)' /\ pc' \in {"idle", "check"}
    BY <1>2, <1>6 DEF Waiting
  <2>2. Sends(k)' = FromRow(k)'
    BY <2>1 DEF Sends
  <2> QED BY <1>3, <1>4, <2>2
<1> QED BY <1>5, <1>6

LEMMA PassLoadFalls ==
  ASSUME IInv, PassLoad, NEW k \in Messages PROVE Sends(k)' <= Sends(k)
<1>1. /\ pc = "idle" /\ todo = {} /\ pc' = "check"
      /\ \A m \in todo' : row[m].status = "queued"
      /\ UNCHANGED row
  BY DEF PassLoad, IInv, IdleHasNoPass, Oldest, Candidates
<1>2. Sends(k) = FromRow(k) /\ FromRow(k)' = FromRow(k)
  BY <1>1 DEF Sends, Waiting, FromRow
<1>3. Again(row[k].attempts) \in Nat /\ FromRow(k) \in Nat
  BY SendsType, AgainBounds DEF IInv
<1>4. CASE Waiting(k)'
  <2>1. row[k].status = "queued"
    BY <1>1, <1>4 DEF Waiting
  <2>2. Sends(k)' = 1 + Again(row[k].attempts)
    BY <1>1, <1>4 DEF Sends
  <2> QED BY <1>2, <1>3, <2>1, <2>2 DEF FromRow
<1>5. CASE ~Waiting(k)'
  <2>1. Sends(k)' = FromRow(k)'
    BY <1>1, <1>5 DEF Sends
  <2> QED BY <1>2, <1>3, <2>1
<1> QED BY <1>4, <1>5

\* The worker's commit at the start of its work: "failed" or "sending".
LEMMA MarkFalls ==
  ASSUME IInv, pc = "check", NEW s \in {"failed", "sending"},
         WorkerWrites([view[AtWork] EXCEPT !.status = s]), UNCHANGED <<todo, smtp>>,
         pc' = IF s = "failed" THEN "refresh" ELSE "compose", NEW k \in Messages
  PROVE  Sends(k)' <= Sends(k)
<1> DEFINE object == [view[AtWork] EXCEPT !.status = s]
<1>1. AtWork \in todo /\ AtWork \in Messages /\ view[AtWork] \in Row /\ AtWork' = AtWork
  BY AtWorkInPass, AtWorkStays DEF IInv, TypeOK
<1>2. object \in Row /\ object.status = s /\ object.attempts = view[AtWork].attempts
  BY <1>1, MarkedStatus DEF Row
<1>3. WorkerWrites(object)
  OBVIOUS
<1> HIDE DEF object
<1>4. row'[k].attempts = row[k].attempts
  BY <1>2, <1>3, WorkerWritesAttempts DEF IInv
<1>5. row'[k].status = IF k = AtWork /\ s # view[k].status THEN s ELSE row[k].status
  BY <1>2, <1>3, WorkerWritesStatus DEF IInv
<1>6. /\ Again(row[k].attempts) \in Nat /\ FromRow(k) \in Nat /\ Sends(k) \in Nat
      /\ FromRow(k) <= Sends(k)
  BY SendsType, AgainBounds DEF IInv
<1>7. CASE k # AtWork
  <2>1. FromRow(k)' = FromRow(k)
    BY <1>4, <1>5, <1>7 DEF FromRow
  <2>2. Sends(k)' = Sends(k)
    BY <1>1, <1>4, <1>7, <2>1 DEF Sends, Waiting
  <2> QED BY <1>6, <2>2
<1>8. CASE k = AtWork
  <2>1. Sends(k) = 1 + Again(row[k].attempts)
    BY <1>1, <1>8 DEF Sends, Waiting
  <2>2. CASE s = "sending"
    <3>1. row'[k].status = "sending"
      BY <1>1, <1>5, <1>8, <2>2 DEF IInv, WaitingIsUnmarked, Waiting
    <3>2. FromRow(k)' = 0
      BY <3>1 DEF FromRow
    <3>3. Sends(k)' = 1 + Larger(Again(row[k].attempts), 0)
      BY <1>1, <1>4, <1>8, <2>2, <3>2 DEF Sends, Waiting
    <3> QED BY <1>6, <2>1, <3>3 DEF Larger
  <2>3. CASE s = "failed"
    <3>1. Sends(k)' = FromRow(k)'
      BY <1>1, <1>8, <2>3 DEF Sends, Waiting
    <3>2. FromRow(k)' \in {0, 1 + Again(row[k].attempts)}
      BY <1>4 DEF FromRow
    <3> QED BY <1>6, <2>1, <3>1, <3>2
  <2> QED BY <2>2, <2>3
<1> QED BY <1>7, <1>8

LEMMA ComposeFalls ==
  ASSUME IInv, Compose, NEW k \in Messages PROVE Sends(k)' <= Sends(k)
<1>1. AtWork \in todo /\ AtWork \in Messages /\ AtWork' = AtWork
  BY AtWorkInPass, AtWorkStays DEF Compose, IInv, TypeOK
<1>2. /\ pc = "compose" /\ pc' = "smtp" /\ view'[AtWork] = row[AtWork]
      /\ UNCHANGED <<row, todo>>
  BY <1>1 DEF Compose, IInv, TypeOK
<1>3. FromRow(k)' = FromRow(k)
  BY <1>2 DEF FromRow
<1>4. Sends(k)' = Sends(k)
  BY <1>1, <1>2, <1>3 DEF Sends, Waiting
<1> QED BY <1>4, SendsType DEF IInv

\* An attempt is handed over: it was one of those that could still happen.
LEMMA SendCovered ==
  ASSUME IInv, IInv', SmtpCovered, Send PROVE SmtpCovered'
<1>1. AtWork \in todo /\ AtWork \in Messages /\ AtWork' = AtWork
  BY AtWorkInPass, AtWorkStays DEF Send, IInv, TypeOK
<1>2. /\ pc = "smtp" /\ pc' = "record" /\ smtp' \in {"ok", "failed"}
      /\ UNCHANGED <<row, todo, view, enqueues>>
      /\ handed' = [handed EXCEPT ![AtWork] = @ + 1]
  BY DEF Send, userHist
<1> SUFFICES ASSUME NEW k \in Messages
             PROVE  handed'[k] + Sends(k)' <= MAX_RETRIES * enqueues'[k]
  BY DEF SmtpCovered
<1>3. FromRow(k)' = FromRow(k)
  BY <1>2 DEF FromRow
<1>4. /\ Again(view[k].attempts) \in Nat /\ FromRow(k) \in Nat /\ handed[k] \in Nat
      /\ MAX_RETRIES * enqueues[k] \in Nat
  BY SendsType, AgainBounds, LimitsAssumption DEF IInv, TypeOK
<1>5. handed[k] + Sends(k) <= MAX_RETRIES * enqueues[k]
  BY DEF SmtpCovered
<1>6. CASE k # AtWork
  <2>1. handed'[k] = handed[k]
    BY <1>2, <1>6 DEF IInv, TypeOK
  <2>2. Sends(k)' = Sends(k)
    BY <1>1, <1>2, <1>3, <1>6 DEF Sends, Waiting
  <2> QED BY <1>2, <1>5, <2>1, <2>2
<1>7. CASE k = AtWork
  <2>1. handed'[k] = handed[k] + 1
    BY <1>2, <1>7 DEF IInv, TypeOK
  <2>2. Sends(k) = 1 + Larger(Again(view[k].attempts), FromRow(k))
    BY <1>1, <1>2, <1>7 DEF Sends, Waiting
  <2>3. Sends(k)' \in {FromRow(k), Larger(Again(view[k].attempts), FromRow(k))}
    BY <1>1, <1>2, <1>3, <1>7 DEF Sends, Waiting
  <2> QED BY <1>2, <1>4, <1>5, <2>1, <2>2, <2>3 DEF Larger
<1> QED BY <1>6, <1>7

\* The outcome is recorded: what it queues again counts one attempt more.
LEMMA RecordFalls ==
  ASSUME IInv, Record, NEW k \in Messages PROVE Sends(k)' <= Sends(k)
<1> DEFINE ok == smtp = "ok"
           object == Outcome(view[AtWork], ok)
<1>1. AtWork \in todo /\ AtWork \in Messages /\ view[AtWork] \in Row /\ AtWork' = AtWork
  BY AtWorkInPass, AtWorkStays DEF Record, IInv, TypeOK
<1>2. object \in Row
  BY <1>1, OutcomeType
<1>3. /\ ok => object.status = "sent" /\ object.attempts = view[AtWork].attempts
      /\ ~ok => /\ object.attempts = view[AtWork].attempts + 1
                /\ object.status = IF view[AtWork].attempts + 1 >= MAX_RETRIES
                                   THEN "failed" ELSE "queued"
  BY <1>1, OutcomeColumns
<1>4. pc = "record" /\ pc' = "refresh" /\ WorkerWrites(object) /\ UNCHANGED <<todo, smtp>>
  BY DEF Record
<1> HIDE DEF object
<1>5. row'[k].attempts = IF k = AtWork /\ object.attempts # view[k].attempts
                         THEN object.attempts ELSE row[k].attempts
  BY <1>2, <1>4, WorkerWritesAttempts DEF IInv
<1>6. row'[k].status = IF k = AtWork /\ object.status # view[k].status
                       THEN object.status ELSE row[k].status
  BY <1>2, <1>4, WorkerWritesStatus DEF IInv
<1>7. /\ view[k].attempts \in Nat /\ Again(row[k].attempts) \in Nat
      /\ FromRow(k) \in Nat /\ Sends(k) \in Nat /\ FromRow(k) <= Sends(k)
      /\ Again(view[k].attempts) \in Nat /\ MAX_RETRIES \in Nat
  BY SendsType, AgainBounds DEF IInv
<1>8. CASE k # AtWork
  <2>1. FromRow(k)' = FromRow(k) /\ row'[k].attempts = row[k].attempts
    BY <1>5, <1>6, <1>8 DEF FromRow
  <2>2. Sends(k)' = Sends(k)
    BY <1>1, <1>4, <1>8, <2>1 DEF Sends, Waiting
  <2> QED BY <1>7, <2>2
<1>9. CASE k = AtWork
  <2>1. Sends(k)' = FromRow(k)'
    BY <1>1, <1>4, <1>9 DEF Sends, Waiting
  <2>2. CASE ok
    <3>1. FromRow(k)' = 0 \/ FromRow(k)' = FromRow(k)
      BY <1>3, <1>5, <1>6, <1>9, <2>2 DEF FromRow
    <3> QED BY <1>7, <2>1, <3>1
  <2>3. CASE ~ok
    <3>1. Sends(k) = Larger(Again(view[k].attempts), FromRow(k))
      BY <1>1, <1>4, <1>9, <2>3 DEF Sends, Waiting
    <3>2. row'[k].attempts = view[k].attempts + 1
      BY <1>3, <1>5, <1>7, <1>9, <2>3
    <3>3. FromRow(k)' = IF row'[k].status = "queued"
                        THEN 1 + Again(view[k].attempts + 1) ELSE 0
      BY <3>2 DEF FromRow
    <3>4. CASE view[k].attempts + 1 >= MAX_RETRIES
      <4>1. row'[k].status \in {"failed", row[k].status} /\ Again(view[k].attempts + 1) = 0
        BY <1>3, <1>6, <1>7, <1>9, <2>3, <3>4 DEF Again
      <4>2. FromRow(k)' <= FromRow(k)
        BY <1>7, <3>3, <4>1 DEF FromRow
      <4> QED BY <1>7, <2>1, <3>3, <4>1, <4>2
    <3>5. CASE ~(view[k].attempts + 1 >= MAX_RETRIES)
      <4>1. 1 + Again(view[k].attempts + 1) <= Again(view[k].attempts)
        BY <1>7, <3>5 DEF Again
      <4>2. Again(view[k].attempts + 1) \in Nat
        BY <1>7, AgainBounds
      <4> QED BY <1>7, <2>1, <3>1, <3>3, <4>1, <4>2 DEF Larger
    <3> QED BY <3>4, <3>5
  <2> QED BY <2>2, <2>3
<1> QED BY <1>8, <1>9

LEMMA PassFailsFalls ==
  ASSUME IInv, PassFails, NEW k \in Messages PROVE Sends(k)' <= Sends(k)
<1>1. todo' = {} /\ UNCHANGED row
  BY DEF PassFails
<1>2. Sends(k)' = FromRow(k)
  BY <1>1 DEF Sends, Waiting, FromRow
<1> QED BY <1>2, SendsType DEF IInv

\* A request that queues a message brings MAX_RETRIES attempts, and it adds no
\* more to what may still happen; any other request adds none.
LEMMA RequestCovered ==
  ASSUME IInv, SmtpCovered, NEW r \in Requests, RequestCommit(r) PROVE SmtpCovered'
<1> USE DEF workerVars, sendHist
<1> DEFINE m == target[r]
           written == Written(op[r], row[m], copy[r])
<1>1. m \in Messages /\ row[m] \in Row /\ copy[r] \in Row
  BY DEF RequestCommit, IInv, TypeOK
<1>2. AtWork' = AtWork /\ UNCHANGED <<pc, todo, view, smtp, handed>>
  BY AtWorkStays DEF RequestCommit
<1>3. \/ written.status = row[m].status
      \/ op[r] \in Queueing /\ written.status = "queued"
      \/ written.status = "canceled"
  BY <1>1, WrittenStatus
<1>4. /\ written.attempts \in {0, row[m].attempts}
      /\ op[r] \notin Queueing => written.attempts = row[m].attempts
  BY <1>1, WrittenAttempts
<1>5. row'[m] = written /\ \A k \in Messages : k # m => row'[k] = row[k]
  BY <1>1 DEF RequestCommit, IInv, TypeOK
<1>6. /\ enqueues'[m] = IF op[r] \in Queueing THEN enqueues[m] + 1 ELSE enqueues[m]
      /\ \A k \in Messages : k # m => enqueues'[k] = enqueues[k]
  BY <1>1 DEF RequestCommit, IInv, TypeOK
<1> HIDE DEF m, written
<1> SUFFICES ASSUME NEW k \in Messages
             PROVE  handed'[k] + Sends(k)' <= MAX_RETRIES * enqueues'[k]
  BY DEF SmtpCovered
<1>7. handed[k] + Sends(k) <= MAX_RETRIES * enqueues[k]
  BY DEF SmtpCovered
<1>8. /\ row[k].attempts \in Nat /\ view[k].attempts \in Nat
      /\ FromRow(k) \in Nat /\ Sends(k) \in Nat /\ FromRow(k) <= Sends(k)
  BY SendsType DEF IInv
<1>9. /\ Again(row[k].attempts) \in Nat /\ Again(view[k].attempts) \in Nat
      /\ Again(0) \in Nat /\ Again(0) + 1 <= MAX_RETRIES
      /\ Again(row[k].attempts) + 1 <= MAX_RETRIES /\ MAX_RETRIES \in Nat
  BY <1>8, AgainBounds
<1>10. handed[k] \in Nat /\ enqueues[k] \in Nat /\ MAX_RETRIES * enqueues[k] \in Nat
  BY <1>9 DEF IInv, TypeOK
<1>11. CASE k # m
  <2>1. FromRow(k)' = FromRow(k)
    BY <1>5, <1>11 DEF FromRow
  <2>2. Sends(k)' = Sends(k)
    BY <1>2, <1>5, <1>11, <2>1 DEF Sends, Waiting
  <2> QED BY <1>2, <1>6, <1>7, <1>11, <2>2
<1>12. CASE k = m /\ op[r] \notin Queueing
  <2>1. row'[k].attempts = row[k].attempts /\ row'[k].status \in {row[k].status, "canceled"}
    BY <1>3, <1>4, <1>5, <1>12
  <2>2. FromRow(k)' \in {0, FromRow(k)}
    BY <2>1 DEF FromRow
  <2>3. Sends(k)' <= Sends(k)
    BY <1>2, <1>8, <1>9, <2>1, <2>2 DEF Sends, Waiting, Larger
  <2>4. Sends(k)' \in Nat
    BY <1>2, <1>8, <1>9, <2>1, <2>2 DEF Sends, Waiting, Larger
  <2> QED BY <1>2, <1>6, <1>7, <1>8, <1>10, <1>12, <2>3, <2>4
<1>13. CASE k = m /\ op[r] \in Queueing
  <2>1. row'[k].attempts \in {0, row[k].attempts}
    BY <1>4, <1>5, <1>13
  <2>2. /\ Again(row'[k].attempts) \in Nat /\ Again(row'[k].attempts) + 1 <= MAX_RETRIES
        /\ FromRow(k)' \in {0, 1 + Again(row'[k].attempts)}
    BY <1>9, <2>1 DEF FromRow
  <2>3. Sends(k)' \in Nat /\ Sends(k)' <= Sends(k) + MAX_RETRIES
    <3>1. CASE Waiting(k)
      BY <1>2, <1>8, <1>9, <2>2, <3>1 DEF Sends, Waiting
    <3>2. CASE ~Waiting(k) /\ todo # {} /\ k = AtWork /\ pc = "compose"
      BY <1>2, <1>8, <1>9, <2>2, <3>2 DEF Sends, Waiting, Larger
    <3>3. CASE ~Waiting(k) /\ todo # {} /\ k = AtWork /\ pc = "smtp"
      BY <1>2, <1>8, <1>9, <2>2, <3>3 DEF Sends, Waiting, Larger
    <3>4. CASE ~Waiting(k) /\ todo # {} /\ k = AtWork /\ pc = "record" /\ smtp # "ok"
      BY <1>2, <1>8, <1>9, <2>2, <3>4 DEF Sends, Waiting, Larger
    <3>5. CASE /\ ~Waiting(k)
               /\ ~(todo # {} /\ k = AtWork /\ pc \in {"compose", "smtp"})
               /\ ~(todo # {} /\ k = AtWork /\ pc = "record" /\ smtp # "ok")
      <4>1. Sends(k)' = FromRow(k)'
        BY <1>2, <3>5 DEF Sends, Waiting
      <4> QED BY <1>8, <1>9, <2>2, <4>1
    <3> QED BY <3>1, <3>2, <3>3, <3>4, <3>5
  <2>4. MAX_RETRIES * (enqueues[k] + 1) = MAX_RETRIES * enqueues[k] + MAX_RETRIES
    BY <1>9, <1>10
  <2> QED BY <1>2, <1>6, <1>7, <1>8, <1>9, <1>10, <1>13, <2>3, <2>4
<1> QED BY <1>11, <1>12, <1>13

LEMMA OtherFalls ==
  ASSUME IInv,
         \/ ConnectionChanges \/ UNCHANGED vars
         \/ \E r \in Requests, m \in Messages, o \in Ops : RequestLoad(r, m, o)
         \/ \E m \in Messages : UndoElapses(m) \/ OldUndoElapses(m) \/ ScheduleReached(m),
         NEW k \in Messages
  PROVE  Sends(k)' <= Sends(k) /\ UNCHANGED <<enqueues, handed>>
<1> USE DEF workerVars, requestVars, sendHist, userHist
<1>1. CASE ConnectionChanges
  BY <1>1, SameColumnsFall DEF ConnectionChanges
<1>2. CASE UNCHANGED vars
  BY <1>2, SameColumnsFall DEF vars
<1>3. CASE \E r \in Requests, m \in Messages, o \in Ops : RequestLoad(r, m, o)
  BY <1>3, SameColumnsFall DEF RequestLoad
<1>4. ASSUME NEW m \in Messages, UndoElapses(m) \/ OldUndoElapses(m) \/ ScheduleReached(m)
      PROVE  /\ row'[k].status = row[k].status /\ row'[k].attempts = row[k].attempts
             /\ view'[k].attempts = view[k].attempts
             /\ UNCHANGED <<pc, todo, smtp, enqueues, handed>>
  <2>1. ASSUME NEW c \in Row, NEW x
        PROVE  /\ [c EXCEPT !.undo = x].status = c.status
               /\ [c EXCEPT !.sched = x].status = c.status
               /\ [c EXCEPT !.undo = x].attempts = c.attempts
               /\ [c EXCEPT !.sched = x].attempts = c.attempts
    BY DEF Row
  <2>2. row[m] \in Row /\ view[m] \in Row
    BY DEF IInv, TypeOK
  <2>3. CASE UndoElapses(m)
    <3>1. row' = [row EXCEPT ![m] = [row[m] EXCEPT !.undo = "elapsed"]]
      BY <2>3 DEF UndoElapses
    <3>2. view' = [view EXCEPT ![m] =
                     [view[m] EXCEPT !.undo = IF m \in todo THEN "elapsed" ELSE @]]
      BY <2>3 DEF UndoElapses
    <3>3. row'[k].status = row[k].status /\ row'[k].attempts = row[k].attempts
      BY <2>1, <2>2, <3>1 DEF IInv, TypeOK
    <3>4. view'[k].attempts = view[k].attempts
      BY <2>1, <2>2, <3>2 DEF IInv, TypeOK
    <3> QED BY <2>3, <3>3, <3>4 DEF UndoElapses
  <2>4. CASE OldUndoElapses(m)
    <3>1. view' = [view EXCEPT ![m] = [view[m] EXCEPT !.undo = "elapsed"]] /\ row' = row
      BY <2>4 DEF OldUndoElapses
    <3>2. view'[k].attempts = view[k].attempts
      BY <2>1, <2>2, <3>1 DEF IInv, TypeOK
    <3> QED BY <2>4, <3>1, <3>2 DEF OldUndoElapses
  <2>5. CASE ScheduleReached(m)
    <3>1. row' = [row EXCEPT ![m] = [row[m] EXCEPT !.sched = "reached"]]
      BY <2>5 DEF ScheduleReached
    <3>2. row'[k].status = row[k].status /\ row'[k].attempts = row[k].attempts
      BY <2>1, <2>2, <3>1 DEF IInv, TypeOK
    <3> QED BY <2>5, <3>2 DEF ScheduleReached
  <2> QED BY <1>4, <2>3, <2>4, <2>5
<1> QED BY <1>1, <1>2, <1>3, <1>4, SameColumnsFall

LEMMA StepSmtp == IInv /\ IInv' /\ SmtpCovered /\ [Next]_vars => SmtpCovered'
<1> SUFFICES ASSUME IInv, IInv', SmtpCovered, [Next]_vars PROVE SmtpCovered'
  OBVIOUS
<1> USE DEF requestVars, sendHist, userHist
<1>1. ASSUME UNCHANGED <<enqueues, handed>>, \A k \in Messages : Sends(k)' <= Sends(k)
      PROVE  SmtpCovered'
  BY <1>1, SendsOnlyFall DEF IInv
<1>2. CASE PassLoad
  BY <1>1, <1>2, PassLoadFalls DEF PassLoad
<1>3. CASE PassOver
  BY <1>1, <1>3, NextCandidateFalls DEF PassOver
<1>4. CASE Refresh
  BY <1>1, <1>4, NextCandidateFalls DEF Refresh
<1>5. CASE Refuse
  <2>1. \A k \in Messages : Sends(k)' <= Sends(k)
    BY <1>5, MarkFalls DEF Refuse
  <2> QED BY <1>1, <1>5, <2>1 DEF Refuse
<1>6. CASE MarkSending
  <2>1. \A k \in Messages : Sends(k)' <= Sends(k)
    BY <1>6, MarkFalls DEF MarkSending
  <2> QED BY <1>1, <1>6, <2>1 DEF MarkSending
<1>7. CASE Compose
  BY <1>1, <1>7, ComposeFalls DEF Compose
<1>8. CASE Send
  BY <1>8, SendCovered
<1>9. CASE Record
  BY <1>1, <1>9, RecordFalls DEF Record
<1>10. CASE PassFails
  BY <1>1, <1>10, PassFailsFalls DEF PassFails
<1>11. CASE \E r \in Requests : RequestCommit(r)
  BY <1>11, RequestCovered
<1>12. CASE \/ ConnectionChanges \/ UNCHANGED vars
            \/ \E r \in Requests, m \in Messages, o \in Ops : RequestLoad(r, m, o)
            \/ \E m \in Messages : UndoElapses(m) \/ OldUndoElapses(m) \/ ScheduleReached(m)
  <2>1. UNCHANGED <<enqueues, handed>>
    BY <1>12 DEF ConnectionChanges, vars, RequestLoad, UndoElapses, OldUndoElapses,
                 ScheduleReached
  <2> QED BY <1>1, <1>12, <2>1, OtherFalls
<1> QED BY <1>2, <1>3, <1>4, <1>5, <1>6, <1>7, <1>8, <1>9, <1>10, <1>11, <1>12
        DEF Next, WorkerStep

\* However cancels, new requests, failures and crashes overwrite each other's
\* columns (send_worker.run, compose_api): the SMTP server is bothered at most
\* MAX_RETRIES times for every request that queued the message.
THEOREM OutboxSmtpBudget == Spec => []SmtpBudget
<1>1. Init => SmtpCovered
  <2> SUFFICES ASSUME Init, NEW k \in Messages
               PROVE  handed[k] + Sends(k) <= MAX_RETRIES * enqueues[k]
    BY DEF SmtpCovered
  <2>1. handed[k] = 0 /\ enqueues[k] = 0 /\ todo = {} /\ row[k].status = "none"
    BY DEF Init, Draft
  <2>2. Sends(k) = 0
    BY <2>1 DEF Sends, Waiting, FromRow
  <2> QED BY <2>1, <2>2, LimitsAssumption
<1>2. IInv /\ SmtpCovered => SmtpBudget
  <2> SUFFICES ASSUME IInv, SmtpCovered, NEW k \in Messages
               PROVE  handed[k] <= MAX_RETRIES * enqueues[k]
    BY DEF SmtpBudget
  <2>1. Sends(k) \in Nat /\ handed[k] \in Nat /\ MAX_RETRIES * enqueues[k] \in Nat
    BY SendsType, LimitsAssumption DEF IInv, TypeOK
  <2> QED BY <2>1 DEF SmtpCovered
<1> QED BY <1>1, <1>2, InitIInv, StepIInv, StepSmtp, PTL DEF Spec
=============================================================================
