------------------------------ MODULE HubProofs ------------------------------
(***************************************************************************)
(* Proofs about what the hub shows: the contact list (Roster), the lines   *)
(* of a room (RoomLines), the unread counts (UnreadBadge) and the screens  *)
(* (HubNavigation), for every set of contacts and messages and every       *)
(* number of changes.  The four components share no variable; each has a   *)
(* section of its own.                                                     *)
(***************************************************************************)
EXTENDS Roster, RoomLines, UnreadBadge, HubNavigation, FiniteSetTheorems, SequenceTheorems, TLAPS

(***************************************************************************)
(* The contact list.                                                       *)
(***************************************************************************)

\* What RosterTypeOK says of the parts, of the whole.
ViewRecord ==
    [listing : BOOLEAN, ver : {Outdated} \union 0 .. MaxVersion,
     search : BOOLEAN, query : BOOLEAN, open : RosterPeer \union {Unselected},
     shown : [RosterPeer -> SUBSET ContactRow], banner : BOOLEAN, failed : BOOLEAN]

RosterShape ==
    /\ contacts \in [RosterPeer -> SUBSET ContactRow]
    /\ contactsVersion \in 0 .. MaxVersion
    /\ writer \in {"none", "hub", "net"}
    /\ writer # "none" => contactsVersion < MaxVersion
    /\ missing \subseteq RosterPeer
    /\ view \in ViewRecord
    /\ view.ver <= contactsVersion

\* Every list of rows that is written is a list of rows.
LEMMA RowsWritten ==
    ASSUME RosterShape, NEW p \in RosterPeer, NEW known \in BOOLEAN
    PROVE  /\ Upserted(p, known) \subseteq ContactRow
           /\ Noted(p) \subseteq ContactRow
           /\ \A bad \in BOOLEAN : Trusted(p, known, bad) \subseteq ContactRow
           /\ \A r \in contacts[p] : {[r EXCEPT !.blocked = ~@]} \subseteq ContactRow
<1>1. contacts[p] \subseteq ContactRow
  BY DEF RosterShape
<1>2. NewRow(known) \in ContactRow
  BY DEF NewRow, ContactRow
<1>3. \A r \in ContactRow : /\ [r EXCEPT !.known = @ \/ known, !.note = ~@] \in ContactRow
                            /\ [r EXCEPT !.note = ~@] \in ContactRow
                            /\ [r EXCEPT !.blocked = ~@] \in ContactRow
  BY DEF ContactRow
<1>4. \A r \in ContactRow, bad \in BOOLEAN : [r EXCEPT !.known = @ \/ known, !.blocked = bad] \in ContactRow
  BY DEF ContactRow
<1> QED BY <1>1, <1>2, <1>3, <1>4 DEF Upserted, Noted, Trusted

\* A rewriting of the file, with whatever it does to the view.
LEMMA FileRewritten ==
    ASSUME RosterShape, NEW p \in RosterPeer, NEW rows \in SUBSET ContactRow, NEW who \in {"hub", "net"},
           RewriteFile(who, p, rows), missing' \subseteq RosterPeer,
           NEW open \in RosterPeer \union {Unselected},
           \/ view' = view \/ view' = [view EXCEPT !.ver = Outdated]
           \/ view' = [view EXCEPT !.open = open, !.ver = Outdated]
    PROVE  RosterShape' /\ writer' = who /\ contacts' = [contacts EXCEPT ![p] = rows]
<1>1. contacts' \in [RosterPeer -> SUBSET ContactRow]
  BY DEF RosterShape, RewriteFile
<1>2. view' \in ViewRecord /\ (view'.ver = view.ver \/ view'.ver = Outdated)
  BY DEF RosterShape, ViewRecord
<1>3. view'.ver <= contactsVersion'
  BY <1>2, RosterAssumption DEF RosterShape, RewriteFile, Outdated
<1>4. /\ contactsVersion' = contactsVersion /\ contactsVersion < MaxVersion
      /\ writer' = who /\ contacts' = [contacts EXCEPT ![p] = rows]
  BY DEF RewriteFile
<1> QED BY <1>1, <1>2, <1>3, <1>4 DEF RosterShape

LEMMA VisibleRows ==
    ASSUME RosterShape, NEW rows \in [RosterPeer -> SUBSET ContactRow]
    PROVE  /\ Visible(rows) \in [RosterPeer -> SUBSET ContactRow]
           /\ Unfamiliar(rows, view.open) \in BOOLEAN
  BY DEF Visible, Unfamiliar

\* The list and the banner are those of the file when the hub has read it at
\* the version it has now, and no writer is between the file and the version.
RosterFresh ==
    ~view.listing /\ writer = "none" /\ view.ver = contactsVersion =>
        \/ view.failed
        \/ /\ view.shown = Visible(contacts)
           /\ view.banner = Unfamiliar(contacts, view.open)

LEMMA RosterStarts == RosterInit => RosterShape /\ RosterFresh
<1> SUFFICES ASSUME RosterInit PROVE RosterShape /\ RosterFresh
  OBVIOUS
<1>1. view \in ViewRecord /\ view.ver = -1
  BY DEF RosterInit, ViewRecord, Outdated
<1> QED BY <1>1, RosterAssumption DEF RosterInit, RosterShape, RosterFresh

\* Every change of the file: the user's and the network's.
LEMMA WriteSteps ==
    ASSUME RosterShape, NEW p \in RosterPeer,
           \/ AddPeer(p) \/ Rename(p) \/ RemovePeer(p) \/ ToggleBlocked(p) \/ MarkKnown(p)
           \/ OpenRoom(p) \/ AddUnknown(p) \/ RecordPreview(p) \/ SetStatus(p) \/ BlockOpenPeer
    PROVE  RosterShape' /\ writer' # "none"
<1>1. contacts[p] \subseteq ContactRow /\ missing \subseteq RosterPeer
  BY DEF RosterShape
<1>2. CASE AddPeer(p)
  <2>1. Upserted(p, TRUE) \in SUBSET ContactRow
    BY RowsWritten
  <2>2. RewriteFile("hub", p, Upserted(p, TRUE)) /\ missing' = missing /\ view' = view
    BY <1>2 DEF AddPeer, ByUser
  <2> QED BY <2>1, <2>2, <1>1, FileRewritten
<1>3. CASE Rename(p)
  <2>1. Upserted(p, TRUE) \in SUBSET ContactRow
    BY RowsWritten
  <2>2. /\ RewriteFile("hub", p, Upserted(p, TRUE)) /\ missing' = missing
        /\ view' = [view EXCEPT !.open = Unselected, !.ver = Outdated]
    BY <1>3 DEF Rename
  <2> QED BY <2>1, <2>2, <1>1, FileRewritten
<1>4. CASE RemovePeer(p)
  <2>2. /\ RewriteFile("hub", p, {}) /\ missing' = missing
        /\ view' = [view EXCEPT !.open = Unselected, !.ver = Outdated]
    BY <1>4 DEF RemovePeer
  <2> QED BY <2>2, <1>1, FileRewritten
<1>5. CASE ToggleBlocked(p)
  <2>1. PICK r \in contacts[p] : ByUser(p, {[r EXCEPT !.blocked = ~@]}, FALSE)
    BY <1>5 DEF ToggleBlocked
  <2>2. {[r EXCEPT !.blocked = ~@]} \in SUBSET ContactRow
    BY RowsWritten
  <2>3. RewriteFile("hub", p, {[r EXCEPT !.blocked = ~@]}) /\ missing' = missing /\ view' = view
    BY <2>1 DEF ByUser
  <2> QED BY <2>2, <2>3, <1>1, FileRewritten
<1>6. CASE MarkKnown(p)
  <2>1. Trusted(p, TRUE, FALSE) \in SUBSET ContactRow
    BY RowsWritten
  <2>2. /\ RewriteFile("hub", p, Trusted(p, TRUE, FALSE)) /\ missing' = missing
        /\ view' = [view EXCEPT !.ver = Outdated]
    BY <1>6 DEF MarkKnown, ByUser
  <2> QED BY <2>1, <2>2, <1>1, FileRewritten
<1>7. CASE OpenRoom(p)
  <2>1. Noted(p) \in SUBSET ContactRow
    BY RowsWritten
  <2>2. /\ RewriteFile("hub", p, Noted(p)) /\ missing' = missing
        /\ view' = [view EXCEPT !.open = p, !.ver = Outdated]
    BY <1>7 DEF OpenRoom
  <2> QED BY <2>1, <2>2, <1>1, FileRewritten
<1>8. CASE AddUnknown(p)
  <2>1. Upserted(p, FALSE) \in SUBSET ContactRow
    BY RowsWritten
  <2>2. RewriteFile("net", p, Upserted(p, FALSE)) /\ missing' = missing \ {p} /\ view' = view
    BY <1>8 DEF AddUnknown
  <2> QED BY <2>1, <2>2, <1>1, FileRewritten
<1>9. CASE RecordPreview(p) \/ SetStatus(p)
  <2>1. Noted(p) \in SUBSET ContactRow
    BY RowsWritten
  <2>2. RewriteFile("net", p, Noted(p)) /\ missing' = missing /\ view' = view
    BY <1>9 DEF RecordPreview, SetStatus
  <2> QED BY <2>1, <2>2, <1>1, FileRewritten
<1>10. CASE BlockOpenPeer
  <2>1. PICK q \in RosterPeer :
           /\ RewriteFile("hub", q, Trusted(q, FALSE, TRUE)) /\ missing' = missing
           /\ view' = [view EXCEPT !.open = Unselected, !.ver = Outdated]
    BY <1>10 DEF BlockOpenPeer
  <2>2. Trusted(q, FALSE, TRUE) \in SUBSET ContactRow
    BY RowsWritten
  <2> QED BY <2>1, <2>2, <1>1, FileRewritten
<1> QED BY <1>2, <1>3, <1>4, <1>5, <1>6, <1>7, <1>8, <1>9, <1>10

LEMMA RosterStep == RosterShape /\ RosterFresh /\ [RosterNext]_rosterVars => RosterShape' /\ RosterFresh'
<1> SUFFICES ASSUME RosterShape, RosterFresh, [RosterNext]_rosterVars PROVE RosterShape' /\ RosterFresh'
  OBVIOUS
<1>0. /\ view \in ViewRecord /\ contactsVersion \in 0 .. MaxVersion /\ view.ver <= contactsVersion
      /\ contacts \in [RosterPeer -> SUBSET ContactRow]
  BY DEF RosterShape
<1>1. CASE UNCHANGED rosterVars
  BY <1>1 DEF rosterVars, RosterShape, RosterFresh, Visible, Unfamiliar, Matches
<1>2. CASE Bump
  <2>1. contactsVersion' = contactsVersion + 1 /\ contactsVersion + 1 \in 0 .. MaxVersion
    BY <1>2, RosterAssumption DEF Bump, RosterShape
  <2>2. view.ver \in Int /\ view.ver < contactsVersion + 1
    BY <1>0, RosterAssumption DEF ViewRecord, Outdated
  <2>3. RosterShape'
    BY <1>2, <2>1, <2>2 DEF Bump, RosterShape
  <2>4. RosterFresh'
    BY <1>2, <2>1, <2>2 DEF Bump, RosterFresh
  <2> QED BY <2>3, <2>4
<1>3. CASE LeaveRoom \/ TypeSearch
  <2>1. /\ UNCHANGED <<contacts, contactsVersion, writer, missing>>
        /\ view' \in ViewRecord
        /\ \/ view'.ver = Outdated
           \/ view'.ver = view.ver /\ view'.listing = view.listing /\ view'.failed = view.failed
              /\ view'.shown = view.shown /\ view'.banner = view.banner /\ view'.open = view.open
              /\ view'.query = view.query
    <3>1. CASE LeaveRoom
      BY <3>1, <1>0 DEF LeaveRoom, ViewRecord
    <3>2. CASE TypeSearch
      BY <3>2, <1>0 DEF TypeSearch, ViewRecord
    <3> QED BY <1>3, <3>1, <3>2
  <2>2. RosterShape'
    BY <2>1, <1>0, RosterAssumption DEF RosterShape, Outdated
  <2>3. RosterFresh'
    <3>1. CASE view'.ver = Outdated
      BY <3>1, <2>1, <1>0, RosterAssumption DEF RosterFresh, Outdated
    <3>2. CASE view'.ver # Outdated
      <4>1. Visible(contacts)' = Visible(contacts) /\ Unfamiliar(contacts', view'.open) = Unfamiliar(contacts, view.open)
        BY <3>2, <2>1 DEF Visible, Unfamiliar, Matches
      <4> QED BY <3>2, <2>1, <4>1 DEF RosterFresh
    <3> QED BY <3>1, <3>2
  <2> QED BY <2>2, <2>3
<1>4. CASE StartRefresh
  <2>1. /\ UNCHANGED <<contacts, contactsVersion, writer, missing>>
        /\ view' \in ViewRecord /\ view'.listing /\ view'.ver = contactsVersion
    BY <1>4, <1>0 DEF StartRefresh, ViewRecord
  <2> QED BY <2>1, <1>0, RosterAssumption DEF RosterShape, RosterFresh
<1>5. CASE ShowList
  <2>1. PICK rows \in [RosterPeer -> SUBSET ContactRow], readable \in BOOLEAN :
           /\ readable => rows = contacts
           /\ view' = [view EXCEPT !.shown = Visible(rows), !.banner = Unfamiliar(rows, view.open),
                                 !.listing = FALSE, !.failed = ~readable]
    <3>1. contacts \in [RosterPeer -> SUBSET ContactRow] /\ [p \in RosterPeer |-> {}] \in [RosterPeer -> SUBSET ContactRow]
      BY <1>0
    <3> QED BY <1>5, <3>1 DEF ShowList
  <2>2. Visible(rows) \in [RosterPeer -> SUBSET ContactRow] /\ Unfamiliar(rows, view.open) \in BOOLEAN
    BY VisibleRows
  <2>3. /\ view' \in ViewRecord /\ view'.ver = view.ver /\ view'.open = view.open /\ view'.query = view.query
        /\ view'.failed = ~readable /\ view'.shown = Visible(rows) /\ view'.banner = Unfamiliar(rows, view.open)
    BY <2>1, <2>2, <1>0 DEF ViewRecord
  <2>4. UNCHANGED <<contacts, contactsVersion, writer, missing>>
    BY <1>5 DEF ShowList
  <2>5. RosterShape'
    BY <2>3, <2>4, <1>0 DEF RosterShape
  <2>6. RosterFresh'
    <3>1. readable => Visible(contacts)' = Visible(rows) /\ Unfamiliar(contacts', view'.open) = Unfamiliar(rows, view.open)
      BY <2>1, <2>3, <2>4 DEF Visible, Unfamiliar, Matches
    <3> QED BY <2>3, <3>1 DEF RosterFresh
  <2> QED BY <2>5, <2>6
<1>6. CASE BlockOpenPeer
  <2>1. PICK p \in RosterPeer : TRUE
    BY <1>6 DEF BlockOpenPeer
  <2> QED BY <1>6, <2>1, WriteSteps DEF RosterFresh
<1>7. ASSUME NEW p \in RosterPeer,
             \/ AddPeer(p) \/ Rename(p) \/ RemovePeer(p) \/ ToggleBlocked(p) \/ MarkKnown(p)
             \/ OpenRoom(p) \/ AddUnknown(p) \/ RecordPreview(p) \/ SetStatus(p)
      PROVE  RosterShape' /\ RosterFresh'
  BY <1>7, WriteSteps DEF RosterFresh
<1>8. ASSUME NEW p \in RosterPeer, LookUp(p) PROVE RosterShape' /\ RosterFresh'
  <2>1. UNCHANGED <<contacts, contactsVersion, writer, view>> /\ missing' \subseteq RosterPeer
    BY <1>8 DEF LookUp, RosterShape
  <2>2. Visible(contacts)' = Visible(contacts) /\ Unfamiliar(contacts', view'.open) = Unfamiliar(contacts, view.open)
    BY <2>1 DEF Visible, Unfamiliar, Matches
  <2>3. RosterFresh'
    BY <2>1, <2>2 DEF RosterFresh
  <2> QED BY <2>1, <2>3 DEF RosterShape
<1> QED BY <1>1, <1>2, <1>3, <1>4, <1>5, <1>6, <1>7, <1>8 DEF RosterNext

\* What the network does to the two flags of a contact.
LEMMA NetworkStep ==
    RosterShape /\ [RosterNext]_rosterVars =>
        (writer' # "hub" =>
           \A p \in RosterPeer :
              \/ /\ ~Has(p)
                 /\ \A r \in contacts'[p] : ~r.known /\ ~r.blocked
              \/ \E r \in contacts[p], s \in contacts'[p] :
                    r.known = s.known /\ r.blocked = s.blocked)
<1> SUFFICES ASSUME RosterShape, [RosterNext]_rosterVars, writer' # "hub", NEW p \in RosterPeer
             PROVE  \/ /\ ~Has(p)
                       /\ \A r \in contacts'[p] : ~r.known /\ ~r.blocked
                    \/ \E r \in contacts[p], s \in contacts'[p] :
                          r.known = s.known /\ r.blocked = s.blocked
  OBVIOUS
<1>0. contacts \in [RosterPeer -> SUBSET ContactRow] /\ contacts[p] \subseteq ContactRow
  BY DEF RosterShape
<1>1. CASE contacts'[p] = contacts[p]
  BY <1>1 DEF Has
<1>2. ASSUME NEW q \in RosterPeer, contacts' = [contacts EXCEPT ![q] = Noted(q)], contacts'[p] # contacts[p]
      PROVE  \E r \in contacts[p], s \in contacts'[p] : r.known = s.known /\ r.blocked = s.blocked
  <2>1. p = q /\ contacts'[p] = Noted(p)
    BY <1>2, <1>0
  <2>2. PICK r \in contacts[p] : TRUE
    BY <2>1, <1>2 DEF Noted
  <2>3. [r EXCEPT !.note = ~@] \in contacts'[p]
    BY <2>1 DEF Noted
  <2>4. [r EXCEPT !.note = ~@].known = r.known /\ [r EXCEPT !.note = ~@].blocked = r.blocked
    BY <1>0 DEF ContactRow
  <2> QED BY <2>3, <2>4
<1>3. ASSUME NEW q \in RosterPeer, contacts' = [contacts EXCEPT ![q] = Upserted(q, FALSE)], contacts'[p] # contacts[p]
      PROVE  \/ /\ ~Has(p)
                /\ \A r \in contacts'[p] : ~r.known /\ ~r.blocked
             \/ \E r \in contacts[p], s \in contacts'[p] : r.known = s.known /\ r.blocked = s.blocked
  <2>1. p = q /\ contacts'[p] = Upserted(p, FALSE)
    BY <1>3, <1>0
  <2>2. CASE ~Has(p)
    BY <2>1, <2>2 DEF Upserted, NewRow
  <2>3. CASE Has(p)
    <3>1. PICK r \in contacts[p] : TRUE
      BY <2>3 DEF Has
    <3>2. [r EXCEPT !.known = @ \/ FALSE, !.note = ~@] \in contacts'[p]
      BY <2>1, <2>3 DEF Upserted
    <3>3. /\ [r EXCEPT !.known = @ \/ FALSE, !.note = ~@].known = r.known
          /\ [r EXCEPT !.known = @ \/ FALSE, !.note = ~@].blocked = r.blocked
      BY <1>0 DEF ContactRow
    <3> QED BY <3>2, <3>3
  <2> QED BY <2>2, <2>3
<1>4. ASSUME contacts'[p] # contacts[p]
      PROVE  \E q \in RosterPeer : \/ contacts' = [contacts EXCEPT ![q] = Noted(q)]
                                   \/ contacts' = [contacts EXCEPT ![q] = Upserted(q, FALSE)]
  <2>1. ~UNCHANGED rosterVars /\ ~UNCHANGED contacts
    BY <1>4 DEF rosterVars
  <2>2. PICK q \in RosterPeer : AddUnknown(q) \/ RecordPreview(q) \/ SetStatus(q)
    BY <2>1 DEF RosterNext, Bump, BlockOpenPeer, LeaveRoom, TypeSearch, StartRefresh, ShowList, AddPeer, Rename,
                RemovePeer, ToggleBlocked, MarkKnown, OpenRoom, LookUp, ByUser, RewriteFile
  <2> QED BY <2>2 DEF AddUnknown, RecordPreview, SetStatus, RewriteFile
<1> QED BY <1>1, <1>2, <1>3, <1>4

(* Every state of the list has its type: a file of rows, a version, and what *)
(* the hub shows of them (contacts_v1.rs).                                   *)
THEOREM RosterTypeCorrect == RosterSpec => []RosterTypeOK
<1>1. RosterShape => RosterTypeOK
  BY DEF RosterShape, RosterTypeOK, ViewRecord
<1> QED BY <1>1, RosterStarts, RosterStep, PTL DEF RosterSpec

(* The hub that has read the file at the version of now shows what the file *)
(* holds, and its banner is the open room's (refresh_roster, main.rs).      *)
THEOREM RosterShowsTheFile == RosterSpec => []RosterIsFresh
<1>1. RosterShape /\ RosterFresh => RosterIsFresh
  BY DEF RosterFresh, RosterIsFresh, HubIdle
<1> QED BY <1>1, RosterStarts, RosterStep, PTL DEF RosterSpec

(* No write on behalf of the network marks a contact known or blocked, nor   *)
(* takes either mark away (contacts_v1.rs).                                  *)
THEOREM TrustStaysWithTheUser == RosterSpec => TrustIsTheUsers
<1>1. RosterShape /\ [RosterNext]_rosterVars =>
         [writer' # "hub" =>
           \A p \in RosterPeer :
              \/ /\ ~Has(p)
                 /\ \A r \in contacts'[p] : ~r.known /\ ~r.blocked
              \/ \E r \in contacts[p], s \in contacts'[p] :
                    r.known = s.known /\ r.blocked = s.blocked]_rosterVars
  BY NetworkStep
<1>2. RosterShape /\ RosterFresh => RosterShape
  OBVIOUS
<1> QED BY <1>1, RosterStarts, RosterStep, PTL DEF RosterSpec, TrustIsTheUsers

(***************************************************************************)
(* The lines of a room.                                                    *)
(***************************************************************************)

LogRecord ==
    [state : {"closed", "idle", "loading"}, rev : 0 .. MaxRevision, limit : Nat,
     lines : Seq(StoredLine), more : BOOLEAN, failed : BOOLEAN]

LinesShape ==
    /\ thread \in Seq(StoredLine)
    /\ revision \in 0 .. MaxRevision
    /\ changing \in BOOLEAN
    /\ changing => revision < MaxRevision
    /\ log \in LogRecord
    /\ log.rev <= revision

Sorted(lines) == \A i, j \in 1 .. Len(lines) : i < j => SentBefore(lines[i].id, lines[j].id)

ThreadInOrder == Sorted(thread)

LogFresh ==
    log.state = "idle" /\ ~changing /\ log.rev = revision /\ ~log.failed =>
        /\ log.lines = Newest(thread, log.limit)
        /\ log.more = (Len(thread) > log.limit)

\* SentBefore orders the messages.
LEMMA LinesOrdered ==
    \A i, j, k \in Line :
        /\ ~SentBefore(i, i)
        /\ i # j => SentBefore(i, j) \/ SentBefore(j, i)
        /\ SentBefore(i, j) /\ SentBefore(j, k) => SentBefore(i, k)
  BY RoomLinesAssumption DEF SentBefore, Line

\* A set of positions that has every earlier one is an interval.
LEMMA Initial ==
    ASSUME NEW n \in Nat, NEW B \in SUBSET (1 .. n), \A i \in B : 1 .. i \subseteq B
    PROVE  Cardinality(B) \in 0 .. n /\ B = 1 .. Cardinality(B)
<1>1. IsFiniteSet(1 .. n) /\ Cardinality(1 .. n) = n
  BY FS_Interval
<1>2. IsFiniteSet(B) /\ Cardinality(B) \in Nat /\ Cardinality(B) <= n
  BY <1>1, FS_Subset, FS_CardinalityType
<1>3. ASSUME NEW i \in B PROVE i <= Cardinality(B)
  <2>1. IsFiniteSet(1 .. i) /\ Cardinality(1 .. i) = i
    BY FS_Interval
  <2>2. Cardinality(1 .. i) <= Cardinality(B)
    BY <1>2, FS_Subset
  <2> QED BY <2>1, <2>2
<1>4. B \subseteq 1 .. Cardinality(B)
  BY <1>2, <1>3
<1>5. IsFiniteSet(1 .. Cardinality(B)) /\ Cardinality(1 .. Cardinality(B)) = Cardinality(B)
  BY <1>2, FS_Interval
<1>6. B = 1 .. Cardinality(B)
  BY <1>4, <1>5, FS_Subset
<1> QED BY <1>2, <1>6

\* What InsertAt makes of a sequence.
LEMMA InsertedAt ==
    ASSUME NEW S, NEW s \in Seq(S), NEW e \in S, NEW k \in 0 .. Len(s)
    PROVE  /\ InsertAt(s, k + 1, e) \in Seq(S)
           /\ Len(InsertAt(s, k + 1, e)) = Len(s) + 1
           /\ \A i \in 1 .. Len(s) + 1 :
                 InsertAt(s, k + 1, e)[i] = IF i <= k THEN s[i] ELSE IF i = k + 1 THEN e ELSE s[i - 1]
<1>0. Len(s) \in Nat /\ \A i \in 1 .. Len(s) : s[i] \in S
  BY LenProperties, ElementOfSeq
<1> DEFINE before == SubSeq(s, 1, k)
<1> DEFINE after == SubSeq(s, k + 1, Len(s))
<1>1. before \in Seq(S) /\ Len(before) = k /\ \A i \in 1 .. k : before[i] = s[i]
  <2>1. \A i \in 1 .. k : s[i] \in S
    BY <1>0
  <2> QED BY <2>1, <1>0, SubSeqProperties
<1>2. after \in Seq(S) /\ Len(after) = Len(s) - k /\ \A i \in 1 .. Len(s) - k : after[i] = s[k + i]
  <2>1. \A i \in (k + 1) .. Len(s) : s[i] \in S
    BY <1>0
  <2> QED BY <2>1, <1>0, SubSeqProperties
<1>3. <<e>> \in Seq(S) /\ Len(<<e>>) = 1 /\ <<e>>[1] = e
  OBVIOUS
<1> DEFINE front == before \o <<e>>
<1>4. InsertAt(s, k + 1, e) = front \o after
  <2>1. (k + 1) - 1 = k
    BY <1>0
  <2> QED BY <2>1, Zenon DEF InsertAt
<1> HIDE DEF before, after
<1>5. /\ front \in Seq(S) /\ Len(front) = k + 1
      /\ \A i \in 1 .. k + 1 : front[i] = IF i <= k THEN s[i] ELSE e
  <2>1. \A i \in 1 .. k + 1 : ~(i <= k) => i - k = 1
    OBVIOUS
  <2> QED BY <1>1, <1>3, <2>1, ConcatProperties
<1> HIDE DEF front
<1>6. /\ front \o after \in Seq(S) /\ Len(front \o after) = Len(s) + 1
      /\ \A i \in 1 .. Len(s) + 1 : (front \o after)[i] = IF i <= k + 1 THEN front[i] ELSE after[i - (k + 1)]
  <2>1. /\ front \o after \in Seq(S) /\ Len(front \o after) = Len(front) + Len(after)
        /\ \A i \in 1 .. Len(front) + Len(after) : (front \o after)[i] = IF i <= Len(front) THEN front[i] ELSE after[i - Len(front)]
    BY <1>2, <1>5, ConcatProperties
  <2>2. Len(front) + Len(after) = Len(s) + 1
    BY <1>0, <1>2, <1>5
  <2> QED BY <2>1, <2>2, <1>5
<1> DEFINE new == InsertAt(s, k + 1, e)
<1>n. /\ new \in Seq(S) /\ Len(new) = Len(s) + 1
      /\ \A i \in 1 .. Len(s) + 1 : new[i] = IF i <= k + 1 THEN front[i] ELSE after[i - (k + 1)]
  BY <1>4, <1>6
<1> HIDE DEF new
<1>7. ASSUME NEW i \in 1 .. Len(s) + 1
      PROVE  new[i] = IF i <= k THEN s[i] ELSE IF i = k + 1 THEN e ELSE s[i - 1]
  <2>1. CASE i <= k + 1
    BY <2>1, <1>0, <1>5, <1>n
  <2>2. CASE i > k + 1
    <3>1. i - (k + 1) \in 1 .. Len(s) - k /\ k + (i - (k + 1)) = i - 1
      BY <2>2, <1>0
    <3>2. i \in 1 .. Len(s) + 1 /\ ~(i <= k + 1) /\ new[i] = after[i - (k + 1)]
      BY <2>2, <1>0, <1>n
    <3>3. after[i - (k + 1)] = s[i - 1]
      BY <3>1, <1>2
    <3>4. ~(i <= k) /\ i # k + 1
      BY <2>2, <1>0
    <3> QED BY <3>2, <3>3, <3>4
  <2> QED BY <2>1, <2>2, <1>0
<1> QED BY <1>n, <1>7 DEF new

\* The place of a new line keeps the thread in order.
LEMMA InsertedInOrder ==
    ASSUME thread \in Seq(StoredLine), Sorted(thread), NEW line \in StoredLine,
           line.id \notin {thread[i].id : i \in DOMAIN thread}
    PROVE  Inserted(line) \in Seq(StoredLine) /\ Sorted(Inserted(line))
<1>0. /\ Len(thread) \in Nat /\ DOMAIN thread = 1 .. Len(thread)
      /\ \A i \in 1 .. Len(thread) : thread[i] \in StoredLine /\ thread[i].id \in Line /\ thread[i].id # line.id
      /\ line.id \in Line
  <2>1. Len(thread) \in Nat /\ DOMAIN thread = 1 .. Len(thread)
    BY LenProperties
  <2>2. \A i \in 1 .. Len(thread) : thread[i] \in StoredLine
    BY ElementOfSeq
  <2>3. \A old \in StoredLine : old.id \in Line
    BY DEF StoredLine
  <2> QED BY <2>1, <2>2, <2>3
<1> DEFINE B == {i \in DOMAIN thread : ~SentBefore(line.id, thread[i].id)}
<1> DEFINE k == Cardinality(B)
<1>1. \A i \in B : 1 .. i \subseteq B
  <2> SUFFICES ASSUME NEW i \in B, NEW j \in 1 .. i PROVE j \in B
    OBVIOUS
  <2>1. i \in 1 .. Len(thread) /\ j \in 1 .. Len(thread)
    BY <1>0
  <2>2. j = i \/ SentBefore(thread[j].id, thread[i].id)
    BY <2>1, <1>0 DEF Sorted
  <2>3. ~SentBefore(line.id, thread[i].id)
    OBVIOUS
  <2>4. ~SentBefore(line.id, thread[j].id)
    BY <2>1, <2>2, <2>3, <1>0, LinesOrdered
  <2> QED BY <2>1, <2>4, <1>0
<1>2. k \in 0 .. Len(thread) /\ B = 1 .. k
  BY <1>0, <1>1, Initial
<1>3. /\ \A i \in 1 .. k : SentBefore(thread[i].id, line.id)
      /\ \A i \in k + 1 .. Len(thread) : SentBefore(line.id, thread[i].id)
  <2>1. ASSUME NEW i \in 1 .. k PROVE SentBefore(thread[i].id, line.id)
    <3>1. i \in B /\ i \in 1 .. Len(thread)
      BY <1>0, <1>2
    <3> QED BY <3>1, <1>0, LinesOrdered
  <2>2. ASSUME NEW i \in k + 1 .. Len(thread) PROVE SentBefore(line.id, thread[i].id)
    <3>1. i \notin B /\ i \in 1 .. Len(thread)
      <4> HIDE DEF B, k
      <4> QED BY <1>0, <1>2
    <3> QED BY <3>1, <1>0
  <2> QED BY <2>1, <2>2
<1>4. Inserted(line) = InsertAt(thread, k + 1, line)
  BY DEF Inserted
<1> HIDE DEF k, B
<1> DEFINE new == InsertAt(thread, k + 1, line)
<1>5. /\ new \in Seq(StoredLine) /\ Len(new) = Len(thread) + 1
      /\ \A i \in 1 .. Len(thread) + 1 :
             new[i] = IF i <= k THEN thread[i] ELSE IF i = k + 1 THEN line ELSE thread[i - 1]
  BY <1>2, InsertedAt
<1> HIDE DEF new
<1>6. ASSUME NEW i \in 1 .. Len(new), NEW j \in 1 .. Len(new), i < j
      PROVE  SentBefore(new[i].id, new[j].id)
  <2>0. /\ i \in 1 .. Len(thread) + 1 /\ j \in 1 .. Len(thread) + 1 /\ k \in 0 .. Len(thread) /\ Len(thread) \in Nat
        /\ \A x, y \in 1 .. Len(thread) : x < y => SentBefore(thread[x].id, thread[y].id)
    BY <1>0, <1>2, <1>5 DEF Sorted
  <2>1. CASE i <= k /\ j <= k
    <3>1. new[i] = thread[i] /\ new[j] = thread[j]
      BY <1>5, <2>0, <2>1
    <3> QED BY <3>1, <2>0, <2>1, <1>6
  <2>2. CASE i <= k /\ j = k + 1
    <3>1. new[i] = thread[i] /\ new[j] = line
      BY <1>5, <2>0, <2>2
    <3> QED BY <3>1, <2>0, <2>2, <1>3
  <2>3. CASE i <= k /\ j > k + 1
    <3>1. new[i] = thread[i] /\ new[j] = thread[j - 1]
      BY <1>5, <2>0, <2>3
    <3>2. i \in 1 .. Len(thread) /\ j - 1 \in 1 .. Len(thread) /\ i < j - 1
      BY <2>0, <2>3
    <3>3. SentBefore(thread[i].id, thread[j - 1].id)
      BY <3>2, <2>0
    <3> QED BY <3>1, <3>3
  <2>4. CASE i = k + 1
    <3>1. new[i] = line /\ new[j] = thread[j - 1] /\ j - 1 \in k + 1 .. Len(thread)
      BY <1>5, <1>6, <2>0, <2>4
    <3> QED BY <3>1, <1>3
  <2>5. CASE i > k + 1
    <3>1. /\ new[i] = thread[i - 1] /\ new[j] = thread[j - 1]
          /\ i - 1 \in 1 .. Len(thread) /\ j - 1 \in 1 .. Len(thread) /\ i - 1 < j - 1
      BY <1>5, <1>6, <2>0, <2>5
    <3> QED BY <3>1, <2>0
  <2> QED BY <1>6, <2>0, <2>1, <2>2, <2>3, <2>4, <2>5
<1> QED BY <1>4, <1>5, <1>6 DEF Sorted, new

\* Changing a line in place keeps the thread in order.
LEMMA PatchedInOrder ==
    ASSUME thread \in Seq(StoredLine), Sorted(thread), NEW i \in DOMAIN thread,
           NEW line \in StoredLine, line.id = thread[i].id
    PROVE  Patched(i, line) \in Seq(StoredLine) /\ Sorted(Patched(i, line))
<1>1. Len(thread) \in Nat /\ DOMAIN thread = 1 .. Len(thread)
  BY LenProperties
<1>2. /\ Patched(i, line) \in Seq(StoredLine) /\ Len(Patched(i, line)) = Len(thread)
      /\ \A j \in 1 .. Len(thread) : Patched(i, line)[j] = IF j = i THEN line ELSE thread[j]
  BY <1>1, ExceptSeq DEF Patched
<1>3. \A j \in 1 .. Len(thread) : Patched(i, line)[j].id = thread[j].id
  BY <1>2
<1> QED BY <1>1, <1>2, <1>3 DEF Sorted

\* Every write leaves the thread in order, with the revision to be raised.
LEMMA Written ==
    ASSUME LinesShape, Sorted(thread), StoreWrites
    PROVE  /\ thread' \in Seq(StoredLine) /\ Sorted(thread')
           /\ changing' = TRUE /\ revision < MaxRevision /\ UNCHANGED <<revision, log>>
<1>0. /\ Len(thread) \in Nat /\ DOMAIN thread = 1 .. Len(thread) /\ thread \in Seq(StoredLine)
      /\ \A i \in 1 .. Len(thread) : thread[i] \in StoredLine
  BY LenProperties, ElementOfSeq DEF LinesShape
<1>1. changing' = TRUE /\ revision < MaxRevision /\ UNCHANGED <<revision, log>>
  BY DEF StoreWrites, AppendIfNew, PatchOutgoingDelivery, PatchOutgoingFailed, PatchOutgoingReceivedAt,
         PatchAttachmentLocalPath, PatchInboundReadAckSent, Rewrite
<1>2. CASE \E m \in Line : AppendIfNew(m)
  <2>1. PICK m \in Line : AppendIfNew(m)
    BY <1>2
  <2> DEFINE line == [id |-> m, mark |-> IF m \in Outgoing THEN "pending" ELSE "unread",
                      received |-> FALSE, file |-> FALSE]
  <2>2. line \in StoredLine /\ line.id = m
    BY DEF StoredLine, Delivery
  <2>3. thread' = Inserted(line) /\ m \notin {thread[i].id : i \in DOMAIN thread}
    BY <2>1 DEF AppendIfNew, Rewrite
  <2> HIDE DEF line
  <2> QED BY <2>2, <2>3, <1>0, <1>1, InsertedInOrder
<1>3. CASE \E i \in DOMAIN thread :
             \/ \E mark \in Delivery : PatchOutgoingDelivery(i, mark)
             \/ PatchOutgoingFailed(i) \/ PatchOutgoingReceivedAt(i)
             \/ PatchAttachmentLocalPath(i) \/ PatchInboundReadAckSent(i)
  <2>1. PICK i \in DOMAIN thread :
             \/ \E mark \in Delivery : PatchOutgoingDelivery(i, mark)
             \/ PatchOutgoingFailed(i) \/ PatchOutgoingReceivedAt(i)
             \/ PatchAttachmentLocalPath(i) \/ PatchInboundReadAckSent(i)
    BY <1>3
  <2>2. thread[i] \in StoredLine
    BY <1>0
  <2>3. \E line \in StoredLine : line.id = thread[i].id /\ thread' = Patched(i, line)
    <3>1. ASSUME NEW mark \in Delivery \union {"unread", "acked"}, thread' = Patched(i, [thread[i] EXCEPT !.mark = mark])
          PROVE  \E line \in StoredLine : line.id = thread[i].id /\ thread' = Patched(i, line)
      <4>1. [thread[i] EXCEPT !.mark = mark] \in StoredLine /\ [thread[i] EXCEPT !.mark = mark].id = thread[i].id
        BY <2>2 DEF StoredLine
      <4> QED BY <3>1, <4>1
    <3>2. CASE PatchOutgoingReceivedAt(i)
      <4>1. [thread[i] EXCEPT !.received = TRUE] \in StoredLine /\ [thread[i] EXCEPT !.received = TRUE].id = thread[i].id
        BY <2>2 DEF StoredLine
      <4> QED BY <3>2, <4>1 DEF PatchOutgoingReceivedAt, Rewrite
    <3>3. CASE PatchAttachmentLocalPath(i)
      <4>1. [thread[i] EXCEPT !.file = TRUE] \in StoredLine /\ [thread[i] EXCEPT !.file = TRUE].id = thread[i].id
        BY <2>2 DEF StoredLine
      <4> QED BY <3>3, <4>1 DEF PatchAttachmentLocalPath, Rewrite
    <3>4. CASE PatchOutgoingFailed(i)
      BY <3>1, <3>4 DEF PatchOutgoingFailed, Rewrite, Delivery
    <3>5. CASE PatchInboundReadAckSent(i)
      BY <3>1, <3>5 DEF PatchInboundReadAckSent, Rewrite
    <3>6. CASE \E mark \in Delivery : PatchOutgoingDelivery(i, mark)
      BY <3>1, <3>6 DEF PatchOutgoingDelivery, Rewrite
    <3> QED BY <2>1, <3>2, <3>3, <3>4, <3>5, <3>6
  <2>4. PICK line \in StoredLine : line.id = thread[i].id /\ thread' = Patched(i, line)
    BY <2>3
  <2> QED BY <2>4, <1>0, <1>1, PatchedInOrder
<1> QED BY <1>2, <1>3 DEF StoreWrites

LEMMA LinesStart == LinesInit => LinesShape /\ Sorted(thread) /\ LogFresh
<1> SUFFICES ASSUME LinesInit PROVE LinesShape /\ Sorted(thread) /\ LogFresh
  OBVIOUS
<1>1. <<>> \in Seq(StoredLine) /\ Len(<<>>) = 0
  OBVIOUS
<1>2. log \in LogRecord /\ log.rev = 0 /\ log.state = "closed"
  BY <1>1, RoomLinesAssumption DEF LinesInit, LogRecord
<1>3. LinesShape
  <2>1. thread \in Seq(StoredLine) /\ revision = 0 /\ changing = FALSE
    BY <1>1 DEF LinesInit
  <2>2. MaxRevision \in Nat
    BY RoomLinesAssumption
  <2>3. revision \in 0 .. MaxRevision
    BY <2>1, <2>2
  <2>4. log.rev <= revision
    BY <2>1, <1>2
  <2>5. changing \in BOOLEAN
    BY <2>1
  <2>6. ~changing
    BY <2>1
  <2> QED BY <2>1, <2>3, <2>4, <2>5, <2>6, <1>2 DEF LinesShape
<1>4. Sorted(thread)
  BY <1>1 DEF LinesInit, Sorted
<1> QED BY <1>2, <1>3, <1>4 DEF LogFresh

\* The newest lines are the last ones, from FirstOf on.
FirstOf(lines, limit) == IF Len(lines) > limit THEN Len(lines) - limit + 1 ELSE 1

LEMMA NewestLines ==
    ASSUME NEW lines \in Seq(StoredLine), NEW limit \in Nat
    PROVE  /\ Newest(lines, limit) \in Seq(StoredLine)
           /\ FirstOf(lines, limit) \in 1 .. Len(lines) + 1
           /\ Len(Newest(lines, limit)) = Len(lines) - FirstOf(lines, limit) + 1
           /\ \A i \in 1 .. Len(lines) - FirstOf(lines, limit) + 1 :
                 Newest(lines, limit)[i] = lines[FirstOf(lines, limit) + i - 1]
<1> DEFINE first == FirstOf(lines, limit)
<1>0. Len(lines) \in Nat /\ \A i \in 1 .. Len(lines) : lines[i] \in StoredLine
  BY LenProperties, ElementOfSeq
<1>1. first \in 1 .. Len(lines) + 1
  BY <1>0 DEF FirstOf
<1>2. Newest(lines, limit) = SubSeq(lines, first, Len(lines))
  BY DEF Newest, FirstOf
<1> HIDE DEF first
<1>3. \A i \in first .. Len(lines) : lines[i] \in StoredLine
  BY <1>0, <1>1
<1>4. /\ SubSeq(lines, first, Len(lines)) \in Seq(StoredLine)
      /\ Len(SubSeq(lines, first, Len(lines))) = IF first <= Len(lines) THEN Len(lines) - first + 1 ELSE 0
      /\ \A i \in 1 .. Len(lines) - first + 1 : SubSeq(lines, first, Len(lines))[i] = lines[first + i - 1]
  BY <1>0, <1>1, <1>3, SubSeqProperties
<1>5. (IF first <= Len(lines) THEN Len(lines) - first + 1 ELSE 0) = Len(lines) - first + 1
  BY <1>0, <1>1
<1>6. /\ Newest(lines, limit) \in Seq(StoredLine)
      /\ first \in 1 .. Len(lines) + 1
      /\ Len(Newest(lines, limit)) = Len(lines) - first + 1
      /\ \A i \in 1 .. Len(lines) - first + 1 : Newest(lines, limit)[i] = lines[first + i - 1]
  BY <1>1, <1>2, <1>4, <1>5
<1> QED BY <1>6 DEF first

LEMMA LinesStep ==
    LinesShape /\ Sorted(thread) /\ LogFresh /\ [LinesNext]_lineVars
        => LinesShape' /\ Sorted(thread') /\ LogFresh'
<1> SUFFICES ASSUME LinesShape, Sorted(thread), LogFresh, [LinesNext]_lineVars
             PROVE  LinesShape' /\ Sorted(thread') /\ LogFresh'
  OBVIOUS
<1>0. /\ log \in LogRecord /\ log.rev <= revision /\ revision \in 0 .. MaxRevision /\ MaxRevision \in Nat
      /\ log.rev \in 0 .. MaxRevision /\ log.limit \in Nat /\ thread \in Seq(StoredLine) /\ PageSize \in Nat
  BY RoomLinesAssumption DEF LinesShape, LogRecord
<1>1. CASE UNCHANGED lineVars
  BY <1>1 DEF lineVars, LinesShape, LogFresh
<1>2. CASE StoreWrites
  BY <1>2, Written DEF LinesShape, LogFresh
<1>3. CASE RaiseRevision
  <2>1. /\ changing /\ changing' = FALSE /\ revision' = revision + 1 /\ UNCHANGED <<thread, log>>
        /\ revision < MaxRevision
    BY <1>3 DEF RaiseRevision, LinesShape
  <2>2. revision' \in 0 .. MaxRevision /\ log.rev <= revision' /\ log.rev # revision'
    BY <2>1, <1>0
  <2>3. LinesShape'
    BY <2>1, <2>2, <1>0 DEF LinesShape
  <2> QED BY <2>1, <2>2, <2>3 DEF LogFresh
<1>4. ASSUME NEW limit \in Nat, Reload(limit), HubStep PROVE LinesShape' /\ Sorted(thread') /\ LogFresh'
  <2>1. log' \in LogRecord /\ log'.state = "loading" /\ log'.rev = revision
    BY <1>4, <1>0 DEF Reload, LogRecord
  <2> QED BY <2>1, <1>0, <1>4 DEF HubStep, LinesShape, LogFresh
<1>5. CASE ShowRoom \/ PollRevision \/ LoadOlder
  <2>1. log.limit \in Nat /\ log.limit + PageSize \in Nat
    BY <1>0
  <2> QED BY <1>4, <1>5, <2>1 DEF ShowRoom, PollRevision, LoadOlder
<1>6. CASE ShowLines
  <2>0. <<>> \in Seq(StoredLine)
    OBVIOUS
  <2>1. Newest(thread, log.limit) \in Seq(StoredLine)
    BY <1>0, NewestLines
  <2>2. /\ log' \in LogRecord /\ log'.rev = log.rev /\ log'.limit = log.limit
        /\ \/ log'.lines = Newest(thread, log.limit) /\ log'.more = (Len(thread) > log.limit)
           \/ log'.failed
    <3>1. (Len(thread) > log.limit) \in BOOLEAN
      OBVIOUS
    <3> QED BY <1>6, <1>0, <2>0, <2>1, <3>1 DEF ShowLines, LogRecord
  <2>3. UNCHANGED <<thread, revision, changing>>
    BY <1>6 DEF ShowLines
  <2> QED BY <2>2, <2>3, <1>0 DEF LinesShape, LogFresh
<1>7. CASE CloseRoom
  <2>1. log' \in LogRecord /\ log'.rev = log.rev /\ log'.state = "closed" /\ UNCHANGED <<thread, revision, changing>>
    <3>1. <<>> \in Seq(StoredLine)
      OBVIOUS
    <3> QED BY <1>7, <1>0, <3>1 DEF CloseRoom, LogRecord
  <2> QED BY <2>1, <1>0 DEF LinesShape, LogFresh
<1> QED BY <1>1, <1>2, <1>3, <1>5, <1>6, <1>7 DEF LinesNext

LEMMA LinesFollow == LinesShape /\ Sorted(thread) /\ LogFresh => LinesAreFresh
<1> SUFFICES ASSUME LinesShape, Sorted(thread), LogFresh,
                    log.state = "idle", ~changing, log.rev = revision, ~log.failed
             PROVE  LET stored == {thread[i] : i \in DOMAIN thread}
                        shown == {log.lines[k] : k \in DOMAIN log.lines}
                    IN  /\ shown \subseteq stored
                        /\ Len(log.lines) = IF Len(thread) < log.limit THEN Len(thread) ELSE log.limit
                        /\ \A j, k \in DOMAIN log.lines : j < k => SentBefore(log.lines[j].id, log.lines[k].id)
                        /\ \A older \in stored \ shown, newer \in shown : SentBefore(older.id, newer.id)
                        /\ log.more = (Len(thread) > Len(log.lines))
  BY DEF LinesAreFresh
<1> DEFINE stored == {thread[i] : i \in DOMAIN thread}
<1> DEFINE shown == {log.lines[k] : k \in DOMAIN log.lines}
<1> DEFINE first == FirstOf(thread, log.limit)
<1>0. /\ thread \in Seq(StoredLine) /\ log.limit \in Nat /\ Len(thread) \in Nat /\ DOMAIN thread = 1 .. Len(thread)
      /\ log.lines \in Seq(StoredLine)
  BY LenProperties DEF LinesShape, LogRecord
<1>1. log.lines = Newest(thread, log.limit) /\ log.more = (Len(thread) > log.limit)
  BY DEF LogFresh
<1>2. /\ first \in 1 .. Len(thread) + 1
      /\ Len(log.lines) = Len(thread) - first + 1
      /\ \A i \in 1 .. Len(thread) - first + 1 : log.lines[i] = thread[first + i - 1]
  <2>1. /\ FirstOf(thread, log.limit) \in 1 .. Len(thread) + 1
        /\ Len(Newest(thread, log.limit)) = Len(thread) - FirstOf(thread, log.limit) + 1
        /\ \A i \in 1 .. Len(thread) - FirstOf(thread, log.limit) + 1 :
              Newest(thread, log.limit)[i] = thread[FirstOf(thread, log.limit) + i - 1]
    <3>1. thread \in Seq(StoredLine) /\ log.limit \in Nat
      BY <1>0
    <3> QED BY <3>1, NewestLines
  <2> QED BY <2>1, <1>1
<1>3. DOMAIN log.lines = 1 .. Len(thread) - first + 1
  BY <1>0, <1>2, LenProperties
<1>4. Len(log.lines) = IF Len(thread) < log.limit THEN Len(thread) ELSE log.limit
  BY <1>0, <1>2 DEF FirstOf
<1>5. log.more = (Len(thread) > Len(log.lines))
  BY <1>0, <1>1, <1>4
<1> HIDE DEF first
<1>6. \A k \in DOMAIN log.lines : first + k - 1 \in 1 .. Len(thread) /\ log.lines[k] = thread[first + k - 1]
  <2> SUFFICES ASSUME NEW k \in 1 .. Len(thread) - first + 1
               PROVE  first + k - 1 \in 1 .. Len(thread) /\ log.lines[k] = thread[first + k - 1]
    BY <1>3
  <2>1. first \in 1 .. Len(thread) + 1 /\ Len(thread) \in Nat
    BY <1>0, <1>2
  <2>2. first + k - 1 \in 1 .. Len(thread)
    BY <2>1
  <2> QED BY <2>2, <1>2
<1>7. shown \subseteq stored
  BY <1>0, <1>6
<1>8. \A j, k \in DOMAIN log.lines : j < k => SentBefore(log.lines[j].id, log.lines[k].id)
  <2> SUFFICES ASSUME NEW j \in DOMAIN log.lines, NEW k \in DOMAIN log.lines, j < k
               PROVE  SentBefore(log.lines[j].id, log.lines[k].id)
    OBVIOUS
  <2>1. first + j - 1 < first + k - 1
    BY <1>2, <1>3
  <2> QED BY <2>1, <1>6 DEF Sorted
<1>9. \A older \in stored \ shown, newer \in shown : SentBefore(older.id, newer.id)
  <2> SUFFICES ASSUME NEW older \in stored \ shown, NEW newer \in shown PROVE SentBefore(older.id, newer.id)
    OBVIOUS
  <2>1. PICK i \in 1 .. Len(thread) : older = thread[i]
    BY <1>0
  <2>2. PICK k \in DOMAIN log.lines : newer = log.lines[k]
    OBVIOUS
  <2>3. i < first
    <3>1. CASE i >= first
      <4>1. i - first + 1 \in DOMAIN log.lines /\ first + (i - first + 1) - 1 = i
        BY <3>1, <1>0, <1>2, <1>3
      <4>2. log.lines[i - first + 1] = thread[i]
        BY <4>1, <1>6
      <4> QED BY <4>1, <4>2, <2>1
    <3> QED BY <3>1, <1>2
  <2>4. first + k - 1 \in 1 .. Len(thread) /\ newer = thread[first + k - 1] /\ i < first + k - 1
    BY <2>2, <2>3, <1>0, <1>2, <1>3, <1>6
  <2> QED BY <2>1, <2>4 DEF Sorted
<1> QED BY <1>4, <1>5, <1>7, <1>8, <1>9

(* Every state of a thread and of the log has its type, the revision the     *)
(* hub has read among the ones the store has given (dm_transcript_store.rs). *)
THEOREM LinesTypeCorrect == LinesSpec => []LinesTypeOK
<1>1. LinesInit => LinesShape /\ ThreadInOrder /\ LogFresh
  BY LinesStart DEF ThreadInOrder
<1>2. LinesShape /\ ThreadInOrder /\ LogFresh /\ [LinesNext]_lineVars => LinesShape' /\ ThreadInOrder' /\ LogFresh'
  BY LinesStep DEF ThreadInOrder
<1>3. LinesShape => LinesTypeOK
  BY DEF LinesShape, LinesTypeOK, LogRecord
<1> QED BY <1>1, <1>2, <1>3, PTL DEF LinesSpec

(* The room that has seen the last revision of its thread shows the newest   *)
(* of its lines, in the order they were sent (dm_transcript_store.rs).       *)
THEOREM RoomShowsTheNewest == LinesSpec => []LinesAreFresh
<1>1. LinesInit => LinesShape /\ ThreadInOrder /\ LogFresh
  BY LinesStart DEF ThreadInOrder
<1>2. LinesShape /\ ThreadInOrder /\ LogFresh /\ [LinesNext]_lineVars => LinesShape' /\ ThreadInOrder' /\ LogFresh'
  BY LinesStep DEF ThreadInOrder
<1>3. LinesShape /\ ThreadInOrder /\ LogFresh => LinesAreFresh
  BY LinesFollow DEF ThreadInOrder
<1> QED BY <1>1, <1>2, <1>3, PTL DEF LinesSpec

(***************************************************************************)
(* The unread counts.                                                      *)
(***************************************************************************)

BadgeShape ==
    /\ clearing \in BadgeContact \union {Nowhere}
    /\ unread \in [BadgeContact -> Nat]
    /\ transcript \subseteq BadgeMsg /\ replays \subseteq BadgeMsg /\ unwatched \subseteq BadgeMsg
    /\ applying \in [Applier -> SUBSET Job]
    /\ \A t \in Applier : \A j, k \in applying[t] : j = k
    /\ badgeFailures \in Nat

\* What is being applied belongs to the screen: a message that does not count
\* came while its room was watched, and the hub, which applies no message
\* while it opens a room, still watches that room.
OnWatch ==
    /\ \A c \in BadgeContact : Watched(c) => unwatched \intersect From(c) = {}
    /\ \A t \in Applier : \A job \in applying[t] : ~job.bump => job.msg \notin unwatched
    /\ \A job \in applying["hub"] : ~job.bump => Watched(SenderOf[job.msg])
    /\ clearing # Nowhere => Watched(clearing) /\ applying["hub"] = {}

\* The messages of a contact that the badge has to cover: the unwatched ones
\* whose row is written or that the worker has counted, and those the hub has
\* counted.
CountedByWorker == {m \in BadgeMsg : \E job \in applying["worker"] : job.msg = m /\ job.counted}
CountedUpByHub == {m \in BadgeMsg : \E job \in applying["hub"] : job.msg = m /\ job.counted /\ job.bump}
Owing(c) == From(c) \intersect ((unwatched \intersect (transcript \union CountedByWorker)) \union CountedUpByHub)
Covers == \A c \in BadgeContact : unread[c] >= Cardinality(Owing(c))

\* Every count of a contact is paid for: by a row, by two for a failed append,
\* or by the worker that is about to append.  What may still count without
\* adding a row (the hub's retries, the worker's second copy) is paid, too.
Late(c) == IF \E job \in applying["worker"] : SenderOf[job.msg] = c /\ job.msg \in transcript THEN 1 ELSE 0
Counting(c) == IF \E job \in applying["worker"] : SenderOf[job.msg] = c /\ job.counted THEN 1 ELSE 0
Retrying(c) == IF \E job \in applying["hub"] : SenderOf[job.msg] = c /\ ~job.counted THEN 1 ELSE 0
Again(c) == (replays \intersect From(c)) \ transcript
PaidFor ==
    \A c \in BadgeContact :
        unread[c] + Cardinality(Again(c)) + Retrying(c) + Late(c)
            <= Cardinality(transcript \intersect From(c)) + 2 * badgeFailures + Counting(c)

LEMMA Sizes ==
    ASSUME NEW R \in SUBSET BadgeMsg
    PROVE  /\ IsFiniteSet(R) /\ Cardinality(R) \in Nat
           /\ \A S \in SUBSET R : Cardinality(S) \in Nat /\ Cardinality(S) <= Cardinality(R)
           /\ \A m \in BadgeMsg : /\ Cardinality(R \union {m}) = IF m \in R THEN Cardinality(R) ELSE Cardinality(R) + 1
                                  /\ Cardinality(R \ {m}) = IF m \in R THEN Cardinality(R) - 1 ELSE Cardinality(R)
<1>1. IsFiniteSet(R) /\ Cardinality(R) \in Nat
  BY BadgeAssumption, FS_Subset, FS_CardinalityType
<1>2. ASSUME NEW S \in SUBSET R PROVE Cardinality(S) \in Nat /\ Cardinality(S) <= Cardinality(R)
  BY <1>1, FS_Subset, FS_CardinalityType
<1>3. ASSUME NEW m \in BadgeMsg
      PROVE  /\ Cardinality(R \union {m}) = IF m \in R THEN Cardinality(R) ELSE Cardinality(R) + 1
             /\ Cardinality(R \ {m}) = IF m \in R THEN Cardinality(R) - 1 ELSE Cardinality(R)
  BY <1>1, FS_AddElement, FS_RemoveElement
<1> QED BY <1>1, <1>2, <1>3

LEMMA Senders == \A m \in BadgeMsg : SenderOf[m] \in BadgeContact
  BY DEF BadgeContact

\* What a thread does when it takes up a message.
LEMMA Began ==
    ASSUME BadgeShape, NEW t \in Applier, NEW m \in BadgeMsg, applying[t] = {}, Apply(t, m)
    PROVE  /\ applying' \in [Applier -> SUBSET Job]
           /\ \A s \in Applier \ {t} : applying'[s] = applying[s]
           /\ \/ applying'[t] = {}
              \/ /\ m \notin transcript
                 /\ applying'[t] = {[msg |-> m, bump |-> ~Watched(SenderOf[m]), counted |-> FALSE]}
<1>1. \/ applying' = applying
      \/ /\ m \notin transcript
         /\ applying' = [applying EXCEPT ![t] = {[msg |-> m, bump |-> ~Watched(SenderOf[m]), counted |-> FALSE]}]
  BY DEF Apply, ApplyText, ApplyVoice, ApplyOffer, Begin
<1>2. [msg |-> m, bump |-> ~Watched(SenderOf[m]), counted |-> FALSE] \in Job
  BY DEF Job, Watched
<1>3. CASE applying' = applying
  BY <1>3 DEF BadgeShape
<1>4. CASE applying' # applying
  BY <1>4, <1>1, <1>2 DEF BadgeShape
<1> QED BY <1>3, <1>4

LEMMA Counts ==
    ASSUME BadgeShape, NEW t \in Applier, Count(t)
    PROVE  \E job \in Job :
             /\ applying[t] = {job} /\ ~job.counted
             /\ applying' = [applying EXCEPT ![t] = {[msg |-> job.msg, bump |-> job.bump, counted |-> TRUE]}]
             /\ unread' = IF job.bump THEN [unread EXCEPT ![SenderOf[job.msg]] = @ + 1] ELSE unread
             /\ UNCHANGED <<screen, transcript, replays, badgeFailures, unwatched>>
<1>1. PICK job \in applying[t] :
        LET c == SenderOf[job.msg] IN
        /\ ~job.counted
        /\ unread' = [unread EXCEPT ![c] = IF job.bump THEN @ + 1 ELSE @]
        /\ applying' = [applying EXCEPT ![t] = {[job EXCEPT !.counted = TRUE]}]
        /\ UNCHANGED <<screen, transcript, replays, badgeFailures, unwatched>>
  BY DEF Count
<1>2. job \in Job /\ applying[t] = {job}
  BY DEF BadgeShape
<1>3. [job EXCEPT !.counted = TRUE] = [msg |-> job.msg, bump |-> job.bump, counted |-> TRUE]
  <2> DEFINE after == [job EXCEPT !.counted = TRUE]
  <2>1. after \in Job /\ after.msg = job.msg /\ after.bump = job.bump /\ after.counted = TRUE
    BY <1>2 DEF Job
  <2> HIDE DEF after
  <2>2. after = [msg |-> after.msg, bump |-> after.bump, counted |-> after.counted]
    BY <2>1 DEF Job
  <2>3. after = [msg |-> job.msg, bump |-> job.bump, counted |-> TRUE]
    BY <2>1, <2>2
  <2> QED BY <2>3 DEF after
<1>4. job.msg \in BadgeMsg /\ SenderOf[job.msg] \in BadgeContact
  BY <1>2, Senders DEF Job
<1>5. unread' = IF job.bump THEN [unread EXCEPT ![SenderOf[job.msg]] = @ + 1] ELSE unread
  BY <1>1, <1>4 DEF BadgeShape
<1> QED BY <1>1, <1>2, <1>3, <1>5

LEMMA Appends ==
    ASSUME BadgeShape, NEW t \in Applier, AppendRow(t)
    PROVE  \E job \in Job, saved \in BOOLEAN :
             /\ applying[t] = {job} /\ job.counted
             /\ applying' = [applying EXCEPT ![t] = {}]
             /\ transcript' = IF saved THEN transcript \union {job.msg} ELSE transcript
             /\ badgeFailures' = IF saved THEN badgeFailures ELSE badgeFailures + 1
             /\ replays' = IF t = "worker" THEN replays \union {job.msg} ELSE replays
             /\ UNCHANGED <<screen, unread, unwatched>>
<1>1. PICK job \in applying[t], saved \in BOOLEAN :
             /\ job.counted
             /\ applying' = [applying EXCEPT ![t] = {}]
             /\ transcript' = IF saved THEN transcript \union {job.msg} ELSE transcript
             /\ badgeFailures' = IF saved THEN badgeFailures ELSE badgeFailures + 1
             /\ replays' = IF t = "worker" THEN replays \union {job.msg} ELSE replays
             /\ UNCHANGED <<screen, unread, unwatched>>
  BY DEF AppendRow, roster
<1>2. job \in Job /\ applying[t] = {job}
  BY DEF BadgeShape
<1> QED BY <1>1, <1>2

LEMMA ShapeStep == BadgeShape /\ [BadgeNext]_badgeVars => BadgeShape'
<1> SUFFICES ASSUME BadgeShape, [BadgeNext]_badgeVars PROVE BadgeShape'
  OBVIOUS
<1>0. /\ applying \in [Applier -> SUBSET Job] /\ \A t \in Applier : \A j, k \in applying[t] : j = k
      /\ "hub" \in Applier /\ "worker" \in Applier
  BY DEF BadgeShape, Applier
<1>1. CASE UNCHANGED badgeVars
  BY <1>1 DEF badgeVars, screen, roster, BadgeShape
<1>2. ASSUME NEW t \in Applier, NEW m \in BadgeMsg, applying[t] = {}, Apply(t, m)
      PROVE  applying' \in [Applier -> SUBSET Job] /\ \A s \in Applier : \A j, k \in applying'[s] : j = k
  <2>1. \A s \in Applier \ {t} : \A j, k \in applying'[s] : j = k
    BY <1>2, <1>0, Began
  <2>2. \A j, k \in applying'[t] : j = k
    BY <1>2, Began
  <2> QED BY <1>2, <2>1, <2>2, Began
<1>3. ASSUME NEW m \in BadgeMsg, Push(m) PROVE BadgeShape'
  BY <1>3, <1>2, <1>0 DEF Push, BadgeShape, screen, roster
<1>4. ASSUME NEW m \in BadgeMsg, Poll(m) PROVE BadgeShape'
  BY <1>4, <1>2, <1>0 DEF Poll, HubIsFree, BadgeShape, screen, roster
<1>5. ASSUME NEW t \in Applier, Count(t) PROVE BadgeShape'
  <2>1. PICK job \in Job :
             /\ applying[t] = {job} /\ ~job.counted
             /\ applying' = [applying EXCEPT ![t] = {[msg |-> job.msg, bump |-> job.bump, counted |-> TRUE]}]
             /\ unread' = IF job.bump THEN [unread EXCEPT ![SenderOf[job.msg]] = @ + 1] ELSE unread
             /\ UNCHANGED <<screen, transcript, replays, badgeFailures, unwatched>>
    BY <1>5, Counts
  <2>2. [msg |-> job.msg, bump |-> job.bump, counted |-> TRUE] \in Job
    BY DEF Job
  <2>3. applying' \in [Applier -> SUBSET Job] /\ \A s \in Applier : \A j, k \in applying'[s] : j = k
    BY <2>1, <2>2, <1>0
  <2>4. unread' \in [BadgeContact -> Nat]
    <3>1. SenderOf[job.msg] \in BadgeContact /\ unread \in [BadgeContact -> Nat]
      BY Senders DEF Job, BadgeShape
    <3>2. [unread EXCEPT ![SenderOf[job.msg]] = @ + 1] \in [BadgeContact -> Nat]
      BY <3>1
    <3> QED BY <2>1, <3>1, <3>2
  <2> QED BY <2>1, <2>3, <2>4 DEF BadgeShape, screen
<1>6. ASSUME NEW t \in Applier, AppendRow(t) PROVE BadgeShape'
  <2>1. PICK job \in Job, saved \in BOOLEAN :
             /\ applying[t] = {job} /\ job.counted
             /\ applying' = [applying EXCEPT ![t] = {}]
             /\ transcript' = IF saved THEN transcript \union {job.msg} ELSE transcript
             /\ badgeFailures' = IF saved THEN badgeFailures ELSE badgeFailures + 1
             /\ replays' = IF t = "worker" THEN replays \union {job.msg} ELSE replays
             /\ UNCHANGED <<screen, unread, unwatched>>
    BY <1>6, Appends
  <2>2. job.msg \in BadgeMsg
    BY DEF Job
  <2>3. applying' \in [Applier -> SUBSET Job] /\ \A s \in Applier : \A j, k \in applying'[s] : j = k
    BY <2>1, <1>0
  <2> QED BY <2>1, <2>2, <2>3 DEF BadgeShape, screen
<1>7. ASSUME NEW c \in BadgeContact, EnterRoom(c) \/ SetBlocked(c) PROVE BadgeShape'
  BY <1>7 DEF EnterRoom, SetBlocked, BadgeShape, screen, roster
<1>8. CASE ClearUnread
  BY <1>8 DEF ClearUnread, BadgeShape
<1>9. CASE QuitRoom \/ TurnScreen
  BY <1>9 DEF QuitRoom, TurnScreen, BadgeShape, roster
<1> QED BY <1>1, <1>3, <1>4, <1>5, <1>6, <1>7, <1>8, <1>9 DEF BadgeNext

\* What the screen, the blocked contacts, the previews and the failures hold.
BadgeTypes ==
    /\ openRoom \in BadgeContact \union {Nowhere} /\ onScreen \in BOOLEAN
    /\ blocked \subseteq BadgeContact
    /\ previewAt \in [BadgeContact -> Nat]
    /\ badgeFailures \in 0 .. MaxBadgeFailures

LEMMA TypesStep == BadgeShape /\ BadgeTypes /\ [BadgeNext]_badgeVars => BadgeTypes'
<1> SUFFICES ASSUME BadgeShape, BadgeTypes, [BadgeNext]_badgeVars PROVE BadgeTypes'
  OBVIOUS
<1>1. CASE UNCHANGED badgeVars
  BY <1>1 DEF badgeVars, screen, roster, BadgeTypes
<1>2. ASSUME NEW m \in BadgeMsg, Push(m) \/ Poll(m) PROVE BadgeTypes'
  BY <1>2 DEF Push, Poll, BadgeTypes, screen, roster
<1>3. ASSUME NEW t \in Applier, Count(t) PROVE BadgeTypes'
  <2>1. PICK job \in applying[t] :
             /\ previewAt' = [previewAt EXCEPT ![SenderOf[job.msg]] =
                                  IF SentAt[job.msg] < @ THEN @ ELSE SentAt[job.msg]]
             /\ UNCHANGED <<openRoom, onScreen, blocked, badgeFailures>>
    BY <1>3 DEF Count, screen
  <2>2. job.msg \in BadgeMsg
    BY DEF BadgeShape, Job
  <2>3. SentAt[job.msg] \in Nat
    BY <2>2, BadgeAssumption
  <2>4. previewAt' \in [BadgeContact -> Nat]
    BY <2>1, <2>3 DEF BadgeTypes
  <2> QED BY <2>1, <2>4 DEF BadgeTypes
<1>4. ASSUME NEW t \in Applier, AppendRow(t) PROVE BadgeTypes'
  <2>1. PICK saved \in BOOLEAN :
             /\ saved \/ badgeFailures < MaxBadgeFailures
             /\ badgeFailures' = IF saved THEN badgeFailures ELSE badgeFailures + 1
             /\ UNCHANGED <<openRoom, onScreen, blocked, previewAt>>
    BY <1>4 DEF AppendRow, screen, roster
  <2> QED BY <2>1, BadgeAssumption DEF BadgeTypes
<1>5. ASSUME NEW c \in BadgeContact, EnterRoom(c) \/ SetBlocked(c) PROVE BadgeTypes'
  BY <1>5 DEF EnterRoom, SetBlocked, BadgeTypes, screen, roster
<1>6. CASE ClearUnread \/ QuitRoom \/ TurnScreen
  BY <1>6 DEF ClearUnread, QuitRoom, TurnScreen, BadgeTypes, roster
<1> QED BY <1>1, <1>2, <1>3, <1>4, <1>5, <1>6 DEF BadgeNext

LEMMA WatchStep == BadgeShape /\ OnWatch /\ [BadgeNext]_badgeVars => OnWatch'
<1> SUFFICES ASSUME BadgeShape, OnWatch, [BadgeNext]_badgeVars PROVE OnWatch'
  OBVIOUS
<1>0. /\ \A c \in BadgeContact : Watched(c) => \A m \in BadgeMsg : SenderOf[m] = c => m \notin unwatched
      /\ \A t \in Applier : \A job \in applying[t] : ~job.bump => job.msg \notin unwatched
      /\ \A job \in applying["hub"] : ~job.bump => Watched(SenderOf[job.msg])
      /\ clearing # Nowhere => Watched(clearing) /\ applying["hub"] = {}
      /\ \A t \in Applier : \A job \in applying[t] : job \in Job /\ job.msg \in BadgeMsg /\ SenderOf[job.msg] \in BadgeContact
      /\ "hub" \in Applier /\ "worker" \in Applier /\ \A t \in Applier : t = "hub" \/ t = "worker"
  BY Senders DEF OnWatch, From, BadgeShape, Job, Applier
<1>1. CASE UNCHANGED badgeVars
  BY <1>1 DEF badgeVars, screen, roster, OnWatch, Watched
<1>2. ASSUME NEW m \in BadgeMsg, Push(m) PROVE OnWatch'
  <2>1. /\ UNCHANGED screen /\ applying["worker"] = {} /\ Apply("worker", m)
        /\ unwatched' = IF Watched(SenderOf[m]) \/ m \in transcript \/ SenderOf[m] \in blocked
                        THEN unwatched ELSE unwatched \union {m}
    BY <1>2 DEF Push
  <2>2. \A c : Watched(c)' = Watched(c)
    BY <2>1 DEF Watched, screen
  <2>3. \A c \in BadgeContact : Watched(c) => unwatched' \intersect From(c) = {}
    BY <2>1, <1>0 DEF From
  <2>4. /\ applying'["hub"] = applying["hub"]
        /\ \A job \in applying'["worker"] : job.msg = m /\ job.bump = ~Watched(SenderOf[m])
    BY <2>1, <1>0, Began
  <2>5. \A job \in applying'["worker"] : ~job.bump => job.msg \notin unwatched'
    BY <2>1, <2>4, <1>0, Senders
  <2>6. \A job \in applying'["hub"] : ~job.bump => Watched(SenderOf[job.msg]) /\ job.msg \notin unwatched'
    BY <2>3, <2>4, <1>0 DEF From
  <2> QED BY <2>1, <2>2, <2>3, <2>4, <2>5, <2>6, <1>0 DEF OnWatch, From, screen
<1>3. ASSUME NEW m \in BadgeMsg, Poll(m) PROVE OnWatch'
  <2>1. /\ UNCHANGED <<screen, unwatched>> /\ applying["hub"] = {} /\ clearing = Nowhere /\ Apply("hub", m)
    BY <1>3 DEF Poll, HubIsFree
  <2>2. \A c : Watched(c)' = Watched(c)
    BY <2>1 DEF Watched, screen
  <2>4. /\ applying'["worker"] = applying["worker"]
        /\ \A job \in applying'["hub"] : job.msg = m /\ job.bump = ~Watched(SenderOf[m])
    BY <2>1, <1>0, Began
  <2>6. \A job \in applying'["hub"] : ~job.bump => Watched(SenderOf[job.msg]) /\ job.msg \notin unwatched'
    BY <2>1, <2>4, <1>0, Senders
  <2> QED BY <2>1, <2>2, <2>4, <2>6, <1>0 DEF OnWatch, From, screen
<1>4. ASSUME NEW t \in Applier, Count(t) PROVE OnWatch'
  <2>1. PICK job \in Job :
             /\ applying[t] = {job} /\ ~job.counted
             /\ applying' = [applying EXCEPT ![t] = {[msg |-> job.msg, bump |-> job.bump, counted |-> TRUE]}]
             /\ UNCHANGED <<screen, unwatched>>
    BY <1>4, Counts
  <2>2. \A c : Watched(c)' = Watched(c)
    BY <2>1 DEF Watched, screen
  <2>3. \A s \in Applier : \A k \in applying'[s] : \E j \in applying[s] : k.msg = j.msg /\ k.bump = j.bump
    BY <2>1 DEF BadgeShape
  <2>4. clearing' # Nowhere => t # "hub" /\ applying'["hub"] = {} /\ clearing' = clearing
    BY <2>1, <1>0 DEF screen, BadgeShape
  <2> QED BY <2>1, <2>2, <2>3, <2>4, <1>0 DEF OnWatch, From
<1>5. ASSUME NEW t \in Applier, AppendRow(t) PROVE OnWatch'
  <2>1. applying' = [applying EXCEPT ![t] = {}] /\ UNCHANGED <<screen, unwatched>>
    BY <1>5, Appends
  <2>2. \A c : Watched(c)' = Watched(c)
    BY <2>1 DEF Watched, screen
  <2>3. \A s \in Applier : applying'[s] \subseteq applying[s]
    BY <2>1 DEF BadgeShape
  <2> QED BY <2>1, <2>2, <2>3, <1>0 DEF OnWatch, From, screen
<1>6. ASSUME NEW c \in BadgeContact, EnterRoom(c) PROVE OnWatch'
  <2>1. /\ applying["hub"] = {} /\ applying' = applying /\ unwatched' = unwatched \ From(c)
        /\ openRoom' = c /\ onScreen' = TRUE /\ clearing' = c
    BY <1>6 DEF EnterRoom, HubIsFree
  <2>2. \A d : Watched(d)' => d = c
    BY <2>1 DEF Watched
  <2> QED BY <2>1, <2>2, <1>0, BadgeAssumption DEF OnWatch, From, Watched
<1>7. ASSUME NEW c \in BadgeContact, SetBlocked(c) PROVE OnWatch'
  BY <1>7, <1>0 DEF SetBlocked, OnWatch, Watched, screen
<1>8. CASE ClearUnread
  <2>1. UNCHANGED <<openRoom, onScreen, applying, unwatched>> /\ clearing' = Nowhere
    BY <1>8 DEF ClearUnread
  <2> QED BY <2>1, <1>0 DEF OnWatch, Watched, From
<1>9. CASE QuitRoom
  <2>1. UNCHANGED <<clearing, applying, unwatched>> /\ openRoom' = Nowhere /\ applying["hub"] = {} /\ clearing = Nowhere
    BY <1>9 DEF QuitRoom, HubIsFree
  <2>2. \A c \in BadgeContact : ~Watched(c)'
    BY <2>1, BadgeAssumption DEF Watched
  <2> QED BY <2>1, <2>2, <1>0 DEF OnWatch
<1>10. CASE TurnScreen
  <2>1. /\ UNCHANGED <<openRoom, clearing, applying>> /\ applying["hub"] = {} /\ clearing = Nowhere
        /\ unwatched' = IF onScreen' THEN {m \in unwatched : SenderOf[m] # openRoom} ELSE unwatched
    BY <1>10 DEF TurnScreen, HubIsFree
  <2>2. \A c \in BadgeContact : Watched(c)' => unwatched' \intersect From(c) = {}
    BY <2>1 DEF Watched, From
  <2> QED BY <2>1, <2>2, <1>0 DEF OnWatch, From
<1> QED BY <1>1, <1>2, <1>3, <1>4, <1>5, <1>6, <1>7, <1>8, <1>9, <1>10 DEF BadgeNext

\* What is due only shrinks in a step that counts nothing.
LEMMA StillCovered ==
    ASSUME BadgeShape, Covers, BadgeShape', NEW c \in BadgeContact, unread'[c] >= unread[c], Owing(c)' \subseteq Owing(c)
    PROVE  unread'[c] >= Cardinality(Owing(c)')
<1>1. Owing(c) \in SUBSET BadgeMsg
  BY DEF Owing, From
<1>2. Cardinality(Owing(c)) \in Nat /\ Cardinality(Owing(c)') \in Nat /\ Cardinality(Owing(c)') <= Cardinality(Owing(c))
  BY <1>1, Sizes
<1> QED BY <1>2 DEF Covers, BadgeShape

LEMMA CoversStep == BadgeShape /\ OnWatch /\ Covers /\ [BadgeNext]_badgeVars => Covers'
<1> SUFFICES ASSUME BadgeShape, OnWatch, Covers, [BadgeNext]_badgeVars, NEW c \in BadgeContact
             PROVE  unread'[c] >= Cardinality(Owing(c)')
  BY DEF Covers
<1>0. /\ BadgeShape' /\ "hub" \in Applier /\ "worker" \in Applier /\ \A t \in Applier : t = "hub" \/ t = "worker"
      /\ unread \in [BadgeContact -> Nat] /\ unread[c] \in Nat /\ unread'[c] \in Nat
      /\ \A t \in Applier : \A job \in applying[t] : job \in Job /\ job.msg \in BadgeMsg
      /\ applying \in [Applier -> SUBSET Job]
  BY ShapeStep DEF BadgeShape, Job, Applier
<1>00. ASSUME unread' = unread, Owing(c)' \subseteq Owing(c) PROVE unread'[c] >= Cardinality(Owing(c)')
  BY <1>00, <1>0, StillCovered
<1>1. CASE UNCHANGED badgeVars
  BY <1>1, <1>00 DEF badgeVars, screen, roster, Owing, From, CountedByWorker, CountedUpByHub
<1>2. ASSUME NEW m \in BadgeMsg, Push(m) PROVE unread'[c] >= Cardinality(Owing(c)')
  <2>1. /\ UNCHANGED <<unread, transcript>> /\ applying["worker"] = {} /\ Apply("worker", m)
        /\ unwatched' \subseteq unwatched \union {m}
        /\ m \in transcript => unwatched' = unwatched
    BY <1>2 DEF Push, roster
  <2>2. /\ applying'["hub"] = applying["hub"]
        /\ \A job \in applying'["worker"] : ~job.counted
    BY <2>1, <1>0, Began
  <2>3. Owing(c)' \subseteq Owing(c)
    BY <2>1, <2>2 DEF Owing, CountedByWorker, CountedUpByHub
  <2> QED BY <2>1, <2>3, <1>00
<1>3. ASSUME NEW m \in BadgeMsg, Poll(m) PROVE unread'[c] >= Cardinality(Owing(c)')
  <2>1. UNCHANGED <<unread, transcript, unwatched>> /\ applying["hub"] = {} /\ Apply("hub", m)
    BY <1>3 DEF Poll, HubIsFree, roster
  <2>2. /\ applying'["worker"] = applying["worker"]
        /\ \A job \in applying'["hub"] : ~job.counted
    BY <2>1, <1>0, Began
  <2>3. Owing(c)' \subseteq Owing(c)
    BY <2>1, <2>2 DEF Owing, CountedByWorker, CountedUpByHub
  <2> QED BY <2>1, <2>3, <1>00
<1>4. ASSUME NEW t \in Applier, Count(t) PROVE unread'[c] >= Cardinality(Owing(c)')
  <2>1. PICK job \in Job :
             /\ applying[t] = {job} /\ ~job.counted
             /\ applying' = [applying EXCEPT ![t] = {[msg |-> job.msg, bump |-> job.bump, counted |-> TRUE]}]
             /\ unread' = IF job.bump THEN [unread EXCEPT ![SenderOf[job.msg]] = @ + 1] ELSE unread
             /\ UNCHANGED <<transcript, unwatched>>
    BY <1>4, Counts
  <2>2. job.msg \in BadgeMsg /\ job.bump \in BOOLEAN
    BY DEF Job
  <2>3. \A s \in Applier : applying'[s] = IF s = t THEN {[msg |-> job.msg, bump |-> job.bump, counted |-> TRUE]} ELSE applying[s]
    BY <2>1, <1>0
  <2>4. CASE ~job.bump \/ SenderOf[job.msg] # c
    <3>1. unread'[c] = unread[c]
      BY <2>1, <2>4, <1>0
    <3>2. ~job.bump => job.msg \notin unwatched
      BY <2>1 DEF OnWatch
    <3>3. Owing(c)' \subseteq Owing(c)
      BY <2>1, <2>2, <2>3, <2>4, <3>2, <1>0 DEF Owing, From, CountedByWorker, CountedUpByHub
    <3> QED BY <3>1, <3>3, <1>0, StillCovered
  <2>5. CASE job.bump /\ SenderOf[job.msg] = c
    <3>1. unread'[c] = unread[c] + 1
      BY <2>1, <2>5, <1>0
    <3>2. Owing(c)' \subseteq Owing(c) \union {job.msg} /\ Owing(c) \union {job.msg} \subseteq BadgeMsg
      BY <2>1, <2>2, <2>3, <1>0 DEF Owing, From, CountedByWorker, CountedUpByHub
    <3>3. Cardinality(Owing(c) \union {job.msg}) <= Cardinality(Owing(c)) + 1 /\ Cardinality(Owing(c)) \in Nat
          /\ Cardinality(Owing(c) \union {job.msg}) \in Nat
      BY <3>2, <2>2, Sizes
    <3>4. Cardinality(Owing(c)') <= Cardinality(Owing(c) \union {job.msg}) /\ Cardinality(Owing(c)') \in Nat
      BY <3>2, Sizes
    <3>5. unread[c] >= Cardinality(Owing(c))
      BY DEF Covers
    <3> QED BY <3>1, <3>3, <3>4, <3>5, <1>0
  <2> QED BY <2>2, <2>4, <2>5
<1>5. ASSUME NEW t \in Applier, AppendRow(t) PROVE unread'[c] >= Cardinality(Owing(c)')
  <2>1. PICK job \in Job, saved \in BOOLEAN :
             /\ applying[t] = {job} /\ job.counted
             /\ applying' = [applying EXCEPT ![t] = {}]
             /\ transcript' = IF saved THEN transcript \union {job.msg} ELSE transcript
             /\ UNCHANGED <<unread, unwatched>>
    BY <1>5, Appends
  <2>2. job.msg \in BadgeMsg /\ job.bump \in BOOLEAN
    BY DEF Job
  <2>3. \A s \in Applier : applying'[s] = IF s = t THEN {} ELSE applying[s]
    BY <2>1, <1>0
  <2>4. ~job.bump => job.msg \notin unwatched
    BY <2>1 DEF OnWatch
  <2>5. CASE t = "worker"
    <3>1. job.msg \in CountedByWorker
      BY <2>1, <2>2, <2>5 DEF CountedByWorker
    <3>2. CountedByWorker' = {} /\ CountedUpByHub' = CountedUpByHub /\ transcript' \subseteq transcript \union {job.msg}
      BY <2>1, <2>3, <2>5, <1>0 DEF CountedByWorker, CountedUpByHub
    <3>3. Owing(c)' \subseteq Owing(c)
      BY <2>1, <3>1, <3>2 DEF Owing
    <3> QED BY <2>1, <3>3, <1>00
  <2>6. CASE t = "hub"
    <3>1. job.bump => job.msg \in CountedUpByHub
      BY <2>1, <2>2, <2>6 DEF CountedUpByHub
    <3>2. CountedByWorker' = CountedByWorker /\ CountedUpByHub' = {} /\ transcript' \subseteq transcript \union {job.msg}
      BY <2>1, <2>3, <2>6, <1>0 DEF CountedByWorker, CountedUpByHub
    <3>3. Owing(c)' \subseteq Owing(c)
      BY <2>1, <2>2, <2>4, <3>1, <3>2 DEF Owing
    <3> QED BY <2>1, <3>3, <1>00
  <2> QED BY <2>5, <2>6, <1>0
<1>6. ASSUME NEW d \in BadgeContact, EnterRoom(d) \/ SetBlocked(d) PROVE unread'[c] >= Cardinality(Owing(c)')
  <2>1. UNCHANGED <<unread, transcript, applying>> /\ unwatched' \subseteq unwatched
    BY <1>6 DEF EnterRoom, SetBlocked, roster
  <2>2. Owing(c)' \subseteq Owing(c)
    BY <2>1 DEF Owing, CountedByWorker, CountedUpByHub
  <2> QED BY <2>1, <2>2, <1>00
<1>7. CASE QuitRoom \/ TurnScreen
  <2>1. UNCHANGED <<unread, transcript, applying>> /\ unwatched' \subseteq unwatched
    BY <1>7 DEF QuitRoom, TurnScreen, roster
  <2>2. Owing(c)' \subseteq Owing(c)
    BY <2>1 DEF Owing, CountedByWorker, CountedUpByHub
  <2> QED BY <2>1, <2>2, <1>00
<1>8. CASE ClearUnread
  <2>1. /\ clearing # Nowhere /\ unread' = [unread EXCEPT ![clearing] = 0]
        /\ UNCHANGED <<transcript, applying, unwatched>>
    BY <1>8 DEF ClearUnread
  <2>2. Owing(c)' = Owing(c)
    BY <2>1 DEF Owing, CountedByWorker, CountedUpByHub
  <2>3. CASE c # clearing
    BY <2>1, <2>2, <2>3, <1>0, StillCovered
  <2>4. CASE c = clearing
    <3>1. Owing(c) = {}
      BY <2>1, <2>4 DEF OnWatch, Owing, CountedUpByHub
    <3>2. Cardinality(Owing(c)') = 0
      BY <2>2, <3>1, FS_EmptySet
    <3> QED BY <3>2, <1>0
  <2> QED BY <2>3, <2>4
<1> QED BY <1>1, <1>2, <1>3, <1>4, <1>5, <1>6, <1>7, <1>8 DEF BadgeNext

LEMMA PaidStep == BadgeShape /\ PaidFor /\ [BadgeNext]_badgeVars => PaidFor'
<1> SUFFICES ASSUME BadgeShape, PaidFor, [BadgeNext]_badgeVars, NEW c \in BadgeContact
             PROVE  unread'[c] + Cardinality(Again(c)') + Retrying(c)' + Late(c)'
                       <= Cardinality((transcript \intersect From(c))') + 2 * badgeFailures' + Counting(c)'
  BY DEF PaidFor
<1> DEFINE rows == transcript \intersect From(c)
<1>0. /\ BadgeShape' /\ "hub" \in Applier /\ "worker" \in Applier /\ \A t \in Applier : t = "hub" \/ t = "worker"
      /\ unread \in [BadgeContact -> Nat] /\ unread[c] \in Nat /\ unread'[c] \in Nat
      /\ applying \in [Applier -> SUBSET Job] /\ badgeFailures \in Nat
      /\ transcript \subseteq BadgeMsg /\ replays \subseteq BadgeMsg
  BY ShapeStep DEF BadgeShape, Job, Applier
<1>n. /\ Cardinality(rows) \in Nat /\ Cardinality(rows') \in Nat /\ badgeFailures' \in Nat
      /\ Cardinality(Again(c)) \in Nat /\ Cardinality(Again(c)') \in Nat
      /\ Retrying(c) \in {0, 1} /\ Late(c) \in {0, 1} /\ Counting(c) \in {0, 1}
      /\ Retrying(c)' \in {0, 1} /\ Late(c)' \in {0, 1} /\ Counting(c)' \in {0, 1}
  <2>1. rows \in SUBSET BadgeMsg /\ rows' \in SUBSET BadgeMsg /\ Again(c) \in SUBSET BadgeMsg /\ Again(c)' \in SUBSET BadgeMsg
    BY <1>0 DEF BadgeShape, Again
  <2>2. Cardinality(rows) \in Nat /\ Cardinality(rows') \in Nat /\ Cardinality(Again(c)) \in Nat /\ Cardinality(Again(c)') \in Nat
    BY <2>1, Sizes
  <2>3. /\ Retrying(c) \in {0, 1} /\ Late(c) \in {0, 1} /\ Counting(c) \in {0, 1}
        /\ Retrying(c)' \in {0, 1} /\ Late(c)' \in {0, 1} /\ Counting(c)' \in {0, 1}
    BY DEF Retrying, Late, Counting
  <2> QED BY <2>2, <2>3, <1>0 DEF BadgeShape
<1>p. unread[c] + Cardinality(Again(c)) + Retrying(c) + Late(c) <= Cardinality(rows) + 2 * badgeFailures + Counting(c)
  BY DEF PaidFor
<1> DEFINE Goal == unread'[c] + Cardinality(Again(c)') + Retrying(c)' + Late(c)' <= Cardinality(rows') + 2 * badgeFailures' + Counting(c)'
<1>q. Goal => unread'[c] + Cardinality(Again(c)') + Retrying(c)' + Late(c)'
                       <= Cardinality((transcript \intersect From(c))') + 2 * badgeFailures' + Counting(c)'
  OBVIOUS
<1> HIDE DEF rows, Goal
\* A step that neither takes up, counts nor appends a message.
<1>00. ASSUME UNCHANGED <<applying, transcript, replays, badgeFailures>>, unread'[c] <= unread[c] PROVE Goal
  <2>1. /\ rows' = rows /\ Again(c)' = Again(c) /\ Retrying(c)' = Retrying(c) /\ Late(c)' = Late(c) /\ Counting(c)' = Counting(c)
    BY <1>00 DEF rows, Again, Retrying, Late, Counting
  <2> QED BY <2>1, <1>00, <1>p, <1>n, <1>0 DEF Goal
<1>1. ASSUME UNCHANGED badgeVars PROVE Goal
  BY <1>1, <1>00, <1>0 DEF badgeVars, screen, roster
<1>2. ASSUME NEW m \in BadgeMsg, Push(m) PROVE Goal
  <2>1. /\ UNCHANGED <<unread, transcript, replays, badgeFailures>> /\ applying["worker"] = {} /\ Apply("worker", m)
    BY <1>2 DEF Push, roster
  <2>2. /\ applying'["hub"] = applying["hub"]
        /\ \A job \in applying'["worker"] : ~job.counted /\ job.msg \notin transcript
    BY <2>1, <1>0, Began
  <2>3. rows' = rows /\ Again(c)' = Again(c) /\ Retrying(c)' = Retrying(c)
    BY <2>1, <2>2 DEF rows, Again, Retrying
  <2>4. Late(c)' = 0 /\ Late(c) = 0 /\ Counting(c)' = 0 /\ Counting(c) = 0
    BY <2>1, <2>2 DEF Late, Counting
  <2> QED BY <2>1, <2>3, <2>4, <1>p, <1>n, <1>0 DEF Goal
<1>3. ASSUME NEW m \in BadgeMsg, Poll(m) PROVE Goal
  <2>1. /\ UNCHANGED <<unread, transcript, badgeFailures>> /\ applying["hub"] = {} /\ Apply("hub", m)
        /\ replays' = replays \ {m} /\ m \in replays
    BY <1>3 DEF Poll, HubIsFree, roster
  <2>2. /\ applying'["worker"] = applying["worker"]
        /\ \A job \in applying'["hub"] : job.msg = m /\ m \notin transcript
    BY <2>1, <1>0, Began
  <2>3. rows' = rows /\ Late(c)' = Late(c) /\ Counting(c)' = Counting(c) /\ Retrying(c) = 0
    BY <2>1, <2>2 DEF rows, Late, Counting, Retrying
  <2>4. Again(c)' = Again(c) \ {m} /\ Again(c) \in SUBSET BadgeMsg
    BY <2>1, <1>0 DEF Again
  <2>5. Cardinality(Again(c)') = IF m \in Again(c) THEN Cardinality(Again(c)) - 1 ELSE Cardinality(Again(c))
    BY <2>4, Sizes
  <2>6. Retrying(c)' = 1 => m \in Again(c)
    BY <2>1, <2>2 DEF Retrying, Again, From
  <2> QED BY <2>1, <2>3, <2>5, <2>6, <1>p, <1>n, <1>0 DEF Goal
<1>4. ASSUME NEW t \in Applier, Count(t) PROVE Goal
  <2>1. PICK job \in Job :
             /\ applying[t] = {job} /\ ~job.counted
             /\ applying' = [applying EXCEPT ![t] = {[msg |-> job.msg, bump |-> job.bump, counted |-> TRUE]}]
             /\ unread' = IF job.bump THEN [unread EXCEPT ![SenderOf[job.msg]] = @ + 1] ELSE unread
             /\ UNCHANGED <<transcript, replays, badgeFailures>>
    BY <1>4, Counts
  <2>2. \A s \in Applier : applying'[s] = IF s = t THEN {[msg |-> job.msg, bump |-> job.bump, counted |-> TRUE]} ELSE applying[s]
    BY <2>1, <1>0
  <2>3. unread'[c] <= IF SenderOf[job.msg] = c THEN unread[c] + 1 ELSE unread[c]
    BY <2>1, <1>0
  <2>4. rows' = rows /\ Again(c)' = Again(c)
    BY <2>1 DEF rows, Again
  <2>5. CASE t = "worker"
    <3>0. /\ applying["worker"] = {job} /\ applying'["hub"] = applying["hub"]
          /\ applying'["worker"] = {[msg |-> job.msg, bump |-> job.bump, counted |-> TRUE]}
      BY <2>1, <2>2, <2>5, <1>0
    <3> DEFINE done == [msg |-> job.msg, bump |-> job.bump, counted |-> TRUE]
    <3>d. /\ done.msg = job.msg /\ done.counted
          /\ \A k : k \in applying'["worker"] <=> k = done
      BY <3>0
    <3> HIDE DEF done
    <3>1. Counting(c) = 0 /\ Counting(c)' = IF SenderOf[job.msg] = c THEN 1 ELSE 0
      BY <2>1, <3>0, <3>d DEF Counting
    <3>2. Retrying(c)' = Retrying(c) /\ Late(c)' = Late(c)
      BY <2>1, <3>0, <3>d DEF Retrying, Late
    <3> QED BY <2>1, <2>3, <2>4, <3>1, <3>2, <1>p, <1>n, <1>0 DEF Goal
  <2>6. CASE t = "hub"
    <3>0. /\ applying["hub"] = {job} /\ applying'["worker"] = applying["worker"]
          /\ applying'["hub"] = {[msg |-> job.msg, bump |-> job.bump, counted |-> TRUE]}
      BY <2>1, <2>2, <2>6, <1>0
    <3>1. Retrying(c)' = 0 /\ Retrying(c) = IF SenderOf[job.msg] = c THEN 1 ELSE 0
      BY <2>1, <3>0 DEF Retrying
    <3>2. Counting(c)' = Counting(c) /\ Late(c)' = Late(c)
      BY <2>1, <3>0 DEF Counting, Late
    <3> QED BY <2>1, <2>3, <2>4, <3>1, <3>2, <1>p, <1>n, <1>0 DEF Goal
  <2> QED BY <2>5, <2>6, <1>0
<1>5. ASSUME NEW t \in Applier, AppendRow(t) PROVE Goal
  <2>1. PICK job \in Job, saved \in BOOLEAN :
             /\ applying[t] = {job} /\ job.counted
             /\ applying' = [applying EXCEPT ![t] = {}]
             /\ transcript' = IF saved THEN transcript \union {job.msg} ELSE transcript
             /\ badgeFailures' = IF saved THEN badgeFailures ELSE badgeFailures + 1
             /\ replays' = IF t = "worker" THEN replays \union {job.msg} ELSE replays
             /\ UNCHANGED <<unread>>
    BY <1>5, Appends
  <2>2. job.msg \in BadgeMsg
    BY DEF Job
  <2>3. \A s \in Applier : applying'[s] = IF s = t THEN {} ELSE applying[s]
    BY <2>1, <1>0
  <2> DEFINE mine == SenderOf[job.msg] = c
  <2> DEFINE new == mine /\ job.msg \notin transcript
  <2>4. Again(c) \in SUBSET BadgeMsg /\ rows \in SUBSET BadgeMsg
    BY <1>0 DEF Again, rows
  <2>5. Cardinality(rows') = IF saved /\ new THEN Cardinality(rows) + 1 ELSE Cardinality(rows)
    <3>1. rows' = IF saved /\ new THEN rows \union {job.msg} ELSE rows
      BY <2>1, <2>2 DEF rows, From
    <3>2. new => job.msg \notin rows
      BY DEF rows
    <3> QED BY <2>2, <2>4, <3>1, <3>2, Sizes
  <2>6. Cardinality(Again(c)') <= IF ~saved /\ new /\ t = "worker" THEN Cardinality(Again(c)) + 1 ELSE Cardinality(Again(c))
    <3>1. Again(c)' \subseteq IF ~saved /\ new /\ t = "worker" THEN Again(c) \union {job.msg} ELSE Again(c)
      BY <2>1, <2>2 DEF Again, From
    <3>2. Again(c) \union {job.msg} \in SUBSET BadgeMsg /\ Cardinality(Again(c) \union {job.msg}) <= Cardinality(Again(c)) + 1
          /\ Cardinality(Again(c) \union {job.msg}) \in Nat
      BY <2>2, <2>4, Sizes, <1>n
    <3>3. CASE ~saved /\ new /\ t = "worker"
      <4>1. Cardinality(Again(c)') <= Cardinality(Again(c) \union {job.msg})
        BY <3>1, <3>2, <3>3, Sizes
      <4> QED BY <4>1, <3>2, <3>3, <1>n
    <3>4. CASE ~(~saved /\ new /\ t = "worker")
      <4>1. Again(c)' \subseteq Again(c)
        BY <3>1, <3>4
      <4>2. Cardinality(Again(c)') <= Cardinality(Again(c))
        BY <4>1, <2>4, Sizes
      <4> QED BY <4>2, <3>4
    <3> QED BY <3>3, <3>4
  <2>7. CASE t = "worker"
    <3>1. Retrying(c)' = Retrying(c) /\ Counting(c)' = 0 /\ Late(c)' = 0
      BY <2>3, <2>7, <1>0 DEF Retrying, Counting, Late
    <3>2. /\ Counting(c) = IF mine THEN 1 ELSE 0
          /\ Late(c) = IF mine /\ ~new THEN 1 ELSE 0
      BY <2>1, <2>7 DEF Counting, Late
    <3> HIDE DEF mine, new
    <3>3. new => mine
      BY DEF new, mine
    <3> QED BY <2>1, <2>5, <2>6, <2>7, <3>1, <3>2, <3>3, <1>p, <1>n, <1>0 DEF Goal
  <2>8. CASE t = "hub"
    <3>1. Retrying(c)' = 0 /\ Retrying(c) = 0 /\ Counting(c)' = Counting(c)
      BY <2>1, <2>3, <2>8, <1>0 DEF Retrying, Counting
    <3>2. Late(c)' <= IF saved /\ new THEN 1 ELSE Late(c)
      BY <2>1, <2>3, <2>8, <1>0 DEF Late
    <3> HIDE DEF mine, new
    <3> QED BY <2>1, <2>5, <2>6, <2>8, <3>1, <3>2, <1>p, <1>n, <1>0 DEF Goal
  <2> QED BY <2>7, <2>8, <1>0
<1>6. ASSUME NEW d \in BadgeContact, EnterRoom(d) \/ SetBlocked(d) PROVE Goal
  <2>1. UNCHANGED <<applying, transcript, replays, badgeFailures, unread>>
    BY <1>6 DEF EnterRoom, SetBlocked, roster
  <2> QED BY <2>1, <1>00, <1>0
<1>7. ASSUME QuitRoom \/ TurnScreen PROVE Goal
  <2>1. UNCHANGED <<applying, transcript, replays, badgeFailures, unread>>
    BY <1>7 DEF QuitRoom, TurnScreen, roster
  <2> QED BY <2>1, <1>00, <1>0
<1>8. ASSUME ClearUnread PROVE Goal
  <2>1. UNCHANGED <<applying, transcript, replays, badgeFailures>> /\ unread'[c] <= unread[c]
    BY <1>8, <1>0 DEF ClearUnread
  <2> QED BY <2>1, <1>00
<1>9. Goal
  BY <1>1, <1>2, <1>3, <1>4, <1>5, <1>6, <1>7, <1>8 DEF BadgeNext
<1> QED BY <1>9, <1>q

LEMMA BadgeStarts == BadgeInit => BadgeShape /\ OnWatch /\ Covers /\ PaidFor
<1> SUFFICES ASSUME BadgeInit PROVE BadgeShape /\ OnWatch /\ Covers /\ PaidFor
  OBVIOUS
<1>1. /\ \A t \in Applier : applying[t] = {}
      /\ transcript = {} /\ replays = {} /\ unwatched = {} /\ badgeFailures = 0 /\ clearing = Nowhere
      /\ applying["worker"] = {} /\ applying["hub"] = {}
      /\ \A c \in BadgeContact : unread[c] = 0
  BY DEF BadgeInit, Applier
<1>2. BadgeShape
  BY <1>1 DEF BadgeInit, BadgeShape
<1>3. OnWatch
  BY <1>1 DEF OnWatch
<1>4. \A c : Owing(c) = {} /\ Again(c) = {} /\ transcript \intersect From(c) = {}
  BY <1>1 DEF Owing, Again, CountedUpByHub
<1>5. \A c : Late(c) = 0 /\ Retrying(c) = 0 /\ Counting(c) = 0
  BY <1>1 DEF Late, Retrying, Counting
<1>6. Covers
  BY <1>1, <1>4, FS_EmptySet DEF Covers
<1>7. PaidFor
  BY <1>1, <1>4, <1>5, FS_EmptySet DEF PaidFor
<1> QED BY <1>2, <1>3, <1>6, <1>7

LEMMA BadgeFollows == BadgeShape /\ Covers /\ PaidFor => BadgeCoversUnseen
<1> SUFFICES ASSUME BadgeShape, Covers, PaidFor, NEW c \in BadgeContact
             PROVE  LET busy == {job \in applying["worker"] \union applying["hub"] :
                                    job.counted /\ SenderOf[job.msg] = c}
                    IN  /\ ~Watched(c) => unread[c] >= Cardinality(unwatched \intersect transcript \intersect From(c))
                        /\ unread[c] <= Cardinality(transcript \intersect From(c)) + Cardinality(busy) + 2 * badgeFailures
  BY DEF BadgeCoversUnseen
<1> DEFINE busy == {job \in applying["worker"] \union applying["hub"] : job.counted /\ SenderOf[job.msg] = c}
<1>1. unread[c] \in Nat /\ badgeFailures \in Nat /\ applying["worker"] \subseteq Job /\ applying["hub"] \subseteq Job
  BY DEF BadgeShape, Applier
<1>2. unread[c] >= Cardinality(unwatched \intersect transcript \intersect From(c))
  <2>1. Owing(c) \in SUBSET BadgeMsg /\ unwatched \intersect transcript \intersect From(c) \in SUBSET Owing(c)
    BY DEF Owing, From
  <2>2. Cardinality(unwatched \intersect transcript \intersect From(c)) <= Cardinality(Owing(c))
        /\ Cardinality(Owing(c)) \in Nat /\ Cardinality(unwatched \intersect transcript \intersect From(c)) \in Nat
    BY <2>1, Sizes
  <2> QED BY <2>2, <1>1 DEF Covers
<1>3. IsFiniteSet(busy) /\ Cardinality(busy) \in Nat /\ (busy # {} => Cardinality(busy) >= 1)
  <2>1. IsFiniteSet(applying["worker"]) /\ IsFiniteSet(applying["hub"])
    <3>1. \A t \in Applier : applying[t] = {} \/ \E job : applying[t] = {job}
      BY DEF BadgeShape
    <3>2. \A t \in Applier : IsFiniteSet(applying[t])
      BY <3>1, FS_Singleton, FS_EmptySet
    <3> QED BY <3>2 DEF Applier
  <2>2. IsFiniteSet(applying["worker"] \union applying["hub"])
    BY <2>1, FS_Union
  <2>3. IsFiniteSet(busy)
    BY <2>2, FS_Subset
  <2> QED BY <2>3, FS_CardinalityType, FS_EmptySet
<1>4. Counting(c) = 1 => busy # {}
  BY DEF Counting
<1>5. /\ Cardinality(transcript \intersect From(c)) \in Nat /\ Cardinality(Again(c)) \in Nat
  <2>1. transcript \intersect From(c) \in SUBSET BadgeMsg /\ Again(c) \in SUBSET BadgeMsg
    BY DEF BadgeShape, Again
  <2> QED BY <2>1, Sizes
<1>6. Retrying(c) \in {0, 1} /\ Late(c) \in {0, 1} /\ Counting(c) \in {0, 1}
  BY DEF Retrying, Late, Counting
<1>7. unread[c] <= Cardinality(transcript \intersect From(c)) + Cardinality(busy) + 2 * badgeFailures
  <2>1. unread[c] + Cardinality(Again(c)) + Retrying(c) + Late(c)
            <= Cardinality(transcript \intersect From(c)) + 2 * badgeFailures + Counting(c)
    BY DEF PaidFor
  <2>2. Counting(c) <= Cardinality(busy)
    BY <1>3, <1>4, <1>6
  <2> HIDE DEF busy
  <2> QED BY <2>1, <2>2, <1>1, <1>3, <1>5, <1>6
<1> QED BY <1>2, <1>7

(* Every state of the counts has its type, and neither the worker nor the    *)
(* hub applies two messages at once (dm_event_handler.rs).                   *)
THEOREM BadgeTypeCorrect == BadgeSpec => []BadgeTypeOK
<1>1. BadgeInit => BadgeShape /\ BadgeTypes
  BY BadgeStarts, BadgeAssumption DEF BadgeInit, BadgeTypes
<1>2. BadgeShape /\ BadgeTypes => BadgeTypeOK
  <2> SUFFICES ASSUME BadgeShape, BadgeTypes PROVE BadgeTypeOK
    OBVIOUS
  <2>1. ASSUME NEW t \in Applier PROVE applying[t] \subseteq Job /\ Cardinality(applying[t]) <= 1
    <3>1. applying[t] = {} \/ \E job \in Job : applying[t] = {job}
      BY DEF BadgeShape
    <3> QED BY <3>1, FS_EmptySet, FS_Singleton
  <2> QED BY <2>1 DEF BadgeShape, BadgeTypes, BadgeTypeOK
<1> QED BY <1>1, <1>2, ShapeStep, TypesStep, PTL DEF BadgeSpec

(* However the worker and the hub interleave, the badge of a contact covers  *)
(* what came while its room was closed, and counts nothing twice but for     *)
(* what a failed write of the transcript repeats (dm_event_handler.rs).      *)
THEOREM BadgeIsTrue == BadgeSpec => []BadgeCoversUnseen
<1>1. BadgeShape /\ OnWatch /\ Covers /\ PaidFor /\ [BadgeNext]_badgeVars
        => BadgeShape' /\ OnWatch' /\ Covers' /\ PaidFor'
  BY ShapeStep, WatchStep, CoversStep, PaidStep
<1> QED BY <1>1, BadgeStarts, BadgeFollows, PTL DEF BadgeSpec

(***************************************************************************)
(* The hub's screens (HubNavigation).  Shaped is the type, Told the room;  *)
(* every method gives a shaped state, and those that set the screen or the *)
(* tab give a told one, wherever they start.                               *)
(***************************************************************************)

Pages == Page \union {"", "backup"}

(* App, as HubTypeOK sees it, but for the bounds of its history.           *)
AppState ==
    [session : BOOLEAN, locked : BOOLEAN, needsBackup : BOOLEAN, exists : BOOLEAN,
     tab : Tabs, showRoom : BOOLEAN, peer : MaybePeer, page : Pages, split : BOOLEAN,
     selected : MaybePeer, tapped : BOOLEAN, screen : {"identity", "hub", "sheet", "call"},
     hist : Seq(Entry), idx : Nat, suppress : BOOLEAN, callOpen : BOOLEAN,
     room : MaybePeer, call : {"none", "ringing", "busy"}]

Bounded(hist, idx) ==
    Len(hist) <= MaxHistory /\ idx \in 1..(IF hist = <<>> THEN 1 ELSE Len(hist))

Shaped(s) == s \in AppState /\ Bounded(s.hist, s.idx)

(* The room on the screen is the one the core was told.                    *)
Told(s) == s.session /\ s.screen = "hub" /\ s.tab = "chats" /\ InRoom(s) => s.room = s.peer

(* Only the history is another.                                            *)
SameButHistory(s, t) ==
    /\ t.session = s.session /\ t.locked = s.locked /\ t.needsBackup = s.needsBackup
    /\ t.exists = s.exists /\ t.tab = s.tab /\ t.showRoom = s.showRoom /\ t.peer = s.peer
    /\ t.page = s.page /\ t.split = s.split /\ t.selected = s.selected /\ t.tapped = s.tapped
    /\ t.screen = s.screen /\ t.suppress = s.suppress /\ t.callOpen = s.callOpen
    /\ t.room = s.room /\ t.call = s.call

LEMMA SnapshotIsEntry == \A s \in AppState : Snapshot(s) \in Entry
  BY DEF Snapshot, AppState, Entry, Pages

LEMMA HistoryChanges ==
    ASSUME NEW s \in AppState, NEW h \in Seq(Entry), NEW i \in Nat, Bounded(h, i),
           NEW t, t = [s EXCEPT !.hist = h, !.idx = i]
    PROVE  Shaped(t) /\ SameButHistory(s, t)
<1>1. t \in AppState
  BY DEF AppState
<1>2. t.hist = h /\ t.idx = i
  BY DEF AppState
<1> QED BY <1>1, <1>2 DEF Shaped, SameButHistory, AppState

LEMMA HistoryOnlyChanges ==
    ASSUME NEW s \in AppState, NEW h \in Seq(Entry), Bounded(h, s.idx),
           NEW t, t = [s EXCEPT !.hist = h]
    PROVE  Shaped(t) /\ SameButHistory(s, t)
<1>1. t \in AppState
  BY DEF AppState
<1>2. t.hist = h /\ t.idx = s.idx
  BY DEF AppState
<1> QED BY <1>1, <1>2 DEF Shaped, SameButHistory, AppState

LEMMA EntryGone ==
    ASSUME NEW h \in Seq(Entry), NEW i \in Nat, i > 1, i <= Len(h)
    PROVE  RemoveAt(h, i) \in Seq(Entry) /\ Len(RemoveAt(h, i)) = Len(h) - 1
<1>1. RemoveAt(h, i) = SubSeq(h, 1, i - 1) \o SubSeq(h, i + 1, Len(h))
  BY DEF RemoveAt
<1>2. SubSeq(h, 1, i - 1) \in Seq(Entry) /\ Len(SubSeq(h, 1, i - 1)) = i - 1
  OBVIOUS
<1>3. SubSeq(h, i + 1, Len(h)) \in Seq(Entry) /\ Len(SubSeq(h, i + 1, Len(h))) = Len(h) - i
  <2>1. i + 1 \in 1..Len(h) + 1 /\ Len(h) \in i..Len(h)
    OBVIOUS
  <2>2. CASE i = Len(h)
    BY <2>1, <2>2, SubSeqProperties
  <2>3. CASE i < Len(h)
    BY <2>3
  <2> QED BY <2>2, <2>3
<1>4. \A u, v \in Seq(Entry) : u \o v \in Seq(Entry) /\ Len(u \o v) = Len(u) + Len(v)
  OBVIOUS
<1>5. RemoveAt(h, i) \in Seq(Entry) /\ Len(RemoveAt(h, i)) = (i - 1) + (Len(h) - i)
  BY <1>1, <1>2, <1>3, <1>4
<1> QED BY <1>5

\* What Shaped says, in the form the provers use.
LEMMA Shape ==
    ASSUME NEW s, Shaped(s)
    PROVE  /\ s \in AppState /\ s.hist \in Seq(Entry) /\ s.idx \in Nat /\ Len(s.hist) <= MaxHistory
           /\ s.hist = <<>> => s.idx = 1
           /\ s.hist # <<>> => s.idx >= 1 /\ s.idx <= Len(s.hist)
           /\ Snapshot(s) \in Entry /\ MaxHistory \in Nat /\ MaxHistory > 1
<1>1. s \in AppState /\ Len(s.hist) <= MaxHistory /\ s.idx \in 1..(IF s.hist = <<>> THEN 1 ELSE Len(s.hist))
  BY DEF Shaped, Bounded
<1>2. s.hist \in Seq(Entry) /\ s.idx \in Nat
  BY <1>1 DEF AppState
<1>3. Snapshot(s) \in Entry
  BY <1>1, SnapshotIsEntry
<1>4. s.hist = <<>> => s.idx \in 1..1
  BY <1>1
<1>5. s.hist # <<>> => s.idx \in 1..Len(s.hist)
  BY <1>1
<1> QED BY <1>1, <1>2, <1>3, <1>4, <1>5, HubAssumption

\* A history with one entry.
LEMMA OneEntry ==
    ASSUME NEW s, Shaped(s), s.hist = <<>>
    PROVE  /\ Shaped([s EXCEPT !.hist = <<Snapshot(s)>>])
           /\ SameButHistory(s, [s EXCEPT !.hist = <<Snapshot(s)>>])
<1> DEFINE one == <<Snapshot(s)>>
<1>1. one \in Seq(Entry) /\ Len(one) = 1 /\ one # <<>>
  BY Shape
<1>2. Bounded(one, s.idx)
  <2> HIDE DEF one
  <2> QED BY Shape, <1>1 DEF Bounded
<1> HIDE DEF one
<1>3. Shaped([s EXCEPT !.hist = one]) /\ SameButHistory(s, [s EXCEPT !.hist = one])
  BY Shape, <1>1, <1>2, HistoryOnlyChanges
<1> QED BY <1>3 DEF one

LEMMA TopReplaced ==
    ASSUME NEW s, Shaped(s)
    PROVE  Shaped(ReplaceTop(s)) /\ SameButHistory(s, ReplaceTop(s))
<1>1. CASE s.hist = <<>>
  BY <1>1, OneEntry DEF ReplaceTop
<1>2. CASE s.hist # <<>>
  <2> DEFINE written == [s.hist EXCEPT ![s.idx] = Snapshot(s)]
  <2>1. written \in Seq(Entry) /\ Len(written) = Len(s.hist)
    BY Shape, <1>2
  <2>2. written # <<>>
    <3> HIDE DEF written
    <3> QED BY Shape, <1>2, <2>1
  <2> HIDE DEF written
  <2>3. Bounded(written, s.idx)
    BY Shape, <1>2, <2>1, <2>2 DEF Bounded
  <2>4. CASE s.idx > 1 /\ written[s.idx - 1] = Snapshot(s)
    <3>1. RemoveAt(written, s.idx) \in Seq(Entry) /\ Len(RemoveAt(written, s.idx)) = Len(s.hist) - 1
      BY Shape, <1>2, <2>1, <2>4, EntryGone
    <3>2. RemoveAt(written, s.idx) # <<>>
      BY Shape, <1>2, <2>1, <2>4, <3>1
    <3>3. Bounded(RemoveAt(written, s.idx), s.idx - 1) /\ s.idx - 1 \in Nat
      BY Shape, <1>2, <2>1, <2>4, <3>1, <3>2 DEF Bounded
    <3>4. ReplaceTop(s) = [s EXCEPT !.hist = RemoveAt(written, s.idx), !.idx = s.idx - 1]
      BY <1>2, <2>4, Shape DEF ReplaceTop, written, AppState
    <3> QED BY Shape, <3>1, <3>3, <3>4, HistoryChanges
  <2>5. CASE ~(s.idx > 1 /\ written[s.idx - 1] = Snapshot(s))
    <3>1. ReplaceTop(s) = [s EXCEPT !.hist = written]
      BY <1>2, <2>5 DEF ReplaceTop, written
    <3> QED BY Shape, <2>1, <2>3, <3>1, HistoryOnlyChanges
  <2> QED BY <2>4, <2>5
<1> QED BY <1>1, <1>2

LEMMA Pinned ==
    ASSUME NEW s, Shaped(s)
    PROVE  Shaped(Pin(s)) /\ SameButHistory(s, Pin(s))
  BY TopReplaced DEF Pin, SameButHistory

LEMMA Recorded ==
    ASSUME NEW s, Shaped(s)
    PROVE  Shaped(Record(s)) /\ SameButHistory(s, Record(s))
<1> DEFINE pushed == Append(SubSeq(s.hist, 1, s.idx), Snapshot(s))
           kept   == IF Len(pushed) > MaxHistory THEN Tail(pushed) ELSE pushed
<1>1. CASE Record(s) = s
  BY <1>1 DEF SameButHistory
<1>2. CASE s.hist = <<>> /\ Record(s) = [s EXCEPT !.hist = <<Snapshot(s)>>]
  BY <1>2, OneEntry
<1>3. CASE s.hist # <<>> /\ Record(s) = [s EXCEPT !.hist = kept, !.idx = Len(kept)]
  <2>1. SubSeq(s.hist, 1, s.idx) \in Seq(Entry) /\ Len(SubSeq(s.hist, 1, s.idx)) = s.idx
    BY Shape, <1>3
  <2>2. pushed \in Seq(Entry) /\ Len(pushed) = s.idx + 1
    BY Shape, <2>1
  <2>3. Tail(pushed) \in Seq(Entry) /\ Len(Tail(pushed)) = s.idx
    <3> HIDE DEF pushed
    <3>1. pushed # <<>>
      BY Shape, <2>2
    <3> QED BY Shape, <2>2, <3>1
  <2>4. kept \in Seq(Entry) /\ Len(kept) \in Nat /\ Len(kept) >= 1 /\ Len(kept) <= MaxHistory
    <3> HIDE DEF pushed
    <3> QED BY Shape, <1>3, <2>2, <2>3
  <2> HIDE DEF kept
  <2>5. kept # <<>>
    BY <2>4
  <2>6. Bounded(kept, Len(kept))
    BY Shape, <2>4, <2>5 DEF Bounded
  <2> QED BY Shape, <1>3, <2>4, <2>6, HistoryChanges
<1>4. \/ Record(s) = s
      \/ s.hist = <<>> /\ Record(s) = [s EXCEPT !.hist = <<Snapshot(s)>>]
      \/ s.hist # <<>> /\ Record(s) = [s EXCEPT !.hist = kept, !.idx = Len(kept)]
  BY DEF Record
<1> QED BY <1>1, <1>2, <1>3, <1>4


(* The methods that others call.                                           *)

\* Nothing of the history changes.
LEMMA StillShaped ==
    ASSUME NEW s, Shaped(s), NEW t \in AppState, t.hist = s.hist, t.idx = s.idx
    PROVE  Shaped(t)
  BY DEF Shaped

LEMMA StillTold ==
    ASSUME NEW s, NEW t, SameButHistory(s, t)
    PROVE  Told(t) <=> Told(s)
  BY DEF SameButHistory, Told, InRoom

LEMMA TabSet ==
    ASSUME NEW s, Shaped(s), NEW tab \in Tabs
    PROVE  LET t == SetTab(s, tab) IN
           /\ Shaped(t) /\ Told(t)
           /\ t.tab = tab /\ t.peer = s.peer /\ t.split = s.split
           /\ t.session = s.session /\ t.screen = s.screen /\ t.suppress = s.suppress
<1> DEFINE base   == IF s.tab # tab THEN Pin(s) ELSE s
           turned == [base EXCEPT !.tab = tab]
           told   == IF tab # "chats"
                     THEN [turned EXCEPT !.showRoom = FALSE, !.room = IF s.split THEN @ ELSE NoPeer]
                     ELSE [turned EXCEPT !.room = IF InRoom(turned) THEN turned.peer ELSE @]
<1>1. Shaped(base) /\ SameButHistory(s, base)
  BY Pinned DEF SameButHistory
<1>2. base \in AppState
  BY <1>1 DEF Shaped
<1> HIDE DEF base
<1>3. /\ turned \in AppState /\ turned.hist = base.hist /\ turned.idx = base.idx
      /\ turned.tab = tab /\ turned.peer = base.peer /\ turned.split = base.split
      /\ turned.session = base.session /\ turned.screen = base.screen /\ turned.suppress = base.suppress
      /\ turned.showRoom = base.showRoom
  BY <1>2 DEF AppState
<1> HIDE DEF turned
<1>4. /\ told \in AppState /\ told.hist = base.hist /\ told.idx = base.idx
      /\ told.tab = tab /\ told.peer = base.peer /\ told.split = base.split
      /\ told.session = base.session /\ told.screen = base.screen /\ told.suppress = base.suppress
  <2>1. CASE tab # "chats"
    BY <1>3, <2>1 DEF AppState, MaybePeer
  <2>2. CASE tab = "chats"
    <3>1. turned.peer \in MaybePeer
      BY <1>3 DEF AppState
    <3> QED BY <1>3, <2>2, <3>1 DEF AppState
  <2> QED BY <2>1, <2>2
<1>5. Told(told)
  <2>1. CASE tab # "chats"
    BY <1>4, <2>1 DEF Told
  <2>2. CASE tab = "chats"
    <3>1. told.showRoom = turned.showRoom /\ (InRoom(turned) => told.room = turned.peer)
      BY <1>3, <2>2 DEF AppState
    <3>2. InRoom(told) <=> InRoom(turned)
      BY <1>3, <1>4, <3>1 DEF InRoom
    <3> QED BY <1>3, <1>4, <3>1, <3>2 DEF Told
  <2> QED BY <2>1, <2>2
<1>6. Shaped(told)
  BY <1>1, <1>4, StillShaped
<1> HIDE DEF told
<1>7. Shaped(Record(told)) /\ SameButHistory(told, Record(told))
  BY <1>6, Recorded
<1>8. SetTab(s, tab) = IF s.tab # tab THEN Record(told) ELSE told
  BY DEF SetTab, told, turned, base
<1>9. Told(Record(told))
  BY <1>5, <1>7, StillTold
<1> QED BY <1>1, <1>4, <1>5, <1>6, <1>7, <1>8, <1>9 DEF SameButHistory

LEMMA ScreenSet ==
    ASSUME NEW s, Shaped(s), NEW place \in {"identity", "hub", "sheet", "call"}
    PROVE  LET t == SetScreen(s, place) IN
           /\ Shaped(t) /\ Told(t)
           /\ t.session = s.session /\ t.screen = place /\ t.suppress = s.suppress
<1> DEFINE shown == [s EXCEPT !.screen = place]
<1>1. s \in AppState
  BY DEF Shaped
<1>2. /\ shown \in AppState /\ shown.hist = s.hist /\ shown.idx = s.idx /\ shown.screen = place
      /\ shown.session = s.session /\ shown.suppress = s.suppress /\ shown.tab = s.tab /\ s.tab \in Tabs
  BY <1>1 DEF AppState
<1>3. SetScreen(s, place) = IF place = "hub" THEN SetTab(shown, shown.tab) ELSE shown
  BY DEF SetScreen
<1> HIDE DEF shown
<1>4. Shaped(shown)
  BY <1>2, StillShaped
<1>5. CASE place = "hub"
  BY <1>2, <1>3, <1>4, <1>5, TabSet
<1>6. CASE place # "hub"
  BY <1>2, <1>3, <1>4, <1>6 DEF Told
<1> QED BY <1>5, <1>6

\* What every method keeps.
Kept(s, t) == Shaped(t) /\ t.suppress = s.suppress

LEMMA HubShown ==
    ASSUME NEW s, Shaped(s)
    PROVE  Kept(s, ShowHub(s)) /\ Told(ShowHub(s))
<1> DEFINE home == [s EXCEPT !.tab = "chats", !.showRoom = FALSE]
           one  == <<Snapshot(home)>>
           t    == [home EXCEPT !.hist = one, !.idx = 1]
<1>1. s \in AppState
  BY DEF Shaped
<1>2. home \in AppState /\ home.suppress = s.suppress
  BY <1>1 DEF AppState, Tabs
<1>3. ShowHub(s) = SetScreen(t, "hub")
  BY DEF ShowHub
<1> HIDE DEF home
<1>4. one \in Seq(Entry) /\ Len(one) = 1 /\ one # <<>>
  BY <1>2, SnapshotIsEntry
<1> HIDE DEF one
<1>5. Bounded(one, 1)
  BY <1>4, HubAssumption DEF Bounded
<1>6. Shaped(t) /\ SameButHistory(home, t)
  BY <1>2, <1>4, <1>5, HistoryChanges
<1> HIDE DEF t
<1> QED BY <1>2, <1>3, <1>6, ScreenSet DEF Kept, SameButHistory

LEMMA SheetShown ==
    ASSUME NEW s, Shaped(s), NEW page \in Pages
    PROVE  Kept(s, ShowSheet(s, page)) /\ Told(ShowSheet(s, page))
<1> DEFINE t == [Pin(s) EXCEPT !.page = page]
           u == SetScreen(t, "sheet")
<1>1. Shaped(Pin(s)) /\ Pin(s).suppress = s.suppress /\ Pin(s) \in AppState
  BY Pinned DEF SameButHistory, Shaped
<1>2. t \in AppState /\ t.hist = Pin(s).hist /\ t.idx = Pin(s).idx /\ t.suppress = s.suppress
  BY <1>1 DEF AppState
<1>3. Shaped(t)
  BY <1>1, <1>2, StillShaped
<1>4. ShowSheet(s, page) = Record(u)
  BY DEF ShowSheet
<1> HIDE DEF t
<1>5. Shaped(u) /\ Told(u) /\ u.suppress = s.suppress
  BY <1>2, <1>3, ScreenSet
<1> HIDE DEF u
<1>6. Shaped(Record(u)) /\ SameButHistory(u, Record(u))
  BY <1>5, Recorded
<1>7. Told(Record(u))
  BY <1>5, <1>6, StillTold
<1> QED BY <1>4, <1>5, <1>6, <1>7 DEF Kept, SameButHistory

LEMMA SheetClosed ==
    ASSUME NEW s, Shaped(s)
    PROVE  /\ Kept(s, CloseSheet(s)) /\ Told(CloseSheet(s))
           /\ Kept(s, ForceCloseSheet(s)) /\ Told(ForceCloseSheet(s))
<1> DEFINE t == [s EXCEPT !.page = ""]
<1>1. s \in AppState /\ s.session \in BOOLEAN
  BY DEF Shaped, AppState
<1>2. t \in AppState /\ t.hist = s.hist /\ t.idx = s.idx /\ t.suppress = s.suppress
  BY <1>1 DEF AppState, Pages
<1>3. Shaped(t)
  BY <1>2, StillShaped
<1>4. /\ CloseSheet(s) = IF s.needsBackup THEN ShowSheet(s, "backup") ELSE Pin(SetScreen(t, "hub"))
      /\ ForceCloseSheet(s) = SetScreen(t, IF s.session THEN "hub" ELSE "identity")
  BY DEF CloseSheet, ForceCloseSheet
<1> HIDE DEF t
<1>5. Kept(s, ForceCloseSheet(s)) /\ Told(ForceCloseSheet(s))
  BY <1>1, <1>2, <1>3, <1>4, ScreenSet DEF Kept
<1>6. Kept(s, ShowSheet(s, "backup")) /\ Told(ShowSheet(s, "backup"))
  BY SheetShown DEF Pages
<1> DEFINE u == SetScreen(t, "hub")
<1>7. Shaped(u) /\ Told(u) /\ u.suppress = s.suppress
  BY <1>2, <1>3, ScreenSet
<1> HIDE DEF u
<1>8. Shaped(Pin(u)) /\ SameButHistory(u, Pin(u))
  BY <1>7, Pinned
<1>9. Told(Pin(u)) /\ Kept(s, Pin(u))
  BY <1>7, <1>8, StillTold DEF Kept, SameButHistory
<1> QED BY <1>4, <1>5, <1>6, <1>9 DEF u

LEMMA PageOpened ==
    ASSUME NEW s, Shaped(s), NEW page \in Pages
    PROVE  Kept(s, OpenPage(s, page)) /\ (Told(s) => Told(OpenPage(s, page)))
  BY SheetShown DEF OpenPage, Kept

LEMMA LineRefreshed ==
    ASSUME NEW s, Shaped(s)
    PROVE  Kept(s, RefreshCallLine(s)) /\ (Told(s) => Told(RefreshCallLine(s)))
<1> DEFINE line   == [s EXCEPT !.callOpen = (s.call # "none")]
           place == IF s.call # "none" THEN "call"
                     ELSE IF s.session /\ ~s.locked THEN (IF s.page = "" THEN "hub" ELSE "sheet")
                     ELSE "identity"
<1>1. s \in AppState
  BY DEF Shaped
<1>2. line \in AppState /\ line.hist = s.hist /\ line.idx = s.idx /\ line.suppress = s.suppress
  BY <1>1 DEF AppState
<1>3. Shaped(line)
  BY <1>2, StillShaped
<1>4. RefreshCallLine(s) = s \/ RefreshCallLine(s) = SetScreen(line, place)
  BY DEF RefreshCallLine
<1>5. place \in {"identity", "hub", "sheet", "call"}
  OBVIOUS
<1> HIDE DEF line, place
<1>6. Kept(s, SetScreen(line, place)) /\ Told(SetScreen(line, place))
  BY <1>2, <1>3, <1>5, ScreenSet DEF Kept
<1> QED BY <1>4, <1>6 DEF Kept

LEMMA ChatSynced ==
    ASSUME NEW s, Shaped(s)
    PROVE  Kept(s, SyncOpenChat(s)) /\ (Told(s) => Told(SyncOpenChat(s)))
<1> DEFINE synced == [s EXCEPT !.tapped = FALSE, !.peer = s.selected]
           left   == [synced EXCEPT !.room = NoPeer, !.showRoom = FALSE]
           opened == [synced EXCEPT !.room = s.selected, !.showRoom = IF s.split THEN @ ELSE TRUE]
<1>1. s \in AppState
  BY DEF Shaped
<1>2. /\ synced \in AppState /\ synced.hist = s.hist /\ synced.idx = s.idx /\ synced.suppress = s.suppress
      /\ synced.peer = s.selected /\ s.selected \in MaybePeer
  BY <1>1 DEF AppState
<1>3. \/ SyncOpenChat(s) = s
      \/ s.selected = NoPeer /\ SyncOpenChat(s) \in {left, ReplaceTop(left)}
      \/ s.selected # NoPeer /\ SyncOpenChat(s) \in {opened, Record(opened)}
  BY DEF SyncOpenChat
<1> HIDE DEF synced
<1>4. /\ left \in AppState /\ left.hist = s.hist /\ left.idx = s.idx /\ left.suppress = s.suppress
      /\ left.peer = s.selected
  BY <1>2 DEF AppState, MaybePeer
<1>5. /\ opened \in AppState /\ opened.hist = s.hist /\ opened.idx = s.idx /\ opened.suppress = s.suppress
      /\ opened.peer = opened.room
  BY <1>2 DEF AppState
<1>6. Shaped(left) /\ Shaped(opened)
  BY <1>4, <1>5, StillShaped
<1> HIDE DEF left, opened
<1>7. CASE SyncOpenChat(s) = s
  BY <1>7 DEF Kept
<1>8. CASE s.selected = NoPeer /\ SyncOpenChat(s) \in {left, ReplaceTop(left)}
  <2>1. Told(left)
    BY <1>4, <1>8 DEF Told, InRoom
  <2>2. Shaped(ReplaceTop(left)) /\ SameButHistory(left, ReplaceTop(left))
    BY <1>6, TopReplaced
  <2>3. Told(ReplaceTop(left)) /\ Kept(s, ReplaceTop(left)) /\ Kept(s, left)
    BY <1>4, <1>6, <2>1, <2>2, StillTold DEF Kept, SameButHistory
  <2> QED BY <1>8, <2>1, <2>3
<1>9. CASE s.selected # NoPeer /\ SyncOpenChat(s) \in {opened, Record(opened)}
  <2>1. Told(opened)
    BY <1>5 DEF Told
  <2>2. Shaped(Record(opened)) /\ SameButHistory(opened, Record(opened))
    BY <1>6, Recorded
  <2>3. Told(Record(opened)) /\ Kept(s, Record(opened)) /\ Kept(s, opened)
    BY <1>5, <1>6, <2>1, <2>2, StillTold DEF Kept, SameButHistory
  <2> QED BY <1>9, <2>1, <2>3
<1> QED BY <1>3, <1>7, <1>8, <1>9

(* The hub between two events.                                             *)
Well(s) == Shaped(s) /\ ~s.suppress /\ Told(s)

LEMMA HistoryApplied ==
    ASSUME NEW s, Shaped(s), NEW entry \in Entry
    PROVE  Well(ApplyHistory(s, entry))
<1> DEFINE keyed  == [s EXCEPT !.suppress = TRUE, !.peer = entry.peer, !.selected = entry.peer]
           turned == SetTab(keyed, entry.tab)
           tabbed == [turned EXCEPT !.showRoom = entry.showRoom]
           shows  == entry.tab = "chats" /\ entry.peer # NoPeer /\ (entry.showRoom \/ s.split)
           roomed == IF shows THEN [tabbed EXCEPT !.room = entry.peer] ELSE [tabbed EXCEPT !.room = NoPeer]
           paged  == IF entry.page = ""
                     THEN IF s.page # "" THEN ForceCloseSheet(roomed)
                          ELSE IF s.session THEN roomed ELSE SetScreen(roomed, "identity")
                     ELSE IF entry.page = "lang" \/ entry.page # s.page
                          THEN OpenPage(roomed, entry.page) ELSE roomed
<1>1. s \in AppState /\ entry.tab \in Tabs /\ entry.showRoom \in BOOLEAN /\ entry.peer \in MaybePeer /\ entry.page \in Pages
  BY DEF Shaped, Entry, Pages
<1>2. /\ keyed \in AppState /\ keyed.hist = s.hist /\ keyed.idx = s.idx
      /\ keyed.peer = entry.peer /\ keyed.split = s.split
  BY <1>1 DEF AppState
<1>3. ApplyHistory(s, entry) = [paged EXCEPT !.suppress = FALSE]
  BY DEF ApplyHistory
<1> HIDE DEF keyed
<1>4. Shaped(keyed)
  BY <1>2, StillShaped
<1>5. Shaped(turned) /\ turned.tab = entry.tab /\ turned.peer = entry.peer /\ turned.split = s.split
  BY <1>1, <1>2, <1>4, TabSet
<1> HIDE DEF turned
<1>6. turned \in AppState
  BY <1>5 DEF Shaped
<1>7. /\ tabbed \in AppState /\ tabbed.hist = turned.hist /\ tabbed.idx = turned.idx
      /\ tabbed.tab = entry.tab /\ tabbed.peer = entry.peer /\ tabbed.split = s.split
      /\ tabbed.showRoom = entry.showRoom
  BY <1>1, <1>5, <1>6 DEF AppState
<1> HIDE DEF tabbed
<1>8. /\ roomed \in AppState /\ roomed.hist = turned.hist /\ roomed.idx = turned.idx
      /\ roomed.tab = entry.tab /\ roomed.peer = entry.peer /\ roomed.split = s.split
      /\ roomed.showRoom = entry.showRoom
      /\ shows => roomed.room = entry.peer
  BY <1>1, <1>7 DEF AppState, MaybePeer
<1>9. Shaped(roomed) /\ Told(roomed)
  <2>1. Shaped(roomed)
    BY <1>5, <1>8, StillShaped
  <2> HIDE DEF roomed
  <2> QED BY <1>8, <2>1 DEF Told, InRoom
<1> HIDE DEF roomed, shows
<1>10. Shaped(paged) /\ Told(paged)
  <2>1. Shaped(ForceCloseSheet(roomed)) /\ Told(ForceCloseSheet(roomed))
    BY <1>9, SheetClosed DEF Kept
  <2>2. Shaped(SetScreen(roomed, "identity")) /\ Told(SetScreen(roomed, "identity"))
    BY <1>9, ScreenSet
  <2>3. Shaped(OpenPage(roomed, entry.page)) /\ Told(OpenPage(roomed, entry.page))
    BY <1>1, <1>9, PageOpened DEF Kept
  <2> QED BY <1>9, <2>1, <2>2, <2>3
<1> HIDE DEF paged
<1> DEFINE t == [paged EXCEPT !.suppress = FALSE]
<1>11. paged \in AppState
  BY <1>10 DEF Shaped
<1>12. /\ t \in AppState /\ t.hist = paged.hist /\ t.idx = paged.idx /\ ~t.suppress
       /\ t.session = paged.session /\ t.screen = paged.screen /\ t.tab = paged.tab /\ t.peer = paged.peer
       /\ t.split = paged.split /\ t.showRoom = paged.showRoom /\ t.room = paged.room
  BY <1>11 DEF AppState
<1>13. ApplyHistory(s, entry) = t
  BY <1>3
<1> HIDE DEF t
<1> QED BY <1>10, <1>12, <1>13, StillShaped DEF Well, Told, InRoom

LEMMA GoneTo ==
    ASSUME NEW s, Shaped(s), NEW idx \in 1..Len(s.hist)
    PROVE  Well(GoTo(s, idx))
<1> DEFINE t == [s EXCEPT !.idx = idx]
<1>1. s \in AppState /\ s.hist \in Seq(Entry) /\ Len(s.hist) <= MaxHistory
  BY Shape
<1>2. Len(s.hist) \in Nat /\ idx \in Nat /\ s.hist # <<>> /\ s.hist[idx] \in Entry
  BY <1>1
<1>3. t \in AppState /\ t.hist = s.hist /\ t.idx = idx
  BY <1>1, <1>2 DEF AppState
<1>4. GoTo(s, idx) = ApplyHistory(t, s.hist[idx])
  BY DEF GoTo
<1> HIDE DEF t
<1>5. Shaped(t)
  BY <1>1, <1>2, <1>3 DEF Shaped, Bounded
<1> QED BY <1>2, <1>4, <1>5, HistoryApplied

LEMMA SteppedBack ==
    ASSUME NEW w, Well(w.at)
    PROVE  Well(StepBack(w).at)
<1>1. CASE w.moved \/ w.at.idx = 1
  BY <1>1 DEF StepBack
<1>2. CASE ~(w.moved \/ w.at.idx = 1)
  <2>1. Shaped(w.at)
    BY DEF Well
  <2>2. w.at.idx - 1 \in 1..Len(w.at.hist)
    BY <1>2, <2>1, Shape
  <2>3. Well(GoTo(w.at, w.at.idx - 1))
    BY <2>1, <2>2, GoneTo
  <2> QED BY <1>2, <2>3 DEF StepBack
<1> QED BY <1>1, <1>2

\* A walk of nine steps is what its recursion says.
LEMMA NineSteps ==
    ASSUME NEW s
    PROVE  LET walk[n \in 0..9] == IF n = 0 THEN [at |-> s, moved |-> FALSE] ELSE StepBack(walk[n - 1])
           IN  walk = [n \in 0..9 |-> IF n = 0 THEN [at |-> s, moved |-> FALSE] ELSE StepBack(walk[n - 1])]
<1> DEFINE w0 == [at |-> s, moved |-> FALSE]
           w1 == StepBack(w0)
           w2 == StepBack(w1)
           w3 == StepBack(w2)
           w4 == StepBack(w3)
           w5 == StepBack(w4)
           w6 == StepBack(w5)
           w7 == StepBack(w6)
           w8 == StepBack(w7)
           w9 == StepBack(w8)
           f  == [n \in 0..9 |-> CASE n = 0 -> w0 [] n = 1 -> w1 [] n = 2 -> w2 [] n = 3 -> w3 [] n = 4 -> w4
                                  [] n = 5 -> w5 [] n = 6 -> w6 [] n = 7 -> w7 [] n = 8 -> w8 [] n = 9 -> w9]
           IsWalk(g) == g = [n \in 0..9 |-> IF n = 0 THEN w0 ELSE StepBack(g[n - 1])]
<1>0. \A n \in 1..9 : f[n] = StepBack(f[n - 1])
  <2> SUFFICES ASSUME NEW n \in 1..9
               PROVE  f[n] = StepBack(f[n - 1])
    OBVIOUS
  <2>1. /\ f[0] = w0 /\ f[1] = w1 /\ f[2] = w2 /\ f[3] = w3 /\ f[4] = w4
        /\ f[5] = w5 /\ f[6] = w6 /\ f[7] = w7 /\ f[8] = w8 /\ f[9] = w9
    <3> HIDE DEF w0, w1, w2, w3, w4, w5, w6, w7, w8, w9
    <3> QED OBVIOUS
  <2>2. n = 1 \/ n = 2 \/ n = 3 \/ n = 4 \/ n = 5 \/ n = 6 \/ n = 7 \/ n = 8 \/ n = 9
    OBVIOUS
  <2> HIDE DEF f
  <2>3. /\ f[1] = StepBack(f[1 - 1]) /\ f[2] = StepBack(f[2 - 1]) /\ f[3] = StepBack(f[3 - 1])
        /\ f[4] = StepBack(f[4 - 1]) /\ f[5] = StepBack(f[5 - 1]) /\ f[6] = StepBack(f[6 - 1])
        /\ f[7] = StepBack(f[7 - 1]) /\ f[8] = StepBack(f[8 - 1]) /\ f[9] = StepBack(f[9 - 1])
    <3>1. /\ 1 - 1 = 0 /\ 2 - 1 = 1 /\ 3 - 1 = 2 /\ 4 - 1 = 3 /\ 5 - 1 = 4
          /\ 6 - 1 = 5 /\ 7 - 1 = 6 /\ 8 - 1 = 7 /\ 9 - 1 = 8
      OBVIOUS
    <3>2. /\ w1 = StepBack(w0) /\ w2 = StepBack(w1) /\ w3 = StepBack(w2) /\ w4 = StepBack(w3) /\ w5 = StepBack(w4)
          /\ w6 = StepBack(w5) /\ w7 = StepBack(w6) /\ w8 = StepBack(w7) /\ w9 = StepBack(w8)
      OBVIOUS
    <3> HIDE DEF w0, w1, w2, w3, w4, w5, w6, w7, w8, w9
    <3> QED BY <2>1, <3>1, <3>2
  <2> QED BY <2>2, <2>3
<1>1. f[0] = w0 /\ f = [n \in 0..9 |-> f[n]]
  <2> HIDE DEF w0, w1, w2, w3, w4, w5, w6, w7, w8, w9
  <2> QED OBVIOUS
<1>2. IsWalk(f)
  <2> HIDE DEF f, w0
  <2>1. \A n \in 0..9 : f[n] = IF n = 0 THEN w0 ELSE StepBack(f[n - 1])
    <3>1. \A n \in 0..9 : n = 0 \/ n \in 1..9
      OBVIOUS
    <3> QED BY <1>0, <1>1, <3>1
  <2> QED BY <1>1, <2>1
<1>3. IsWalk(CHOOSE g : IsWalk(g))
  <2> HIDE DEF f, IsWalk
  <2> QED BY <1>2
<1> QED BY <1>3

LEMMA WalkedBack ==
    ASSUME NEW s, Well(s)
    PROVE  Well(WalkBack(s).at)
<1> DEFINE walk[n \in 0..9] == IF n = 0 THEN [at |-> s, moved |-> FALSE] ELSE StepBack(walk[n - 1])
<1>1. walk = [n \in 0..9 |-> IF n = 0 THEN [at |-> s, moved |-> FALSE] ELSE StepBack(walk[n - 1])]
  BY NineSteps
<1>2. WalkBack(s) = walk[9]
  BY DEF WalkBack
<1> HIDE DEF walk
<1>3. Well(walk[0].at)
  BY <1>1
<1>4. \A n \in 1..9 : Well(walk[n - 1].at) => Well(walk[n].at)
  <2> SUFFICES ASSUME NEW n \in 1..9, Well(walk[n - 1].at)
               PROVE  Well(walk[n].at)
    OBVIOUS
  <2>1. n \in 0..9 /\ n # 0
    OBVIOUS
  <2>2. walk[n] = StepBack(walk[n - 1])
    BY <1>1, <2>1
  <2> QED BY <2>2, SteppedBack
<1>5. /\ 1 - 1 = 0 /\ 2 - 1 = 1 /\ 3 - 1 = 2 /\ 4 - 1 = 3 /\ 5 - 1 = 4
      /\ 6 - 1 = 5 /\ 7 - 1 = 6 /\ 8 - 1 = 7 /\ 9 - 1 = 8
      /\ {1, 2, 3, 4, 5, 6, 7, 8, 9} \subseteq 1..9
  OBVIOUS
<1>6. Well(walk[1].at) /\ Well(walk[2].at) /\ Well(walk[3].at) /\ Well(walk[4].at) /\ Well(walk[5].at)
  BY <1>3, <1>4, <1>5
<1>7. Well(walk[6].at) /\ Well(walk[7].at) /\ Well(walk[8].at) /\ Well(walk[9].at)
  BY <1>4, <1>5, <1>6
<1> QED BY <1>2, <1>7


(* The events.                                                             *)

LEMMA EventEnds ==
    ASSUME NEW s, Well(s), Handled(s)
    PROVE  Well(app')
  BY ChatSynced DEF Well, Handled, Kept

\* A method that keeps the suppress flag and leaves the room told.
LEMMA KeptWell ==
    ASSUME NEW s, ~s.suppress, NEW t, Kept(s, t), Told(t)
    PROVE  Well(t)
  BY DEF Kept, Well

LEMMA FreshIsWell ==
    ASSUME NEW exists \in BOOLEAN, NEW split \in BOOLEAN
    PROVE  Well(Launched(exists, split))
<1> DEFINE t == Launched(exists, split)
<1>1. t \in AppState
  BY DEF Launched, AppState, Tabs, MaybePeer, Pages
<1>2. t.hist = <<>> /\ t.idx = 1 /\ ~t.suppress /\ ~t.session
  BY DEF Launched
<1> HIDE DEF t
<1>3. Bounded(t.hist, t.idx)
  <2>1. Len(t.hist) = 0 /\ t.idx \in 1..1
    BY <1>2
  <2> QED BY <1>2, <2>1, HubAssumption DEF Bounded
<1>4. Well(t)
  BY <1>1, <1>2, <1>3 DEF Well, Shaped, Told
<1> QED BY <1>4 DEF t

\* Fields are written that neither the history nor the room depends on.
LEMMA FieldsWritten ==
    ASSUME NEW s, Well(s), NEW t \in AppState, t.hist = s.hist, t.idx = s.idx, t.suppress = s.suppress,
           \/ ~t.session
           \/ t.peer = NoPeer
           \/ /\ t.session = s.session /\ t.screen = s.screen /\ t.tab = s.tab /\ t.peer = s.peer
              /\ t.split = s.split /\ t.showRoom = s.showRoom /\ t.room = s.room
    PROVE  Well(t)
  BY StillShaped DEF Well, Told, InRoom

LEMMA NavigationKeepsWell ==
    ASSUME Well(app), \/ \E mayQuit \in BOOLEAN : Back(mayQuit)
                      \/ Forward \/ Resize
                      \/ \E p \in ChatPeer : TapRow(p)
                      \/ \E tab \in Tabs : PressTab(tab)
                      \/ \E page \in Page : Open(page)
    PROVE  Well(app')
<1>0. app \in AppState /\ Shaped(app) /\ ~app.suppress /\ Told(app)
  BY DEF Well, Shaped
<1>1. ASSUME NEW mayQuit \in BOOLEAN, Back(mayQuit)
      PROVE  Well(app')
  <2>1. CASE Handled(EndCall(app))
    <3> DEFINE t == [app EXCEPT !.call = "none"]
    <3>1. /\ t \in AppState /\ t.hist = app.hist /\ t.idx = app.idx /\ t.suppress = app.suppress
          /\ t.session = app.session /\ t.screen = app.screen /\ t.tab = app.tab /\ t.peer = app.peer
          /\ t.split = app.split /\ t.showRoom = app.showRoom /\ t.room = app.room
      BY <1>0 DEF AppState
    <3>2. EndCall(app) = RefreshCallLine(t)
      BY DEF EndCall
    <3> HIDE DEF t
    <3>3. Well(t)
      BY <3>1, FieldsWritten
    <3> QED BY <2>1, <3>2, <3>3, LineRefreshed, KeptWell, EventEnds DEF Well
  <2>2. CASE Handled(Unlocked(app))
    <3> DEFINE t == [app EXCEPT !.locked = FALSE]
    <3>1. t \in AppState /\ t.hist = app.hist /\ t.idx = app.idx /\ t.suppress = app.suppress
      BY <1>0 DEF AppState
    <3>2. Unlocked(app) = SetScreen(t, "hub")
      BY DEF Unlocked
    <3> HIDE DEF t
    <3>3. Shaped(t)
      BY <1>0, <3>1, StillShaped
    <3>4. Well(SetScreen(t, "hub"))
      BY <1>0, <3>1, <3>3, ScreenSet DEF Well
    <3> QED BY <2>2, <3>2, <3>4, EventEnds
  <2>3. CASE Handled(WalkBack(app).at)
    BY <2>3, WalkedBack, EventEnds
  <2>4. CASE app' = Launched(app.exists, app.split)
    BY <1>0, <2>4, FreshIsWell DEF AppState
  <2> QED BY <1>1, <2>1, <2>2, <2>3, <2>4 DEF Back
<1>2. ASSUME Forward
      PROVE  Well(app')
  <2>1. app.idx + 1 \in 1..Len(app.hist)
    BY <1>0, <1>2, Shape DEF Forward
  <2> QED BY <1>0, <1>2, <2>1, GoneTo, EventEnds DEF Forward
<1>3. ASSUME Resize
      PROVE  Well(app')
  <2> DEFINE resized == [app EXCEPT !.split = ~@]
             t == IF app.split THEN [resized EXCEPT !.showRoom = FALSE, !.room = NoPeer]
                  ELSE [resized EXCEPT !.room = IF app.peer # NoPeer THEN app.peer ELSE @]
  <2>1. /\ resized \in AppState /\ resized.hist = app.hist /\ resized.idx = app.idx /\ resized.suppress = app.suppress
        /\ resized.peer = app.peer /\ resized.split = ~app.split /\ app.peer \in MaybePeer
    BY <1>0 DEF AppState
  <2> HIDE DEF resized
  <2>2. ASSUME app.split
        PROVE  Well(t)
    <3>1. /\ t \in AppState /\ t.hist = app.hist /\ t.idx = app.idx /\ t.suppress = app.suppress
          /\ t.split = resized.split /\ ~t.showRoom
      BY <2>1, <2>2 DEF AppState, MaybePeer
    <3>2. Told(t)
      <4> HIDE DEF t
      <4> QED BY <2>1, <2>2, <3>1 DEF Told, InRoom
    <3> HIDE DEF t
    <3> QED BY <1>0, <3>1, <3>2, StillShaped DEF Well
  <2>3. ASSUME ~app.split
        PROVE  Well(t)
    <3>1. /\ t \in AppState /\ t.hist = app.hist /\ t.idx = app.idx /\ t.suppress = app.suppress
          /\ t.peer = app.peer /\ (app.peer # NoPeer => t.room = app.peer)
      BY <2>1, <2>3 DEF AppState
    <3>2. Told(t)
      <4> HIDE DEF t
      <4> QED BY <3>1 DEF Told, InRoom
    <3> HIDE DEF t
    <3> QED BY <1>0, <3>1, <3>2, StillShaped DEF Well
  <2>4. Handled(t)
    BY <1>3 DEF Resize, resized
  <2> HIDE DEF t
  <2> QED BY <2>2, <2>3, <2>4, EventEnds
<1>4. ASSUME NEW p \in ChatPeer, TapRow(p)
      PROVE  Well(app')
  <2> DEFINE t == [app EXCEPT !.selected = p, !.tapped = TRUE]
  <2>1. /\ t \in AppState /\ t.hist = app.hist /\ t.idx = app.idx /\ t.suppress = app.suppress
        /\ t.session = app.session /\ t.screen = app.screen /\ t.tab = app.tab /\ t.peer = app.peer
        /\ t.split = app.split /\ t.showRoom = app.showRoom /\ t.room = app.room
    BY <1>0 DEF AppState, MaybePeer
  <2>2. Handled(t)
    BY <1>4 DEF TapRow
  <2> HIDE DEF t
  <2> QED BY <2>1, <2>2, FieldsWritten, EventEnds
<1>5. ASSUME NEW tab \in Tabs, PressTab(tab)
      PROVE  Well(app')
  <2>1. Well(SetTab(app, tab))
    BY <1>0, TabSet DEF Well
  <2> QED BY <1>5, <2>1, EventEnds DEF PressTab
<1>6. ASSUME NEW page \in Page, Open(page)
      PROVE  Well(app')
  <2>1. Kept(app, OpenPage(app, page)) /\ Told(OpenPage(app, page))
    BY <1>0, PageOpened DEF Pages
  <2> QED BY <1>0, <1>6, <2>1, KeptWell, EventEnds DEF Open
<1> QED BY <1>1, <1>2, <1>3, <1>4, <1>5, <1>6

LEMMA SheetsKeepWell ==
    ASSUME Well(app), PickLanguage \/ EditContact \/ AddContact \/ BlockPeer
    PROVE  Well(app')
<1>0. app \in AppState /\ Shaped(app) /\ ~app.suppress /\ Told(app)
  BY DEF Well, Shaped
<1>1. ASSUME Handled(CloseSheet(app))
      PROVE  Well(app')
  BY <1>0, <1>1, SheetClosed, KeptWell, EventEnds
<1>2. ASSUME EditContact
      PROVE  Well(app')
  <2> DEFINE t == [app EXCEPT !.peer = NoPeer]
  <2>1. t \in AppState /\ t.hist = app.hist /\ t.idx = app.idx /\ t.suppress = app.suppress
    BY <1>0 DEF AppState, MaybePeer
  <2>2. Handled(CloseSheet(t))
    BY <1>2 DEF EditContact
  <2> HIDE DEF t
  <2>3. Shaped(t)
    BY <1>0, <2>1, StillShaped
  <2> QED BY <1>0, <2>1, <2>2, <2>3, SheetClosed, KeptWell, EventEnds
<1>3. ASSUME BlockPeer
      PROVE  Well(app')
  <2> DEFINE t == [app EXCEPT !.peer = NoPeer, !.selected = NoPeer, !.room = NoPeer, !.showRoom = FALSE]
  <2>1. t \in AppState /\ t.hist = app.hist /\ t.idx = app.idx /\ t.suppress = app.suppress /\ t.peer = NoPeer
    BY <1>0 DEF AppState, MaybePeer
  <2>2. Handled(ReplaceTop(t))
    BY <1>3 DEF BlockPeer
  <2> HIDE DEF t
  <2>3. Well(t)
    BY <2>1, FieldsWritten
  <2>4. Well(ReplaceTop(t))
    BY <2>3, TopReplaced, StillTold DEF Well, SameButHistory
  <2> QED BY <2>2, <2>4, EventEnds
<1> QED BY <1>1, <1>2, <1>3 DEF PickLanguage, AddContact

LEMMA CoreKeepsWell ==
    ASSUME Well(app), \/ \E call \in {"none", "ringing"} : CoreCall(call)
                      \/ \E p \in ChatPeer : Scanned(p)
                      \/ CallSignal \/ DialPeer \/ AnswerCall \/ PressEnd
    PROVE  Well(app')
<1>0. app \in AppState /\ Shaped(app) /\ ~app.suppress /\ Told(app)
  BY DEF Well, Shaped
<1>1. \A call \in {"none", "ringing", "busy"} : Well([app EXCEPT !.call = call])
  <2> TAKE call \in {"none", "ringing", "busy"}
  <2> DEFINE t == [app EXCEPT !.call = call]
  <2>1. /\ t \in AppState /\ t.hist = app.hist /\ t.idx = app.idx /\ t.suppress = app.suppress
        /\ t.session = app.session /\ t.screen = app.screen /\ t.tab = app.tab /\ t.peer = app.peer
        /\ t.split = app.split /\ t.showRoom = app.showRoom /\ t.room = app.room
    BY <1>0 DEF AppState
  <2> HIDE DEF t
  <2>2. Well(t)
    BY <2>1, FieldsWritten
  <2> QED BY <2>2 DEF t
<1>2. \A s : Well(s) => Well(RefreshCallLine(s)) /\ Well(SyncOpenChat(s))
  BY LineRefreshed, ChatSynced DEF Well, Kept
<1>3. ASSUME NEW p \in ChatPeer, Scanned(p)
      PROVE  Well(app')
  <2> DEFINE drained == RefreshCallLine(SyncOpenChat(app))
             met     == [drained EXCEPT !.peer = p]
             joined  == CloseSheet(met)
             t       == [joined EXCEPT !.selected = p, !.tapped = TRUE]
  <2>1. Well(drained)
    BY <1>2
  <2>2. app' = t
    BY <1>3 DEF Scanned
  <2> HIDE DEF drained
  <2>3. drained \in AppState /\ Shaped(drained) /\ ~drained.suppress
    BY <2>1 DEF Well, Shaped
  <2>4. met \in AppState /\ met.hist = drained.hist /\ met.idx = drained.idx /\ met.suppress = drained.suppress
    BY <2>3 DEF AppState, MaybePeer
  <2> HIDE DEF met
  <2>5. Shaped(met)
    BY <2>3, <2>4, StillShaped
  <2>6. Well(joined)
    BY <2>3, <2>4, <2>5, SheetClosed, KeptWell
  <2> HIDE DEF joined
  <2>7. joined \in AppState
    BY <2>6 DEF Well, Shaped
  <2>8. /\ t \in AppState /\ t.hist = joined.hist /\ t.idx = joined.idx /\ t.suppress = joined.suppress
        /\ t.session = joined.session /\ t.screen = joined.screen /\ t.tab = joined.tab /\ t.peer = joined.peer
        /\ t.split = joined.split /\ t.showRoom = joined.showRoom /\ t.room = joined.room
    BY <2>7 DEF AppState, MaybePeer
  <2> HIDE DEF t
  <2> QED BY <2>2, <2>6, <2>8, FieldsWritten
<1>4. ASSUME NEW call \in {"none", "ringing"}, CoreCall(call)
      PROVE  Well(app')
  BY <1>1, <1>4 DEF CoreCall
<1>5. ASSUME CallSignal
      PROVE  Well(app')
  BY <1>2, <1>5 DEF CallSignal
<1>6. ASSUME DialPeer \/ AnswerCall
      PROVE  Well(app')
  <2>1. Handled(RefreshCallLine([app EXCEPT !.call = "busy"]))
    BY <1>6 DEF DialPeer, AnswerCall
  <2> QED BY <1>1, <1>2, <2>1, EventEnds
<1>7. ASSUME PressEnd
      PROVE  Well(app')
  BY <1>1, <1>2, <1>7, EventEnds DEF PressEnd, EndCall
<1> QED BY <1>3, <1>4, <1>5, <1>6, <1>7

LEMMA IdentityKeepsWell ==
    ASSUME Well(app), Create \/ Login \/ Unlock \/ SaveBackup \/ Lock \/ Logout \/ Delete \/ Killed
    PROVE  Well(app')
<1>0. app \in AppState /\ Shaped(app) /\ ~app.suppress /\ Told(app)
  BY DEF Well, Shaped
<1> DEFINE Plain(t) == t \in AppState /\ t.hist = app.hist /\ t.idx = app.idx /\ ~t.suppress
<1>1. ASSUME NEW t, Plain(t)
      PROVE  Well(ShowHub(t)) /\ Well(ShowSheet(t, "backup")) /\ Well(SetScreen(t, "identity"))
  <2>1. Shaped(t) /\ ~t.suppress
    BY <1>0, <1>1, StillShaped
  <2>2. Well(ShowHub(t))
    BY <2>1, HubShown DEF Well, Kept
  <2>3. Well(ShowSheet(t, "backup"))
    BY <2>1, SheetShown DEF Well, Kept, Pages
  <2>4. Well(SetScreen(t, "identity"))
    BY <2>1, ScreenSet DEF Well
  <2> QED BY <2>2, <2>3, <2>4
<1>2. /\ Plain([LoggedIn(app) EXCEPT !.needsBackup = TRUE]) /\ Plain(LoggedIn(app))
      /\ Plain([app EXCEPT !.locked = FALSE]) /\ Plain([app EXCEPT !.locked = TRUE])
      /\ Plain([app EXCEPT !.needsBackup = FALSE, !.page = ""])
  BY <1>0 DEF AppState, LoggedIn, Pages
<1>3. /\ LoggedOut(app) \in AppState /\ LoggedOut(app).hist = app.hist /\ LoggedOut(app).idx = app.idx
      /\ LoggedOut(app).suppress = app.suppress /\ ~LoggedOut(app).session
  BY <1>0 DEF AppState, LoggedOut, MaybePeer
<1>4. ASSUME Create
      PROVE  Well(app')
  <2> HIDE DEF Plain
  <2> QED BY <1>1, <1>2, <1>4, EventEnds DEF Create
<1>5. ASSUME Login
      PROVE  Well(app')
  <2> HIDE DEF Plain
  <2> QED BY <1>1, <1>2, <1>5, EventEnds DEF Login
<1>6. ASSUME Unlock
      PROVE  Well(app')
  <2> HIDE DEF Plain
  <2> QED BY <1>1, <1>2, <1>6, EventEnds DEF Unlock
<1>7. ASSUME SaveBackup
      PROVE  Well(app')
  <2> HIDE DEF Plain
  <2> QED BY <1>1, <1>2, <1>7, EventEnds DEF SaveBackup
<1>8. ASSUME Lock
      PROVE  Well(app')
  <2> HIDE DEF Plain
  <2> QED BY <1>1, <1>2, <1>8, EventEnds DEF Lock
<1>9. ASSUME Logout
      PROVE  Well(app')
  <2> DEFINE out == LoggedOut(app)
             t   == [out EXCEPT !.locked = FALSE, !.peer = NoPeer, !.page = "",
                                !.selected = NoPeer, !.tapped = FALSE]
  <2>1. Handled(SetScreen(t, "identity"))
    BY <1>9 DEF Logout
  <2> HIDE DEF out
  <2>2. Plain(t)
    BY <1>0, <1>3 DEF AppState, MaybePeer, Pages, out
  <2> HIDE DEF t, Plain
  <2> QED BY <1>1, <2>1, <2>2, EventEnds
<1>10. ASSUME Delete
       PROVE  Well(app')
  <2> DEFINE out == LoggedOut(app)
             t   == [out EXCEPT !.exists = FALSE]
  <2>1. Handled(t)
    BY <1>10 DEF Delete
  <2>2. out \in AppState /\ out.hist = app.hist /\ out.idx = app.idx /\ out.suppress = app.suppress /\ ~out.session
    BY <1>3
  <2> HIDE DEF out
  <2>3. t \in AppState /\ t.hist = app.hist /\ t.idx = app.idx /\ t.suppress = app.suppress /\ ~t.session
    BY <2>2 DEF AppState
  <2> HIDE DEF t
  <2> QED BY <2>1, <2>3, FieldsWritten, EventEnds
<1>11. ASSUME Killed
       PROVE  Well(app')
  BY <1>0, <1>11, FreshIsWell DEF Killed, AppState
<1> QED BY <1>4, <1>5, <1>6, <1>7, <1>8, <1>9, <1>10, <1>11

LEMMA HubStaysWell == HubSpec => []Well(app)
<1>1. HubInit => Well(app)
  BY FreshIsWell DEF HubInit
<1>2. Well(app) /\ [HubNext]_hubVars => Well(app)'
  <2> SUFFICES ASSUME Well(app), [HubNext]_hubVars
               PROVE  Well(app')
    OBVIOUS
  <2>1. CASE HubNext
    BY <2>1, NavigationKeepsWell, SheetsKeepWell, CoreKeepsWell, IdentityKeepsWell DEF HubNext
  <2>2. CASE UNCHANGED hubVars
    BY <2>2 DEF hubVars
  <2> QED BY <2>1, <2>2
<1> QED BY <1>1, <1>2, PTL DEF HubSpec

(* The hub's state has its type: the history keeps at most MaxHistory      *)
(* entries, its index is inside it, and no handler leaves suppress set.    *)
THEOREM HubTypeCorrect == HubSpec => []HubTypeOK
<1>1. Well(app) => HubTypeOK
  BY Shape DEF Well, HubTypeOK, AppState
<1> QED BY <1>1, HubStaysWell, PTL

(* The room on the screen is the room the core was told, for every set of  *)
(* contacts and sheets, every length of the history and every walk in it.  *)
THEOREM TellsTheShownRoom == HubSpec => []ShownRoomIsTold
<1>1. Well(app) => ShownRoomIsTold
  BY DEF Well, Told, ShownRoomIsTold, RoomIsShown
<1> QED BY <1>1, HubStaysWell, PTL

=============================================================================
