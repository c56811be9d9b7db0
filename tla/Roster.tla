------------------------------- MODULE Roster -------------------------------
(***************************************************************************)
(* The contact list: contacts_v1.rs, the contact operations of host.rs,    *)
(* what messages from the network do to it, and the list and the trust     *)
(* banner that the hub shows of it.                                        *)
(*                                                                         *)
(* Every change rewrites the contact file and then raises the version, in  *)
(* one critical section (with_store).  Nothing that reads takes the lock:  *)
(* the hub reads the version and then the file, a network thread looks a   *)
(* contact up before it adds it.  The user's operations and the refreshes  *)
(* run on the hub's one thread.                                            *)
(*                                                                         *)
(* Of a row the model keeps the two trust flags and one bit for the rest   *)
(* (name, preview, status, count), which every other change flips.         *)
(***************************************************************************)
EXTENDS Integers

CONSTANTS
    RosterPeer,       \* the peers there are
    Unselected,       \* no open room
    MaxVersion        \* bound of the changes

ASSUME RosterAssumption == Unselected \notin RosterPeer /\ MaxVersion \in Nat

VARIABLES
    contacts,   \* the file: a set of at most one row for each peer
    contactsVersion, \* CHANGE_VERSION
    writer,     \* who has written the file and not yet raised the version
    missing,    \* peers a network thread has looked for in vain, to be added
    view        \* the hub's thread and what it shows

rosterVars == <<contacts, contactsVersion, writer, missing, view>>

ContactRow == [known : BOOLEAN, blocked : BOOLEAN, note : BOOLEAN]
NewRow(known) == [known |-> known, blocked |-> FALSE, note |-> FALSE]
Has(p) == contacts[p] # {}

\* roster_ver of a hub that has to read the file whatever the version is.
Outdated == -1

RosterTypeOK ==
    /\ \A p \in RosterPeer : contacts[p] \subseteq ContactRow
    /\ contactsVersion \in 0..MaxVersion
    /\ writer \in {"none", "hub", "net"}
    /\ missing \subseteq RosterPeer
    /\ view.listing \in BOOLEAN
    /\ view.ver \in {Outdated} \union 0..MaxVersion
    /\ view.search \in BOOLEAN /\ view.query \in BOOLEAN
    /\ view.open \in RosterPeer \union {Unselected}
    /\ view.banner \in BOOLEAN /\ view.failed \in BOOLEAN

RosterInit ==
    /\ contacts = [p \in RosterPeer |-> {}]
    /\ contactsVersion = 0
    /\ writer = "none"
    /\ missing = {}
    /\ view = [listing |-> FALSE, ver |-> Outdated, search |-> FALSE, query |-> FALSE,
              open |-> Unselected, shown |-> [p \in RosterPeer |-> {}], banner |-> FALSE,
              failed |-> FALSE]

(***************************************************************************)
(* with_store: the file is replaced, then the version is raised.           *)
(***************************************************************************)
RewriteFile(who, p, rows) ==
    /\ writer = "none" /\ contactsVersion < MaxVersion
    /\ contacts' = [contacts EXCEPT ![p] = rows]
    /\ writer' = who
    /\ UNCHANGED contactsVersion

BumpForgotten ==  \* mutant: the change is not announced
    /\ writer # "none"
    /\ writer' = "none"
    /\ UNCHANGED <<contacts, contactsVersion, missing, view>>

Bump ==
    /\ writer # "none"
    /\ writer' = "none" /\ contactsVersion' = contactsVersion + 1
    /\ UNCHANGED <<contacts, missing, view>>

UpsertedAnew(p, known) == {NewRow(known)}  \* mutant: the stored flags are overwritten

\* upsert_contact: the flags of the row and of the request are joined.
Upserted(p, known) ==
    IF Has(p) THEN {[r EXCEPT !.known = @ \/ known, !.note = ~@] : r \in contacts[p]}
    ELSE {NewRow(known)}

\* set_contact_trust of an existing row.
Trusted(p, known, blocked) ==
    {[r EXCEPT !.known = @ \/ known, !.blocked = blocked] : r \in contacts[p]}

Noted(p) == {[r EXCEPT !.note = ~@] : r \in contacts[p]}

(***************************************************************************)
(* The user, on the hub's thread.                                          *)
(***************************************************************************)
HubIdle == ~view.listing /\ writer # "hub"

ByUser(p, rows, shownStale) ==
    /\ HubIdle
    /\ RewriteFile("hub", p, rows)
    /\ view' = IF shownStale THEN [view EXCEPT !.ver = Outdated] ELSE view
    /\ UNCHANGED missing

\* A key, an invitation or a code: the contact is one the user knows.
AddPeer(p) == ByUser(p, Upserted(p, TRUE), FALSE)

\* Renaming writes a whole contact, also for a peer that has none.  The room
\* is left.
Rename(p) ==
    /\ view.open = p /\ HubIdle
    /\ RewriteFile("hub", p, Upserted(p, TRUE))
    /\ view' = [view EXCEPT !.open = Unselected, !.ver = Outdated]
    /\ UNCHANGED missing

RemovePeer(p) ==
    /\ view.open = p /\ HubIdle
    /\ RewriteFile("hub", p, {})
    /\ view' = [view EXCEPT !.open = Unselected, !.ver = Outdated]
    /\ UNCHANGED missing

\* The page of blocked contacts: blocks or unblocks.
ToggleBlocked(p) ==
    \E r \in contacts[p] : ByUser(p, {[r EXCEPT !.blocked = ~@]}, FALSE)

\* The button of the room, which leaves the room.
BlockOpenPeer ==
    \E p \in RosterPeer :
        /\ view.open = p /\ HubIdle /\ Has(p)
        /\ RewriteFile("hub", p, Trusted(p, FALSE, TRUE))
        /\ view' = [view EXCEPT !.open = Unselected, !.ver = Outdated]
        /\ UNCHANGED missing

\* mark_known, for the button "Add" and for everything the user sends: it
\* unblocks, too.
MarkKnown(p) == view.open = p /\ Has(p) /\ ByUser(p, Trusted(p, TRUE, FALSE), TRUE)

\* A room opens and its count is cleared.
OpenRoom(p) ==
    /\ HubIdle
    /\ RewriteFile("hub", p, Noted(p))
    /\ view' = [view EXCEPT !.open = p, !.ver = Outdated]
    /\ UNCHANGED missing

LeaveRoom ==
    /\ HubIdle /\ view.open # Unselected
    /\ view' = [view EXCEPT !.open = Unselected, !.banner = FALSE, !.ver = Outdated]
    /\ UNCHANGED <<contacts, contactsVersion, writer, missing>>

TypeSearch ==
    /\ HubIdle
    /\ view' = [view EXCEPT !.search = ~@]
    /\ UNCHANGED <<contacts, contactsVersion, writer, missing>>

(***************************************************************************)
(* The network: a peer that is identified, or writes, or announces its     *)
(* status.                                                                 *)
(***************************************************************************)
LookUp(p) ==
    /\ ~Has(p)
    /\ missing' = missing \union {p}
    /\ UNCHANGED <<contacts, contactsVersion, writer, view>>

AddUnknown(p) ==
    /\ p \in missing
    /\ RewriteFile("net", p, Upserted(p, FALSE))
    /\ missing' = missing \ {p}
    /\ UNCHANGED view

\* record_inbound_preview, of a message in either direction: without a row the
\* file is written as it was.
RecordPreview(p) == RewriteFile("net", p, Noted(p)) /\ UNCHANGED <<missing, view>>

\* set_contact_availability_status of an existing row.
SetStatus(p) == Has(p) /\ RewriteFile("net", p, Noted(p)) /\ UNCHANGED <<missing, view>>

(***************************************************************************)
(* refresh_roster: version first, then the file.                           *)
(***************************************************************************)
\* Only a name can match the search.
Matches(r) == ~view.query \/ r.note

Visible(rows) == [p \in RosterPeer |-> {r \in rows[p] : ~r.blocked /\ Matches(r)}]

Unfamiliar(rows, p) ==
    p # Unselected /\ \E r \in rows[p] : ~r.known /\ ~r.blocked

StartRefresh ==
    /\ HubIdle
    /\ contactsVersion # view.ver \/ view.query # view.search
    /\ view' = [view EXCEPT !.ver = contactsVersion, !.query = view.search, !.listing = TRUE]
    /\ UNCHANGED <<contacts, contactsVersion, writer, missing>>

\* A file that cannot be read shows as an empty list.
ShowList ==
    /\ view.listing
    /\ \E readable \in BOOLEAN :
          LET rows == IF readable THEN contacts ELSE [p \in RosterPeer |-> {}] IN
          view' = [view EXCEPT !.shown = Visible(rows), !.banner = Unfamiliar(rows, view.open),
                             !.listing = FALSE, !.failed = ~readable]
    /\ UNCHANGED <<contacts, contactsVersion, writer, missing>>

RosterNext ==
    \/ Bump \/ BlockOpenPeer \/ LeaveRoom \/ TypeSearch \/ StartRefresh \/ ShowList
    \/ \E p \in RosterPeer :
          \/ AddPeer(p) \/ Rename(p) \/ RemovePeer(p) \/ ToggleBlocked(p) \/ MarkKnown(p) \/ OpenRoom(p)
          \/ LookUp(p) \/ AddUnknown(p) \/ RecordPreview(p) \/ SetStatus(p)

RosterSpec == RosterInit /\ [][RosterNext]_rosterVars

-----------------------------------------------------------------------------
(* Whom the user knows and whom the user has blocked is for the user to    *)
(* decide.  What comes from the network adds a stranger at most, changes   *)
(* neither flag of a contact and removes none, although it looked before   *)
(* the user added, blocked or removed that contact.                        *)
TrustIsTheUsers ==
    [][writer' # "hub" =>
         \A p \in RosterPeer :
            \/ /\ ~Has(p)
               /\ \A r \in contacts'[p] : ~r.known /\ ~r.blocked
            \/ \E r \in contacts[p], s \in contacts'[p] :
                  r.known = s.known /\ r.blocked = s.blocked]_rosterVars

(* When the hub has nothing left to refresh, the list it shows is the one  *)
(* of the file, without the blocked and those the search leaves out, and   *)
(* the banner belongs to the open room: no write that came between reading *)
(* the version and reading the file is missed.  A file that could not be   *)
(* read stays off the screen until the next change.                        *)
RosterIsFresh ==
    HubIdle /\ writer = "none" /\ view.ver = contactsVersion /\ view.query = view.search =>
        \/ view.failed
        \/ /\ view.shown = Visible(contacts)
           /\ view.banner = Unfamiliar(contacts, view.open)
=============================================================================
