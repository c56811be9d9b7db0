------------------------------- MODULE MCApp --------------------------------
(* Eight parts side by side, for what needs no fairness: the calls of two  *)
(* devices (CallSystem), the screens (HubNavigation), the contact list     *)
(* (Roster), the lines of a room (RoomLines), the count of the messages    *)
(* nobody has seen (UnreadBadge), the threads of a login (NodeControl),    *)
(* the identity on the disk (Keystore) and the mailbox on the server       *)
(* (Mailbox).  They share no state; the initial state picks the part that  *)
(* moves, and the others rest in their first state.                        *)
EXTENDS CallSystem, HubNavigation, Roster, RoomLines, UnreadBadge,
        NodeControl, Keystore, Mailbox

CONSTANTS a, m1, m2, m3, weak

VARIABLE part

partVars == <<part, callVars, hubVars, rosterVars, lineVars, badgeVars, nodeVars, keyVars, vars>>

\* UnreadBadge: three messages of one contact, one of each kind; the last two
\* were sent in the same millisecond.
Messages == {m1, m2, m3}
OneRoom == [m \in Messages |-> a]
OneOfEach == [m \in Messages |-> CASE m = m1 -> "text" [] m = m2 -> "voice" [] m = m3 -> "attachment_offer"]
InOrder == [m \in Messages |-> IF m = m1 THEN 1 ELSE 2]

\* RoomLines: the first message by id is the last by its time, and two have
\* the same time.
FirstIsLast == <<2, 1, 1>>

\* Keystore: a secret that is not one of the first algorithm's
ValidKeys == (Algorithm \X Secret) \ {<<"secp256k1", weak>>}

\* One of the first states of Keystore, for when another part moves.
KeysAtRest ==
    /\ ~prefs
    /\ \A b \in backups : /\ b.public = (CHOOSE id \in ValidSecret : TRUE)
                           /\ b.sealed.password = (CHOOSE x \in Password : TRUE)

AppInit ==
    /\ part \in {"calls", "hub", "roster", "lines", "badge", "node", "keys", "mailbox"}
    /\ CallInit /\ HubInit /\ RosterInit /\ LinesInit /\ BadgeInit /\ NodeControlInit
    /\ KeyInit /\ Init
    /\ part # "keys" => KeysAtRest

\* What each part leaves alone.
InCalls == part = "calls" /\ UNCHANGED <<part, hubVars, rosterVars, lineVars, badgeVars, nodeVars, keyVars, vars>>
InHub == part = "hub" /\ UNCHANGED <<part, callVars, rosterVars, lineVars, badgeVars, nodeVars, keyVars, vars>>
InRoster == part = "roster" /\ UNCHANGED <<part, callVars, hubVars, lineVars, badgeVars, nodeVars, keyVars, vars>>
InLines == part = "lines" /\ UNCHANGED <<part, callVars, hubVars, rosterVars, badgeVars, nodeVars, keyVars, vars>>
InBadge == part = "badge" /\ UNCHANGED <<part, callVars, hubVars, rosterVars, lineVars, nodeVars, keyVars, vars>>
InNode == part = "node" /\ UNCHANGED <<part, callVars, hubVars, rosterVars, lineVars, badgeVars, keyVars, vars>>
InKeys == part = "keys" /\ UNCHANGED <<part, callVars, hubVars, rosterVars, lineVars, badgeVars, nodeVars, vars>>
InMailbox == part = "mailbox" /\ UNCHANGED <<part, callVars, hubVars, rosterVars, lineVars, badgeVars, nodeVars, keyVars>>

AppNext ==
    \/ InCalls /\ CallNext
    \/ InHub /\ HubNext
    \/ InRoster /\ RosterNext
    \/ InLines /\ LinesNext
    \/ InBadge /\ BadgeNext
    \/ InNode /\ NodeControlNext
    \/ InKeys /\ KeyNext
    \/ InMailbox /\ Next

AppSpec == AppInit /\ [][AppNext]_partVars

\* The devices of CallSystem are interchangeable, the ids of calls are not.
DeviceSymmetry == Permutations(Peer)

AppTypeOK ==
    /\ CallTypeOK /\ HubTypeOK /\ RosterTypeOK /\ LinesTypeOK /\ BadgeTypeOK
    /\ NodeControlTypeOK /\ KeyTypeOK /\ TypeOK
=============================================================================
