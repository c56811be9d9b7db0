--------------------------- MODULE HubNavigation ---------------------------
(***************************************************************************)
(* The hub of the application (apps/ghalbol/src/main.rs): tabs, rooms,     *)
(* sheets, the lock, the call screen and the browser-style history, and    *)
(* the room the hub tells the core is open, for which read receipts are    *)
(* sent.                                                                   *)
(*                                                                         *)
(* The user interface has one thread.  A handler runs to its end and every *)
(* event ends with sync_open_chat, so a handler is one step.  App, which   *)
(* handlers take by &mut self, is one record, and a method that others     *)
(* call is an operator from App to App; the methods keep their order.      *)
(*                                                                         *)
(* Tabs other than Chats behave alike and are one.  A sheet is its page.   *)
(***************************************************************************)
EXTENDS Integers, SequencesExt

CONSTANTS
    ChatPeer, NoPeer,  \* contacts of the roster
    Page,          \* sheets opened from the hub, besides "backup"
    MaxHistory     \* entries the history keeps (64 in the code)

ASSUME HubAssumption ==
    /\ NoPeer \notin ChatPeer
    /\ Page \subseteq {"lang", "contacts", "scan", "add"}
    /\ MaxHistory \in Nat /\ MaxHistory > 1

VARIABLE app

hubVars == <<app>>

Tabs == {"chats", "other"}
MaybePeer == ChatPeer \union {NoPeer}
Entry == [tab : Tabs, showRoom : BOOLEAN, peer : MaybePeer, page : Page \union {"", "backup"}]

(* HubHistoryEntry: hub_snapshot. *)
Snapshot(s) == [tab |-> s.tab, showRoom |-> s.showRoom, peer |-> s.peer, page |-> s.page]

HubTypeOK ==
    /\ app.session \in BOOLEAN /\ app.locked \in BOOLEAN /\ app.needsBackup \in BOOLEAN
    /\ app.exists \in BOOLEAN                       \* a keystore is on the device
    /\ Snapshot(app) \in Entry
    /\ app.split \in BOOLEAN
    /\ app.selected \in MaybePeer /\ app.tapped \in BOOLEAN
    /\ app.screen \in {"identity", "hub", "sheet", "call"}
    /\ app.hist \in Seq(Entry) /\ Len(app.hist) <= MaxHistory
    /\ app.idx \in 1..(IF app.hist = <<>> THEN 1 ELSE Len(app.hist))
    /\ ~app.suppress
    /\ app.callOpen \in BOOLEAN
    /\ app.room \in MaybePeer /\ app.call \in {"none", "ringing", "busy"}

(* A fresh process.  The keystore and the window survive the process. *)
Launched(exists, split) ==
    [session |-> FALSE, locked |-> FALSE, needsBackup |-> FALSE, exists |-> exists,
     tab |-> "chats", showRoom |-> FALSE, peer |-> NoPeer, page |-> "", split |-> split,
     selected |-> NoPeer, tapped |-> FALSE, screen |-> "identity",
     hist |-> <<>>, idx |-> 1, suppress |-> FALSE,
     callOpen |-> FALSE, room |-> NoPeer, call |-> "none"]

HubInit == app = Launched(FALSE, TRUE)

(***************************************************************************)
(* HubHistoryStack.  The index counts from one.                            *)
(***************************************************************************)
ReplaceTop(s) ==
    LET written == [s.hist EXCEPT ![s.idx] = Snapshot(s)] IN
    IF s.hist = <<>> THEN [s EXCEPT !.hist = <<Snapshot(s)>>]
    ELSE IF s.idx > 1 /\ written[s.idx - 1] = Snapshot(s)
         THEN [s EXCEPT !.hist = RemoveAt(written, s.idx), !.idx = @ - 1]
         ELSE [s EXCEPT !.hist = written]

Record(s) ==
    LET pushed == Append(SubSeq(s.hist, 1, s.idx), Snapshot(s))
        kept   == IF Len(pushed) > MaxHistory THEN Tail(pushed) ELSE pushed
    IN  IF s.suppress \/ (s.hist # <<>> /\ s.hist[s.idx] = Snapshot(s)) THEN s
        ELSE IF s.hist = <<>> THEN [s EXCEPT !.hist = <<Snapshot(s)>>]
        ELSE [s EXCEPT !.hist = kept, !.idx = Len(kept)]

(* What the code does before it leaves a place: write down where it was. *)
Pin(s) == IF s.suppress THEN s ELSE ReplaceTop(s)

(***************************************************************************)
(* Tabs and screens.                                                       *)
(***************************************************************************)
InRoom(s) == s.peer # NoPeer /\ (s.split \/ s.showRoom)

SetTab(s, tab) ==
    LET turned == [(IF s.tab # tab THEN Pin(s) ELSE s) EXCEPT !.tab = tab]
        told == IF tab # "chats"
                THEN [turned EXCEPT !.showRoom = FALSE, !.room = IF s.split THEN @ ELSE NoPeer]
                ELSE [turned EXCEPT !.room = IF InRoom(turned) THEN turned.peer ELSE @]
    IN  IF s.tab # tab THEN Record(told) ELSE told

SetScreen(s, screen) ==
    LET shown == [s EXCEPT !.screen = screen] IN
    IF screen = "hub" THEN SetTab(shown, shown.tab) ELSE shown

ShowHub(s) ==
    LET home == [s EXCEPT !.tab = "chats", !.showRoom = FALSE]
    IN  SetScreen([home EXCEPT !.hist = <<Snapshot(home)>>, !.idx = 1], "hub")

ShowSheet(s, page) == Record(SetScreen([Pin(s) EXCEPT !.page = page], "sheet"))

(* open_page needs a session, open_languages does not. *)
OpenPage(s, page) == IF s.session \/ page = "lang" THEN ShowSheet(s, page) ELSE s

CloseSheet(s) ==
    IF s.needsBackup THEN ShowSheet(s, "backup")
    ELSE Pin(SetScreen([s EXCEPT !.page = ""], "hub"))

ForceCloseSheet(s) ==
    SetScreen([s EXCEPT !.page = ""], IF s.session THEN "hub" ELSE "identity")

RefreshCallLine(s) ==
    LET calling == s.call # "none"
        line    == [s EXCEPT !.callOpen = calling]
    IN  IF calling = s.callOpen THEN s
        ELSE IF calling THEN SetScreen(line, "call")
        ELSE IF s.session /\ ~s.locked THEN SetScreen(line, IF s.page = "" THEN "hub" ELSE "sheet")
        ELSE SetScreen(line, "identity")

(***************************************************************************)
(* sync_open_chat, the end of every event: it opens the room of the        *)
(* selected row.                                                           *)
(***************************************************************************)
SyncOpenChat(s) ==
    LET peer   == s.selected
        synced == [s EXCEPT !.tapped = FALSE, !.peer = peer]
        left   == [synced EXCEPT !.room = NoPeer, !.showRoom = FALSE]
        opened == [synced EXCEPT !.room = peer, !.showRoom = IF s.split THEN @ ELSE TRUE]
        isNew  == IF s.split THEN peer # s.peer ELSE ~s.showRoom
    IN  IF ~s.session \/ (~s.tapped /\ peer = s.peer) THEN s
        ELSE IF peer = NoPeer THEN IF s.peer # NoPeer THEN ReplaceTop(left) ELSE left
        ELSE IF isNew THEN Record(opened) ELSE opened

Handled(s) == app' = SyncOpenChat(s)

(***************************************************************************)
(* Back and forward.                                                       *)
(***************************************************************************)
ApplyHistory(s, entry) ==
    LET keyed  == [s EXCEPT !.suppress = TRUE, !.peer = entry.peer, !.selected = entry.peer]
        tabbed == [SetTab(keyed, entry.tab) EXCEPT !.showRoom = entry.showRoom]
        roomed == IF entry.tab = "chats" /\ entry.peer # NoPeer /\ (entry.showRoom \/ s.split)
                  THEN [tabbed EXCEPT !.room = entry.peer]
                  ELSE [tabbed EXCEPT !.room = NoPeer]
        paged  == IF entry.page = ""
                  THEN IF s.page # "" THEN ForceCloseSheet(roomed)
                       ELSE IF s.session THEN roomed ELSE SetScreen(roomed, "identity")
                  ELSE IF entry.page = "lang" \/ entry.page # s.page
                       THEN OpenPage(roomed, entry.page) ELSE roomed
    IN  [paged EXCEPT !.suppress = FALSE]

GoTo(s, idx) == ApplyHistory([s EXCEPT !.idx = idx], s.hist[idx])

(* One entry back, unless the walk has come to another place. *)
StepBack(walk) ==
    IF walk.moved \/ walk.at.idx = 1 THEN walk
    ELSE LET next == GoTo(walk.at, walk.at.idx - 1)
         IN  [at |-> next, moved |-> Snapshot(next) # Snapshot(walk.at)]

(* Duplicate entries are skipped, at most nine. *)
WalkBack(s) ==
    LET walk[n \in 0..9] == IF n = 0 THEN [at |-> s, moved |-> FALSE] ELSE StepBack(walk[n - 1])
    IN  walk[9]

Unlocked(s) == SetScreen([s EXCEPT !.locked = FALSE], "hub")

EndCall(s) == RefreshCallLine([s EXCEPT !.call = "none"])

(* Android and mouse back may quit, Escape and the buttons do not. *)
Back(mayQuit) ==
    LET walk == WalkBack(app) IN
    \/ app.callOpen /\ app.call = "ringing" /\ Handled(EndCall(app))
    \/ ~(app.callOpen /\ app.call # "none") /\ ~app.needsBackup
       /\ IF app.locked /\ app.session THEN Handled(Unlocked(app))
          ELSE IF walk.moved \/ ~mayQuit THEN Handled(walk.at)
          ELSE app' = Launched(app.exists, app.split)

Forward ==
    /\ ~app.callOpen /\ ~app.locked /\ ~app.needsBackup /\ app.session
    /\ app.idx < Len(app.hist)
    /\ Handled(GoTo(app, app.idx + 1))

(***************************************************************************)
(* Input on the hub and its sheets.                                        *)
(***************************************************************************)
OnHub == app.screen = "hub" /\ app.session /\ ~app.locked

ResizeForgetsRoom ==  \* mutant: a wider window shows the room and tells nobody
    LET resized == [app EXCEPT !.split = ~@] IN
    Handled(IF app.split THEN [resized EXCEPT !.showRoom = FALSE, !.room = NoPeer] ELSE resized)

Resize ==
    LET resized == [app EXCEPT !.split = ~@] IN
    Handled(IF app.split THEN [resized EXCEPT !.showRoom = FALSE, !.room = NoPeer]
            ELSE [resized EXCEPT !.room = IF app.peer # NoPeer THEN app.peer ELSE @])

TapRow(p) ==
    /\ app.screen = "hub" /\ app.session /\ app.tab = "chats" /\ (app.split \/ ~app.showRoom)
    /\ Handled([app EXCEPT !.selected = p, !.tapped = TRUE])

PressTab(tab) ==
    /\ OnHub /\ (app.split \/ app.tab # "chats" \/ ~app.showRoom)
    /\ Handled(SetTab(app, tab))

Open(page) == app.screen = "hub" /\ Handled(OpenPage(app, page))

PickLanguage == app.screen = "sheet" /\ app.page = "lang" /\ Handled(CloseSheet(app))

(* Both a rename and a removal leave the room with open_peer.clear(). *)
EditContact ==
    /\ app.screen = "sheet" /\ app.page = "contacts" /\ app.peer # NoPeer
    /\ Handled(CloseSheet([app EXCEPT !.peer = NoPeer]))

AddContact == app.screen = "sheet" /\ app.page = "add" /\ Handled(CloseSheet(app))

BlockPeer ==
    /\ app.screen = "hub" /\ app.tab = "chats" /\ InRoom(app)
    /\ Handled(ReplaceTop([app EXCEPT !.peer = NoPeer, !.selected = NoPeer,
                                      !.room = NoPeer, !.showRoom = FALSE]))

(***************************************************************************)
(* Events from the core: drain_events runs after sync_open_chat.           *)
(***************************************************************************)
CoreCall(call) ==
    /\ app.session /\ ~app.needsBackup
    /\ call = "ringing" => app.call = "none"
    /\ call = "none" => app.call # "none"
    /\ app' = [app EXCEPT !.call = call]

CallSignal == app.session /\ app' = RefreshCallLine(SyncOpenChat(app))

Scanned(p) ==
    /\ app.session /\ app.page = "scan"
    /\ LET drained == RefreshCallLine(SyncOpenChat(app))
           joined  == CloseSheet([drained EXCEPT !.peer = p])
       IN  app' = [joined EXCEPT !.selected = p, !.tapped = TRUE]

DialPeer ==
    /\ app.screen = "hub" /\ app.tab = "chats" /\ InRoom(app)
    /\ app.call = "none" /\ app.session
    /\ Handled(RefreshCallLine([app EXCEPT !.call = "busy"]))

AnswerCall ==
    /\ app.screen = "call" /\ app.call = "ringing"
    /\ Handled(RefreshCallLine([app EXCEPT !.call = "busy"]))

PressEnd == app.screen = "call" /\ app.call # "none" /\ Handled(EndCall(app))

(***************************************************************************)
(* Identity: create, unlock, lock, log out, delete.                        *)
(***************************************************************************)
LoggedIn(s) == [s EXCEPT !.session = TRUE, !.exists = TRUE]
LoggedOut(s) == [s EXCEPT !.session = FALSE, !.room = NoPeer, !.call = "none"]

Create ==
    /\ app.screen = "identity" /\ ~app.exists /\ ~app.session
    /\ Handled(ShowSheet([LoggedIn(app) EXCEPT !.needsBackup = TRUE], "backup"))

(* Unlocking the keystore, or importing one where there is none. *)
Login ==
    /\ app.screen = "identity" /\ ~app.session
    /\ Handled(ShowHub(LoggedIn(app)))

Unlock ==
    /\ app.screen = "identity" /\ app.session /\ app.locked
    /\ Handled(ShowHub([app EXCEPT !.locked = FALSE]))

SaveBackup ==
    /\ app.screen = "sheet" /\ app.page = "backup" /\ app.needsBackup
    /\ Handled(ShowHub([app EXCEPT !.needsBackup = FALSE, !.page = ""]))

Lock == app.screen = "hub" /\ Handled(SetScreen([app EXCEPT !.locked = TRUE], "identity"))

Logout ==
    /\ app.screen = "hub" /\ app.tab # "chats"
    /\ Handled(SetScreen([LoggedOut(app) EXCEPT !.locked = FALSE, !.peer = NoPeer, !.page = "",
                                                !.selected = NoPeer, !.tapped = FALSE], "identity"))

Delete ==
    /\ app.screen = "identity" /\ app.exists
    /\ Handled([LoggedOut(app) EXCEPT !.exists = FALSE])

(* The system or the user ends the process. *)
Killed == app' = Launched(app.exists, app.split)

HubNext ==
    \/ \E mayQuit \in BOOLEAN : Back(mayQuit)
    \/ Forward \/ Resize
    \/ \E p \in ChatPeer : TapRow(p) \/ Scanned(p)
    \/ \E tab \in Tabs : PressTab(tab)
    \/ \E page \in Page : Open(page)
    \/ PickLanguage \/ EditContact \/ AddContact \/ BlockPeer
    \/ \E call \in {"none", "ringing"} : CoreCall(call)
    \/ CallSignal \/ DialPeer \/ AnswerCall \/ PressEnd
    \/ Create \/ Login \/ Unlock \/ SaveBackup \/ Lock \/ Logout \/ Delete \/ Killed

HubSpec == HubInit /\ [][HubNext]_hubVars

-----------------------------------------------------------------------------
RoomIsShown == app.screen = "hub" /\ app.tab = "chats" /\ InRoom(app)

(* The room on the screen is the room the core sends read receipts for,    *)
(* whichever way the hub came there: a tap, a tab, a resize, a scanned     *)
(* code, a sheet that closed, a call that ended, or the history.           *)
ShownRoomIsTold == app.session /\ RoomIsShown => app.room = app.peer

=============================================================================
