------------------------------- MODULE TeamsPage -------------------------------
(***************************************************************************)
(* The teams page of the portal, as an administrator uses it in one        *)
(* browser, with the handlers of TeamServiceImpl it talks to.              *)
(*                                                                         *)
(* Every request is sent by a click, served by the server in one           *)
(* transaction, and answered to a callback of the page.  An overlay covers *)
(* the page while a request is on its way, except while member changes are *)
(* saved; the answer to that one uncovers the page whatever else is on its *)
(* way, so requests can cross.  The page keeps its own copies: the list of *)
(* teams, the row being edited, the members in the drop-down and the four  *)
(* lists of the member tab, which here count the copies of each employee.  *)
(***************************************************************************)
EXTENDS Integers, Sequences, FiniteSets

CONSTANTS
    Users,          \* the employees
    Names,          \* what the form of a team can hold
    Slots,          \* requests that can be on their way at once
    MaxTeams,       \* bound on the teams ever made; the first two are there
    MaxCopies,      \* bound on the copies of an employee in one list
    Budget,         \* bound on the requests, the lost calls and the changes by
                    \* other administrators, together
    MaySort         \* whether the list may be sorted or filtered

ASSUME TeamsAssumption ==
    /\ IsFiniteSet(Users) /\ Names # {}
    /\ MaxTeams \in Nat \ {0, 1}
    /\ MaxCopies \in Nat \ {0} /\ Budget \in Nat
    /\ MaySort \in BOOLEAN

VARIABLES
    rows, made, name, staff,    \* the tables team and user_team
    open, loaded, overlay,      \* the page is shown; has its data; is covered
    list,                       \* teamsList
    edit,                       \* selectedTeamData
    selected, serviced,         \* the ids of selectedTeam and lastTeamServiced
    boxes,                      \* the lists of the member tab
    menu,                       \* teamMembers and lastTeamMembers
    flight,                     \* the requests on their way
    spent,                      \* of the budget
    clean, overtaken            \* what excuses a page that is wrong

server == <<rows, made, name, staff>>
view == <<open, loaded>>
tab == <<selected, serviced, boxes>>
excuse == <<clean, overtaken>>
vars == <<server, view, overlay, list, edit, tab, menu, flight, spent, excuse>>

Teams == 1 .. MaxTeams
NoTeam == 0
NoName == ""

\* fresh: the row was put there by submitNewTeam, with an id that is a string.
Rows == [id : Teams, name : Names, count : Nat, fresh : BOOLEAN]
NoRow == [id |-> NoTeam]

Boxes == {"members", "others", "adds", "removes"}
None == [u \in Users |-> 0]
Copies(S) == [u \in Users |-> IF u \in S THEN 1 ELSE 0]

Ops == {"load", "fetch", "select", "add", "edit", "delete", "save"}

\* team, name: of the team named.  index, clicked: the row taken from the list
\* and the team of the row clicked.  adds, removes: what a save sends.
\* listing, users, count: in the answer.  here: the page that sent it is still
\* open.  met: a delete was on its way with another one.  late: members were
\* moved since a save was sent.
Requests ==
    [op : Ops, stage : {"sent", "ok", "error"}, team : Teams \cup {NoTeam},
     name : Names \cup {NoName}, index : Nat, clicked : Teams \cup {NoTeam},
     adds : [Users -> 0 .. MaxCopies], removes : [Users -> 0 .. MaxCopies],
     listing : Seq(Rows), users : SUBSET Users, count : Nat,
     here : BOOLEAN, met : BOOLEAN, late : BOOLEAN]
NoRequest == [op |-> "none"]

Request(op, team) ==
    [op |-> op, stage |-> "sent", team |-> team, name |-> NoName,
     index |-> 0, clicked |-> NoTeam, adds |-> None, removes |-> None,
     listing |-> <<>>, users |-> {}, count |-> 0,
     here |-> TRUE, met |-> FALSE, late |-> FALSE]

Met(r) == [r EXCEPT !.met = TRUE]
Left(r) == [r EXCEPT !.here = FALSE]
Late(r) == [r EXCEPT !.late = TRUE]

Busy == {s \in Slots : flight[s] # NoRequest}
Alive == {s \in Busy : flight[s].here}

TypeOK ==
    /\ made \in Teams /\ rows \subseteq 1 .. made
    /\ name \in [Teams -> Names \cup {NoName}] /\ staff \in [Teams -> SUBSET Users]
    /\ open \in BOOLEAN /\ loaded \in BOOLEAN /\ overlay \in BOOLEAN
    /\ list \in Seq(Rows)
    /\ edit \in Rows \cup {NoRow}
    /\ selected \in Teams \cup {NoTeam} /\ serviced \in Teams \cup {NoTeam}
    /\ boxes \in [Boxes -> [Users -> 0 .. MaxCopies]]
    /\ menu \in [of : Teams \cup {NoTeam}, users : SUBSET Users]
    /\ flight \in [Slots -> Requests \cup {NoRequest}]
    /\ spent \in 0 .. Budget /\ clean \in BOOLEAN
    /\ overtaken \subseteq Teams \cup {NoTeam}

\* The variables of a controller that has just been created.
BlankPage ==
    /\ loaded' = FALSE
    /\ list' = <<>> /\ edit' = NoRow
    /\ selected' = NoTeam /\ serviced' = NoTeam
    /\ boxes' = [b \in Boxes |-> None]
    /\ menu' = [of |-> NoTeam, users |-> {}]

Init ==
    /\ made = 2 /\ rows = {1, 2}
    /\ staff \in [Teams -> SUBSET Users] /\ name \in [Teams -> Names \cup {NoName}]
    /\ \A t \in Teams : IF t \in rows THEN name[t] # NoName
                       ELSE name[t] = NoName /\ staff[t] = {}
    /\ open = FALSE /\ loaded = FALSE /\ overlay = FALSE
    /\ list = <<>> /\ edit = NoRow
    /\ selected = NoTeam /\ serviced = NoTeam
    /\ boxes = [b \in Boxes |-> None]
    /\ menu = [of |-> NoTeam, users |-> {}]
    /\ flight = [s \in Slots |-> NoRequest] /\ spent = 0
    /\ clean = TRUE /\ overtaken = {}

-----------------------------------------------------------------------------
(* The clicks.                                                             *)

Spend == spent < Budget /\ spent' = spent + 1

Deletes == {s \in Alive : flight[s].op = "delete"}

\* makeHTTPHit and makePOSTHTTPHit.
Send(r) ==
    /\ Spend
    /\ \E s \in Slots \ Busy :
        flight' = [q \in Slots |->
            IF q = s THEN IF r.op = "delete" /\ Deletes # {} THEN Met(r) ELSE r
            ELSE IF q \in Deletes /\ r.op = "delete" THEN Met(flight[q])
            ELSE flight[q]]

\* Two requests of the page are on their way at once.
Crosses == clean' = (clean /\ Alive = {})

Usable == open /\ loaded /\ ~overlay

\* A page that is loaded while an older request is on its way may miss it.
OpenPage ==
    /\ ~open
    /\ open' = TRUE /\ overlay' = TRUE
    /\ Send(Request("load", NoTeam))
    /\ clean' = (Busy = {}) /\ overtaken' = {}
    /\ UNCHANGED <<server, loaded, list, edit, tab, menu>>

\* The controller is gone; done are the requests that have been answered.
Close(done) ==
    /\ open' = FALSE /\ overlay' = FALSE
    /\ BlankPage
    /\ flight' = [s \in Slots |-> IF s \in Busy \ done
                                 THEN Left(flight[s]) ELSE NoRequest]
    /\ UNCHANGED <<server, spent, excuse>>

\* By another link, which the overlay covers, or by the reload button, once
\* nothing is awaited.
LeavePage ==
    /\ open /\ (overlay => Alive = {})
    /\ Close({})

EditTeamData(i) ==
    /\ Usable /\ edit.id # list[i].id
    /\ edit' = list[i]
    /\ UNCHANGED <<server, view, overlay, list, tab, menu, flight, spent, excuse>>

CancelEdits ==
    /\ Usable /\ edit # NoRow
    /\ edit' = NoRow
    /\ UNCHANGED <<server, view, overlay, list, tab, menu, flight, spent, excuse>>

\* The row being edited has to be in the list to be seen.
SaveEdits(n) ==
    /\ Usable
    /\ \E i \in DOMAIN list : list[i].id = edit.id
    /\ edit' = [edit EXCEPT !.name = n]
    /\ overlay' = TRUE
    /\ Send([Request("edit", edit.id) EXCEPT !.name = n])
    /\ Crosses
    /\ UNCHANGED <<server, view, list, tab, menu, overtaken>>

SubmitNewTeam(n) ==
    /\ Usable /\ made < MaxTeams
    /\ overlay' = TRUE
    /\ Send([Request("add", NoTeam) EXCEPT !.name = n])
    /\ Crosses
    /\ UNCHANGED <<server, view, list, edit, tab, menu, overtaken>>

\* Row c of teamsList may be shown at another position once sortTeamBy or the
\* search box is used.
ShownAt(c, i) == list[c].id # edit.id /\ (i # c => MaySort)

\* Mutant: the number the row shows is sent for its position.
DeleteTeamBySerial(c, i) ==
    /\ Usable /\ ShownAt(c, i)
    /\ overlay' = TRUE
    /\ Send([Request("delete", list[i].id) EXCEPT !.index = i + 1, !.clicked = list[c].id])
    /\ Crosses
    /\ UNCHANGED <<server, view, list, edit, tab, menu, overtaken>>

\* The button of row c gives the position it is shown at, taken for the
\* position in teamsList.
DeleteTeam(c, i) ==
    /\ Usable /\ ShownAt(c, i)
    /\ overlay' = TRUE
    /\ Send([Request("delete", list[i].id) EXCEPT !.index = i, !.clicked = list[c].id])
    /\ Crosses
    /\ UNCHANGED <<server, view, list, edit, tab, menu, overtaken>>

\* The drop-down keeps the members of the last team it was opened for.
FetchMembers(i) ==
    /\ Usable /\ list[i].count > 0 /\ list[i].id # edit.id
    /\ list[i].id # menu.of
    /\ menu' = [of |-> list[i].id, users |-> {}]
    /\ overlay' = TRUE
    /\ Send(Request("fetch", list[i].id))
    /\ clean' = (clean /\ Alive = {}) /\ overtaken' = overtaken \ {NoTeam}
    /\ UNCHANGED <<server, view, list, edit, tab>>

\* Mutant: the page is covered before the early return.
SelectTeamAgainCovers(i) ==
    /\ Usable /\ list[i].id = serviced
    /\ selected' = list[i].id /\ overlay' = TRUE
    /\ UNCHANGED <<server, view, list, edit, serviced, boxes, menu, flight, spent, excuse>>

SelectTeamAgain(i) ==
    /\ Usable /\ list[i].id = serviced
    /\ selected' = list[i].id
    /\ UNCHANGED <<server, view, overlay, list, edit, serviced, boxes, menu, flight, spent, excuse>>

\* What is waiting to be added or removed stays.
SelectTeam(i) ==
    /\ Usable /\ list[i].id # serviced
    /\ selected' = list[i].id /\ serviced' = list[i].id
    /\ boxes' = [boxes EXCEPT !["members"] = None, !["others"] = None]
    /\ overlay' = TRUE
    /\ Send(Request("select", list[i].id))
    /\ Crosses
    /\ UNCHANGED <<server, view, list, edit, menu, overtaken>>

\* The loop of each of these skips the entry after one it takes out, so that
\* of several copies it moves some.
Move(u, from, to) ==
    /\ Usable
    /\ \E k \in 1 .. boxes[from][u] :
        /\ boxes[to][u] + k <= MaxCopies
        /\ boxes' = [boxes EXCEPT ![from][u] = @ - k, ![to][u] = @ + k]
    /\ flight' = [s \in Slots |-> IF s \in Busy /\ flight[s].op = "save"
                                 THEN Late(flight[s]) ELSE flight[s]]
    /\ UNCHANGED <<server, view, overlay, list, edit, selected, serviced, menu, spent, excuse>>

RemoveFromTeam(u) == Move(u, "members", "removes")
\* Mutant: the undo of an addition copied.
UndoRemoveFromTeamToOthers(u) == Move(u, "removes", "others")
UndoRemoveFromTeam(u) == Move(u, "removes", "members")
AddToTeam(u) == Move(u, "others", "adds")
UndoAddToTeam(u) == Move(u, "adds", "others")

\* Mutant: removeFromTeamArray is left out when there are additions.
RemovesUnlessAdds == IF boxes["adds"] # None THEN None ELSE boxes["removes"]
RemovesSent == boxes["removes"]

\* Without an overlay; with no team selected the handler throws.
SaveChanges ==
    /\ Usable /\ selected # NoTeam
    /\ \E u \in Users : boxes["adds"][u] + boxes["removes"][u] > 0
    /\ Send([Request("save", selected) EXCEPT
                !.adds = boxes["adds"], !.removes = RemovesSent])
    /\ Crosses
    /\ UNCHANGED <<server, view, overlay, list, edit, tab, menu, overtaken>>

-----------------------------------------------------------------------------
(* The server, one transaction at a time.                                  *)

\* The lists the database may return: no order is asked for.
Listings(S) ==
    {f \in [1 .. Cardinality(S) -> S] : \A i, j \in DOMAIN f : f[i] = f[j] => i = j}

RowOf(t) == [id |-> t, name |-> name[t], count |-> Cardinality(staff[t]), fresh |-> FALSE]

Sent(s, op) == s \in Busy /\ flight[s].op = op /\ flight[s].stage = "sent"

Reply(s, r) == flight' = [flight EXCEPT ![s] = r]

Refuse(s) ==
    /\ Reply(s, [flight[s] EXCEPT !.stage = "error"])
    /\ UNCHANGED server

GetTeams(s) ==
    /\ Sent(s, "load")
    /\ \E f \in Listings(rows) :
        Reply(s, [flight[s] EXCEPT !.stage = "ok",
                                   !.listing = [i \in DOMAIN f |-> RowOf(f[i])]])
    /\ UNCHANGED server

\* A team that is gone is null, and ends in the error answer of the catch.
GetTeamMembers(s) ==
    LET t == flight[s].team IN
    /\ Sent(s, "fetch") \/ Sent(s, "select")
    /\ IF t \in rows
       THEN /\ Reply(s, [flight[s] EXCEPT !.stage = "ok", !.users = staff[t]])
            /\ UNCHANGED server
       ELSE Refuse(s)

AddTeam(s) ==
    /\ Sent(s, "add") /\ made < MaxTeams
    /\ made' = made + 1 /\ rows' = rows \cup {made + 1}
    /\ name' = [name EXCEPT ![made + 1] = flight[s].name]
    /\ Reply(s, [flight[s] EXCEPT !.stage = "ok", !.team = made + 1])
    /\ UNCHANGED staff

\* Of a team that is gone: a null pointer and no answer of the handler's.
UpdateTeam(s) ==
    LET t == flight[s].team IN
    /\ Sent(s, "edit")
    /\ IF t \in rows
       THEN /\ name' = [name EXCEPT ![t] = flight[s].name]
            /\ Reply(s, [flight[s] EXCEPT !.stage = "ok"])
            /\ UNCHANGED <<rows, made, staff>>
       ELSE Refuse(s)

\* The members stay employees; the rows of user_team go with the team.
RemoveTeam(t) ==
    /\ rows' = rows \ {t}
    /\ staff' = [staff EXCEPT ![t] = {}]
    /\ UNCHANGED <<made, name>>

ServeDelete(s) ==
    LET t == flight[s].team IN
    /\ Sent(s, "delete")
    /\ IF t \in rows
       THEN RemoveTeam(t) /\ Reply(s, [flight[s] EXCEPT !.stage = "ok"])
       ELSE Refuse(s)

\* The users found are counted against the users asked for, so that one named
\* twice has the whole call refused.
Unambiguous(r) == \A u \in Users : r.adds[u] + r.removes[u] <= 1
StaffAfter(r) ==
    (staff[r.team] \cup {u \in Users : r.adds[u] > 0}) \ {u \in Users : r.removes[u] > 0}

UpdateTeamMembers(s) ==
    LET r == flight[s] IN
    /\ Sent(s, "save")
    /\ IF r.team \in rows /\ Unambiguous(r)
       THEN /\ staff' = [staff EXCEPT ![r.team] = StaffAfter(r)]
            /\ Reply(s, [r EXCEPT !.stage = "ok", !.name = name[r.team],
                                  !.count = Cardinality(StaffAfter(r))])
            /\ UNCHANGED <<rows, made, name>>
       ELSE Refuse(s)

Serve(s) ==
    /\ \/ GetTeams(s) \/ GetTeamMembers(s) \/ AddTeam(s)
       \/ UpdateTeam(s) \/ ServeDelete(s) \/ UpdateTeamMembers(s)
    /\ UNCHANGED <<view, overlay, list, edit, tab, menu, spent, excuse>>

Fault ==
    /\ Spend /\ clean' = FALSE
    /\ UNCHANGED <<view, overlay, list, edit, tab, menu, overtaken>>

\* The call does not arrive or fails, or its answer is lost.
Lose(s) ==
    /\ Fault
    /\ s \in Busy /\ flight[s].stage # "error"
    /\ Refuse(s)

\* Another administrator deletes a team, or moves one member in or out.
OthersDelete(t) ==
    /\ Fault /\ t \in rows
    /\ RemoveTeam(t)
    /\ UNCHANGED flight

OthersMove(t, u) ==
    /\ Fault /\ t \in rows
    /\ staff' = [staff EXCEPT ![t] = IF u \in @ THEN @ \ {u} ELSE @ \cup {u}]
    /\ UNCHANGED <<rows, made, name, flight>>

-----------------------------------------------------------------------------
(* The callbacks.  httpHitFactory turns a failed call into an answer, so   *)
(* that the callbacks for success get the errors too.                      *)

Answered(s, op) == s \in Alive /\ flight[s].op = op /\ flight[s].stage # "sent"
Succeeded(s) == flight[s].stage = "ok"

Done(s) == flight' = [flight EXCEPT ![s] = NoRequest] /\ UNCHANGED spent
Uncover == overlay' = FALSE

\* An answer without data makes the callback throw before it uncovers the page.
OnLoad(s) ==
    /\ Answered(s, "load") /\ Done(s)
    /\ IF Succeeded(s)
       THEN loaded' = TRUE /\ list' = flight[s].listing /\ Uncover
       ELSE /\ UNCHANGED <<loaded, list>>
            /\ overlay' \in BOOLEAN
    /\ UNCHANGED <<server, open, edit, tab, menu, excuse>>

OnMembersFetched(s) ==
    /\ Answered(s, "fetch") /\ Done(s) /\ Uncover
    /\ menu' = IF Succeeded(s) THEN [menu EXCEPT !.users = flight[s].users] ELSE menu
    /\ UNCHANGED <<server, view, list, edit, tab, excuse>>

OnTeamSelected(s) ==
    /\ Answered(s, "select") /\ Done(s) /\ Uncover
    /\ boxes' = IF Succeeded(s)
                THEN [boxes EXCEPT !["members"] = Copies(flight[s].users),
                                   !["others"] = Copies(Users \ flight[s].users)]
                ELSE boxes
    /\ UNCHANGED <<server, view, list, edit, selected, serviced, menu, excuse>>

\* Mutant: the id in the answer is not put in the row.
RowWithoutId(r, n) == [id |-> NoTeam, name |-> n, count |-> 0, fresh |-> TRUE]
NewRow(r, n) == [id |-> r.team, name |-> n, count |-> 0, fresh |-> TRUE]

\* The form is read again; it may have changed if the page was uncovered.
OnTeamAdded(s) ==
    /\ Answered(s, "add") /\ Done(s) /\ Uncover
    /\ IF Succeeded(s)
       THEN \E n \in Names :
                /\ clean => n = flight[s].name
                /\ list' = Append(list, NewRow(flight[s], n))
       ELSE UNCHANGED list
    /\ UNCHANGED <<server, view, edit, tab, menu, excuse>>

\* What is in the row now goes to the list, whatever was sent.
OnEditSaved(s) ==
    /\ Answered(s, "edit") /\ Done(s)
    /\ IF Succeeded(s)
       THEN /\ Uncover
            /\ \/ \E i \in DOMAIN list :
                    /\ list[i].id = edit.id
                    /\ list' = [list EXCEPT ![i] = edit]
                    /\ edit' = NoRow
                    /\ overtaken' = IF edit.count # list[i].count
                                    THEN overtaken \cup {edit.id} ELSE overtaken
               \/ /\ \A i \in DOMAIN list : list[i].id # edit.id
                  /\ UNCHANGED <<list, edit, overtaken>>
       ELSE UNCHANGED <<overlay, list, edit, overtaken>>
    /\ UNCHANGED <<server, view, tab, menu, clean>>

\* Mutant: the row after the deleted one.
WithoutNext(s, k) ==
    [i \in 1 .. Len(s) - 1 |-> IF i <= k THEN s[i] ELSE s[i + 1]]

\* splice(index, 1)
Without(s, k) ==
    [i \in 1 .. Len(s) - 1 |-> IF i < k THEN s[i] ELSE s[i + 1]]

OnTeamDeleted(s) ==
    /\ Answered(s, "delete") /\ Done(s) /\ Uncover
    /\ list' = IF Succeeded(s) /\ flight[s].index <= Len(list)
               THEN Without(list, flight[s].index) ELSE list
    /\ UNCHANGED <<server, view, edit, tab, menu, excuse>>

\* Mutant: the number of members is not renewed.
NameRenewed(row, r) == [row EXCEPT !.name = r.name]
Renewed(row, r) == [row EXCEPT !.name = r.name, !.count = r.count]

\* The ids are compared with ===: a fresh row is not found.
OnMembersSaved(s) ==
    LET t == flight[s].team
        Replaced(i) == list[i].id = t /\ ~list[i].fresh
    IN
    /\ Answered(s, "save") /\ Succeeded(s) /\ Done(s) /\ Uncover
    /\ list' = [i \in DOMAIN list |->
                  IF Replaced(i) THEN Renewed(list[i], flight[s]) ELSE list[i]]
    /\ selected' = NoTeam /\ serviced' = NoTeam
    /\ boxes' = [[b \in Boxes |-> None] EXCEPT !["others"] = Copies(Users)]
    /\ overtaken' = (overtaken \ {t}) \cup (IF menu.of = t THEN {NoTeam} ELSE {})
    /\ UNCHANGED <<server, view, edit, menu, clean>>

\* To the error page.
OnSaveRefused(s) ==
    /\ Answered(s, "save") /\ ~Succeeded(s)
    /\ Close({s})

\* The callback of a page that was left: gone after a reload, and otherwise
\* free to uncover the page that is open now or to send it to the error page.
OnLate(s) ==
    /\ s \in Busy \ Alive /\ flight[s].stage # "sent"
    /\ \/ Done(s)
          /\ overlay' \in {overlay, FALSE}
          /\ UNCHANGED <<server, view, list, edit, tab, menu, excuse>>
       \/ flight[s].op = "save" /\ ~Succeeded(s)
          /\ Close({s})

Answer(s) ==
    \/ OnLoad(s) \/ OnMembersFetched(s) \/ OnTeamSelected(s) \/ OnTeamAdded(s)
    \/ OnEditSaved(s) \/ OnTeamDeleted(s) \/ OnMembersSaved(s) \/ OnSaveRefused(s)
    \/ OnLate(s)

Click ==
    \/ OpenPage \/ LeavePage \/ CancelEdits \/ SaveChanges
    \/ \E n \in Names : SaveEdits(n) \/ SubmitNewTeam(n)
    \/ \E i \in DOMAIN list :
        \/ EditTeamData(i) \/ FetchMembers(i) \/ SelectTeamAgain(i) \/ SelectTeam(i)
        \/ \E c \in DOMAIN list : DeleteTeam(c, i)
    \/ \E u \in Users : \/ RemoveFromTeam(u) \/ UndoRemoveFromTeam(u)
                        \/ AddToTeam(u) \/ UndoAddToTeam(u)

Next ==
    \/ Click
    \/ \E s \in Slots : Serve(s) \/ Answer(s) \/ Lose(s)
    \/ \E t \in Teams : OthersDelete(t) \/ \E u \in Users : OthersMove(t, u)

Spec == Init /\ [][Next]_vars

-----------------------------------------------------------------------------
(* Properties.                                                             *)

\* The callback of a delete takes out a row by the position it had at the
\* click: it is still the row of the team that was deleted, unless two deletes
\* were on their way at once.
IndexStillTheirs ==
    \A s \in Alive : flight[s].op = "delete" /\ ~flight[s].met =>
        /\ flight[s].index \in DOMAIN list
        /\ list[flight[s].index].id = flight[s].team

\* With nobody else at work, no lost call and one request at a time, the list
\* shows each team of the table once, under its name.
ListIsTrue ==
    clean /\ loaded /\ Busy = {} =>
        /\ {list[i].id : i \in DOMAIN list} = rows
        /\ \A i, j \in DOMAIN list : list[i].id = list[j].id => i = j
        /\ \A i \in DOMAIN list : list[i].name = name[list[i].id]

\* And the numbers and names of members it shows are those of the table, but
\* for three copies that are never renewed: a row made on this page, a row saved
\* from an edit begun before the members changed, and the drop-down opened
\* before they changed.
MembersAreTrue ==
    clean /\ loaded /\ Busy = {} =>
        /\ \A i \in DOMAIN list :
            \/ list[i].count = Cardinality(staff[list[i].id])
            \/ list[i].fresh \/ list[i].id \in overtaken
        /\ menu.of \in rows /\ NoTeam \notin overtaken => menu.users = staff[menu.of]

\* And each employee can be moved on the member tab: a member of the team is
\* among the members or those to remove, anybody else among the others or those
\* to add, whatever was picked for the teams selected before.
NobodyHidden ==
    clean /\ Busy = {} /\ serviced \in rows =>
        \A u \in Users :
            IF u \in staff[serviced]
            THEN boxes["members"][u] + boxes["removes"][u] > 0
            ELSE boxes["others"][u] + boxes["adds"][u] > 0

\* The answer to a save empties the lists of picks: what was not moved after the
\* save was sent was part of it.
ClearedWereSent ==
    \A s \in Alive : flight[s].op = "save" /\ ~flight[s].late =>
        \A u \in Users : /\ boxes["adds"][u] <= flight[s].adds[u]
                         /\ boxes["removes"][u] <= flight[s].removes[u]

\* A page stays covered with nothing on its way only if it could not be loaded
\* or the edit of a row was refused, and never without a fault.
BlockedOnlyByFault ==
    overlay /\ Alive = {} => open /\ ~clean /\ (~loaded \/ edit # NoRow)

\* The button "Delete this team" of a row deletes the team of that row.
DeletesTheRow ==
    \A s \in Busy : flight[s].op = "delete" => flight[s].team = flight[s].clicked
=============================================================================
