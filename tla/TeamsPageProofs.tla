---------------------------- MODULE TeamsPageProofs ----------------------------
(***************************************************************************)
(* What is proved of the teams page for any employees, names, requests at  *)
(* once and budget.                                                        *)
(*                                                                         *)
(*   - TypeInv: the types, and that names of teams and of requests are     *)
(*     filled in when they are used;                                       *)
(*   - PageInv: what holds on any page, whatever crosses, is lost or comes *)
(*     late;                                                               *)
(*   - CleanInv: what holds on a page where nothing crossed: the list is   *)
(*     the table, but for the one request that is on its way;              *)
(*   - TabInv: and each employee can be moved on the member tab, or will   *)
(*     be once the answer is taken;                                        *)
(*   - CountInv: and the numbers and names of members are those of the     *)
(*     table, or will be, or are one of the copies that are not renewed.   *)
(***************************************************************************)
EXTENDS TeamsPage, FiniteSetTheorems, TLAPS

\* A request says what its handler and its callback take from it.
FilledIn(r) ==
    /\ r.op \in {"add", "edit"} => r.name \in Names
    /\ r.op = "add" /\ r.stage = "ok" => r.team \in Teams
    /\ r.op = "save" /\ r.stage = "ok" => r.name \in Names

TypeInv ==
    /\ TypeOK
    /\ \A t \in rows : name[t] \in Names
    /\ \A s \in Busy : FilledIn(flight[s])

\* The requests that cover the page and whose answer always uncovers it.
Covering == {"fetch", "select", "add", "delete"}

PageInv ==
    /\ overlay \/ loaded \/ Alive # {} => open
    /\ \A s \in Alive : flight[s].op = "load" => ~loaded /\ Alive = {s}
    /\ \A s, q \in Deletes : s # q => flight[s].met
    /\ overlay => \/ ~loaded \/ edit # NoRow
                  \/ \E s \in Alive : flight[s].op \in Covering
    /\ IndexStillTheirs /\ ClearedWereSent

\* The list L shows each team of R once, and under its name in N if it is not t.
Shows(L, R, N, t) ==
    /\ {L[i].id : i \in DOMAIN L} = R
    /\ \A i, j \in DOMAIN L : L[i].id = L[j].id => i = j
    /\ \A i \in DOMAIN L : L[i].id # t => L[i].name = N[L[i].id]

\* The request has not changed what the list shows.
Harmless(r) == r.op \in {"add", "edit", "delete"} => r.stage = "sent"

\* The list before the answer to r is taken.
Pending(r) ==
    /\ r.op \in {"load", "add", "edit", "delete"} => r.stage # "error"
    /\ r.op # "load" => loaded
    /\ r.op # "save" => overlay
    /\ r.op = "load" /\ r.stage = "ok" => Shows(r.listing, rows, name, NoTeam)
    /\ r.op = "add" /\ r.stage = "ok" =>
        /\ Shows(list, rows \ {r.team}, name, NoTeam)
        /\ r.team \in rows /\ r.name = name[r.team]
    /\ r.op = "edit" =>
        /\ edit.id = r.team /\ edit.name = r.name
        /\ r.stage = "sent" => r.team \in rows
        /\ r.stage = "ok" => Shows(list, rows, name, r.team) /\ r.name = name[r.team]
    /\ r.op = "delete" =>
        /\ r.index \in DOMAIN list /\ list[r.index].id = r.team
        /\ r.stage = "ok" => Shows(list, rows \cup {r.team}, name, r.team)
                             /\ r.team \notin rows
    /\ r.op = "save" /\ r.stage = "ok" => r.name = name[r.team]

Calm ==
    /\ \A s \in Busy : flight[s].here /\ Pending(flight[s])
    /\ \A s, q \in Busy : s = q
    /\ overlay => Busy # {}
    /\ loaded /\ (\A s \in Busy : Harmless(flight[s])) => Shows(list, rows, name, NoTeam)

CleanInv == open /\ clean => Calm

-----------------------------------------------------------------------------
(* The requests on their way.                                              *)

\* A request is not the sign of a free slot.
LEMMA RequestIsReal == \A r \in Requests : r # NoRequest
  BY DEF Requests, NoRequest, Ops

\* A busy slot holds a request, and makeHTTPHit's slots are the only ones.
LEMMA BusyIsRequest ==
  ASSUME TypeOK
  PROVE  /\ Busy = {s \in Slots : flight[s] \in Requests}
         /\ \A s \in Busy : s \in Slots /\ flight[s] \in Requests
         /\ Alive \subseteq Busy /\ Deletes \subseteq Alive
  BY RequestIsReal DEF TypeOK, Busy, Alive, Deletes

\* What an answer changes of a request leaves it a request.
LEMMA AnsweredIsRequest ==
  ASSUME NEW r \in Requests
  PROVE  /\ [r EXCEPT !.stage = "error"] \in Requests
         /\ [r EXCEPT !.stage = "ok"] \in Requests
         /\ \A x \in Seq(Rows) : [r EXCEPT !.stage = "ok", !.listing = x] \in Requests
         /\ \A x \in SUBSET Users : [r EXCEPT !.stage = "ok", !.users = x] \in Requests
         /\ \A x \in Teams : [r EXCEPT !.stage = "ok", !.team = x] \in Requests
         /\ \A x \in Names, y \in Nat :
                [r EXCEPT !.stage = "ok", !.name = x, !.count = y] \in Requests
         /\ Met(r) \in Requests /\ Met(r).here = r.here
         /\ Left(r) \in Requests /\ ~Left(r).here
         /\ Late(r) \in Requests /\ Late(r).here = r.here /\ Late(r).late
  BY DEF Requests, Met, Left, Late

\* A mark on a request leaves what it asks.
LEMMA MarkedIsSame ==
  ASSUME NEW r \in Requests, NEW x \in {Met(r), Left(r), Late(r)}
  PROVE  /\ x.op = r.op /\ x.stage = r.stage /\ x.team = r.team /\ x.name = r.name
         /\ x.index = r.index /\ x.adds = r.adds /\ x.removes = r.removes
         /\ x.listing = r.listing
  BY DEF Requests, Met, Left, Late

\* An answer stays in the slot of its request.
LEMMA ReplyFacts ==
  ASSUME TypeOK, NEW s \in Busy, NEW r \in Requests, Reply(s, r)
  PROVE  /\ flight' \in [Slots -> Requests \cup {NoRequest}]
         /\ Busy' = Busy /\ flight'[s] = r
         /\ \A q \in Slots : q # s => flight'[q] = flight[q]
  BY BusyIsRequest, RequestIsReal DEF TypeOK, Busy, Reply

\* An answer that has been taken frees its slot.
LEMMA DoneFacts ==
  ASSUME TypeOK, NEW s \in Busy, Done(s)
  PROVE  /\ flight' \in [Slots -> Requests \cup {NoRequest}]
         /\ Busy' = Busy \ {s} /\ Alive' = Alive \ {s}
         /\ \A q \in Slots : q # s => flight'[q] = flight[q]
         /\ spent' \in 0 .. Budget
  BY BusyIsRequest, RequestIsReal DEF TypeOK, Busy, Alive, Done

\* A request of this page takes a free slot; a delete meets the others.
LEMMA SendFacts ==
  ASSUME TypeOK, NEW r \in Requests, r.here, Send(r)
  PROVE  /\ flight' \in [Slots -> Requests \cup {NoRequest}]
         /\ spent' \in 0 .. Budget
         /\ \E s \in Slots \ Busy :
              /\ Busy' = Busy \cup {s} /\ Alive' = Alive \cup {s}
              /\ flight'[s] = IF r.op = "delete" /\ Deletes # {} THEN Met(r) ELSE r
              /\ \A q \in Busy :
                    flight'[q] = IF q \in Deletes /\ r.op = "delete"
                                 THEN Met(flight[q]) ELSE flight[q]
<1>1. spent' \in 0 .. Budget
  BY TeamsAssumption DEF TypeOK, Send, Spend
<1> DEFINE n == IF r.op = "delete" /\ Deletes # {} THEN Met(r) ELSE r
           m(q) == IF q \in Deletes /\ r.op = "delete" THEN Met(flight[q]) ELSE flight[q]
<1>2. PICK s \in Slots \ Busy : flight' = [q \in Slots |-> IF q = s THEN n ELSE m(q)]
  BY DEF Send
<1>3. n \in Requests /\ n.here
  BY AnsweredIsRequest
<1>4. /\ \A q \in Slots : m(q) \in Requests \cup {NoRequest}
      /\ \A q \in Busy : m(q) \in Requests /\ m(q).here = flight[q].here
      /\ \A q \in Slots \ Busy : m(q) = NoRequest
  BY BusyIsRequest, AnsweredIsRequest DEF TypeOK, Busy
<1> HIDE DEF n, m
<1>5. flight'[s] = n /\ \A q \in Slots : q # s => flight'[q] = m(q)
  BY <1>2
<1>6. flight' \in [Slots -> Requests \cup {NoRequest}]
  BY <1>2, <1>3, <1>4
<1>7. Busy' = Busy \cup {s}
  BY <1>3, <1>4, <1>5, RequestIsReal DEF Busy
<1>8. Alive' = Alive \cup {s}
  BY <1>3, <1>4, <1>5, <1>7 DEF Alive, Busy
<1> QED
  BY <1>1, <1>5, <1>6, <1>7, <1>8 DEF Busy, n, m

\* What the clicks put in their requests.
Named(r, n) == [r EXCEPT !.name = n]
OfRow(r, i, c) == [r EXCEPT !.index = i, !.clicked = c]
WithPicks(r, A, D) == [r EXCEPT !.adds = A, !.removes = D]

IsNew(r, op, t) ==
    r \in Requests /\ r.here /\ r.op = op /\ r.team = t /\ r.stage = "sent"

\* Every request a click makes is a request of this page.
LEMMA NewRequests ==
  ASSUME NEW op \in Ops, NEW t \in Teams \cup {NoTeam}
  PROVE  /\ IsNew(Request(op, t), op, t)
         /\ \A n \in Names : /\ IsNew(Named(Request(op, t), n), op, t)
                             /\ Named(Request(op, t), n).name = n
         /\ \A i \in Nat, c \in Teams : /\ IsNew(OfRow(Request(op, t), i, c), op, t)
                                        /\ OfRow(Request(op, t), i, c).index = i
         /\ \A A, D \in [Users -> 0 .. MaxCopies] :
                /\ IsNew(WithPicks(Request(op, t), A, D), op, t)
                /\ WithPicks(Request(op, t), A, D).adds = A
                /\ WithPicks(Request(op, t), A, D).removes = D
<1> DEFINE r == Request(op, t)
<1>1. None \in [Users -> 0 .. MaxCopies] /\ <<>> \in Seq(Rows)
  BY TeamsAssumption DEF None
<1>2. IsNew(r, op, t)
  BY <1>1 DEF Request, Requests, IsNew
<1> HIDE DEF r
<1>3. ASSUME NEW n \in Names
      PROVE  IsNew(Named(r, n), op, t) /\ Named(r, n).name = n
  BY <1>2 DEF Requests, IsNew, Named
<1>4. ASSUME NEW i \in Nat, NEW c \in Teams
      PROVE  IsNew(OfRow(r, i, c), op, t) /\ OfRow(r, i, c).index = i
  BY <1>2 DEF Requests, IsNew, OfRow
<1>5. ASSUME NEW A \in [Users -> 0 .. MaxCopies], NEW D \in [Users -> 0 .. MaxCopies]
      PROVE  /\ IsNew(WithPicks(r, A, D), op, t)
             /\ WithPicks(r, A, D).adds = A /\ WithPicks(r, A, D).removes = D
  BY <1>2 DEF Requests, IsNew, WithPicks
<1> QED
  BY <1>2, <1>3, <1>4, <1>5 DEF r

\* A page that is left forgets its requests, but not what they ask.
LEMMA CloseFacts ==
  ASSUME TypeOK, NEW done, Close(done)
  PROVE  /\ flight' \in [Slots -> Requests \cup {NoRequest}]
         /\ Alive' = {} /\ Busy' \subseteq Busy
         /\ \A s \in Busy' : flight'[s] = Left(flight[s])
         /\ ~open' /\ ~overlay' /\ ~loaded' /\ list' = <<>> /\ edit' = NoRow
<1> DEFINE m(q) == IF q \in Busy \ done THEN Left(flight[q]) ELSE NoRequest
<1>1. /\ \A q \in Slots : m(q) \in Requests \cup {NoRequest}
      /\ \A q \in Busy \ done : m(q) \in Requests /\ ~m(q).here
      /\ \A q \in Slots \ (Busy \ done) : m(q) = NoRequest
  BY BusyIsRequest, AnsweredIsRequest
<1>2. flight' = [q \in Slots |-> m(q)]
  BY DEF Close
<1> HIDE DEF m
<1>3. flight' \in [Slots -> Requests \cup {NoRequest}] /\ \A q \in Slots : flight'[q] = m(q)
  BY <1>1, <1>2
<1>4. Busy' = Busy \ done
  BY <1>1, <1>3, RequestIsReal DEF Busy
<1>5. Alive' = {}
  BY <1>1, <1>3, <1>4 DEF Alive, Busy
<1> QED
  BY <1>3, <1>4, <1>5 DEF Close, BlankPage, m, Busy

\* A pick only marks the saves that are on their way.
LEMMA MoveFacts ==
  ASSUME TypeOK, NEW u \in Users, NEW from \in Boxes, NEW to \in Boxes, from # to,
         Move(u, from, to)
  PROVE  /\ flight' \in [Slots -> Requests \cup {NoRequest}]
         /\ boxes' \in [Boxes -> [Users -> 0 .. MaxCopies]]
         /\ Busy' = Busy /\ Alive' = Alive
         /\ \A s \in Busy : flight'[s] = IF flight[s].op = "save"
                                         THEN Late(flight[s]) ELSE flight[s]
<1> DEFINE m(q) == IF q \in Busy /\ flight[q].op = "save"
                   THEN Late(flight[q]) ELSE flight[q]
<1>1. /\ \A q \in Slots : m(q) \in Requests \cup {NoRequest}
      /\ \A q \in Busy : m(q) \in Requests /\ m(q).here = flight[q].here
      /\ \A q \in Slots \ Busy : m(q) = NoRequest
  BY BusyIsRequest, AnsweredIsRequest DEF TypeOK, Busy
<1>2. flight' = [q \in Slots |-> m(q)]
  BY DEF Move
<1> HIDE DEF m
<1>3. flight' \in [Slots -> Requests \cup {NoRequest}] /\ \A q \in Slots : flight'[q] = m(q)
  BY <1>1, <1>2
<1>4. Busy' = Busy
  BY <1>1, <1>3, RequestIsReal DEF Busy
<1>5. Alive' = Alive
  BY <1>1, <1>3, <1>4 DEF Alive, Busy
<1>6. boxes' \in [Boxes -> [Users -> 0 .. MaxCopies]]
  <2>1. PICK k \in 1 .. boxes[from][u] :
          /\ boxes[to][u] + k <= MaxCopies
          /\ boxes' = [boxes EXCEPT ![from][u] = @ - k, ![to][u] = @ + k]
    BY DEF Move
  <2>2. boxes[from] \in [Users -> 0 .. MaxCopies] /\ boxes[to] \in [Users -> 0 .. MaxCopies]
    BY DEF TypeOK
  <2>3. boxes[from][u] - k \in 0 .. MaxCopies /\ boxes[to][u] + k \in 0 .. MaxCopies
    BY <2>1, <2>2, TeamsAssumption
  <2>4. boxes' = [boxes EXCEPT ![from] = [boxes[from] EXCEPT ![u] = @ - k],
                               ![to] = [boxes[to] EXCEPT ![u] = @ + k]]
    BY <2>1, <2>2 DEF TypeOK
  <2> QED
    BY <2>2, <2>3, <2>4 DEF TypeOK
<1> QED
  BY <1>3, <1>4, <1>5, <1>6 DEF m, Busy

-----------------------------------------------------------------------------
(* Types.                                                                  *)

\* A new request is filled in if the click fills it in.
LEMMA SendFilled ==
  ASSUME TypeInv, NEW r \in Requests, r.here, Send(r), FilledIn(r)
  PROVE  (\A s \in Busy : FilledIn(flight[s]))'
<1>1. PICK s \in Slots \ Busy :
        /\ Busy' = Busy \cup {s}
        /\ flight'[s] \in {r, Met(r)}
        /\ \A q \in Busy : flight'[q] \in {flight[q], Met(flight[q])}
  BY SendFacts DEF TypeInv
<1>2. \A q \in Requests : FilledIn(q) => FilledIn(Met(q))
  BY MarkedIsSame DEF FilledIn
<1> QED
  BY <1>1, <1>2, BusyIsRequest DEF TypeInv

\* What is taken off, or marked, stays filled in.
LEMMA RestFilled ==
  ASSUME TypeInv, Busy' \subseteq Busy,
         \A s \in Busy' : flight'[s] \in {flight[s], Left(flight[s]), Late(flight[s])}
  PROVE  (\A s \in Busy : FilledIn(flight[s]))'
<1>1. \A q \in Requests : FilledIn(q) => FilledIn(Left(q)) /\ FilledIn(Late(q))
  BY MarkedIsSame DEF FilledIn
<1> QED
  BY <1>1, BusyIsRequest DEF TypeInv

\* The server's answers are filled in, and are requests.
LEMMA ReplyTypes ==
  ASSUME TypeInv, NEW s \in Busy, NEW r \in Requests, Reply(s, r), FilledIn(r)
  PROVE  /\ flight' \in [Slots -> Requests \cup {NoRequest}]
         /\ (\A q \in Busy : FilledIn(flight[q]))'
<1>1. /\ flight' \in [Slots -> Requests \cup {NoRequest}]
      /\ Busy' = Busy /\ flight'[s] = r
      /\ \A q \in Slots : q # s => flight'[q] = flight[q]
  BY ReplyFacts DEF TypeInv
<1> QED
  BY <1>1, BusyIsRequest DEF TypeInv

\* The rows of the list.
LEMMA RowAt ==
  ASSUME TypeOK
  PROVE  /\ \A i \in DOMAIN list : i \in Nat /\ list[i] \in Rows /\ list[i].id \in Teams
         /\ edit.id \in Teams => edit \in Rows
         /\ edit # NoRow => edit \in Rows
<1>1. list \in Seq(Rows) /\ edit \in Rows \cup {NoRow}
  BY DEF TypeOK
<1>2. \A i \in DOMAIN list : i \in Nat /\ list[i] \in Rows
  BY <1>1
<1> QED
  BY <1>1, <1>2 DEF Rows, NoRow, NoTeam, Teams

\* The row of a team of the table is a row of the page.
LEMMA RowTypes ==
  ASSUME TypeInv
  PROVE  /\ \A S \in SUBSET Users : Cardinality(S) \in Nat
         /\ rows \subseteq Teams /\ \A t \in rows : RowOf(t) \in Rows
<1>1. \A S \in SUBSET Users : Cardinality(S) \in Nat
  BY TeamsAssumption, FS_Subset, FS_CardinalityType
<1>2. rows \subseteq Teams
  BY TeamsAssumption DEF TypeInv, TypeOK, Teams
<1> QED
  BY <1>1, <1>2 DEF TypeInv, TypeOK, RowOf, Rows

LEMMA TypeInvInit == Init => TypeInv
<1> SUFFICES ASSUME Init PROVE TypeInv
  OBVIOUS
<1>1. Busy = {}
  BY DEF Init, Busy
<1>2. \A t \in rows : name[t] \in Names
  BY TeamsAssumption DEF Init, Teams
<1>3. /\ made \in Teams /\ rows \subseteq 1 .. made
      /\ spent \in 0 .. Budget
  BY TeamsAssumption DEF Init, Teams
<1>4. boxes \in [Boxes -> [Users -> 0 .. MaxCopies]]
  BY TeamsAssumption DEF Init, None
<1>5. list \in Seq(Rows)
  BY DEF Init
<1> QED
  BY <1>1, <1>2, <1>3, <1>4, <1>5 DEF Init, TypeInv, TypeOK

\* The clicks that make a request.
LEMMA SendTypes ==
  ASSUME TypeInv
  PROVE  /\ OpenPage => TypeInv'
         /\ \A n \in Names : SaveEdits(n) => TypeInv'
         /\ \A n \in Names : SubmitNewTeam(n) => TypeInv'
         /\ \A i, c \in DOMAIN list : DeleteTeam(c, i) => TypeInv'
         /\ \A i \in DOMAIN list : FetchMembers(i) => TypeInv'
         /\ \A i \in DOMAIN list : SelectTeam(i) => TypeInv'
         /\ SaveChanges => TypeInv'
<1> USE DEF TypeInv
<1>1. ASSUME OpenPage PROVE TypeInv'
  <2>1. /\ Request("load", NoTeam) \in Requests /\ FilledIn(Request("load", NoTeam))
        /\ Request("load", NoTeam).here
    BY NewRequests DEF FilledIn, Ops, IsNew
  <2>2. /\ flight' \in [Slots -> Requests \cup {NoRequest}] /\ spent' \in 0 .. Budget
        /\ (\A s \in Busy : FilledIn(flight[s]))'
    BY <1>1, <2>1, SendFacts, SendFilled DEF OpenPage
  <2> QED
    BY <1>1, <2>2 DEF OpenPage, TypeOK, server, tab
<1>2. ASSUME NEW n \in Names, SaveEdits(n) PROVE TypeInv'
  <2> DEFINE r == Named(Request("edit", edit.id), n)
  <2>1. edit \in Rows
    BY <1>2, RowAt DEF SaveEdits
  <2>2. r \in Requests /\ FilledIn(r) /\ r.here
    BY <2>1, NewRequests DEF FilledIn, Ops, IsNew, Rows
  <2>3. Send(r)
    BY <1>2 DEF SaveEdits, Named
  <2> HIDE DEF r
  <2>4. /\ flight' \in [Slots -> Requests \cup {NoRequest}] /\ spent' \in 0 .. Budget
        /\ (\A s \in Busy : FilledIn(flight[s]))'
    BY <2>2, <2>3, SendFacts, SendFilled
  <2>5. edit' \in Rows
    BY <1>2, <2>1 DEF SaveEdits, Rows
  <2> QED
    BY <1>2, <2>4, <2>5 DEF SaveEdits, TypeOK, server, view, tab, Crosses
<1>3. ASSUME NEW n \in Names, SubmitNewTeam(n) PROVE TypeInv'
  <2> DEFINE r == Named(Request("add", NoTeam), n)
  <2>1. r \in Requests /\ FilledIn(r) /\ r.here
    BY NewRequests DEF FilledIn, Ops, IsNew
  <2>2. Send(r)
    BY <1>3 DEF SubmitNewTeam, Named
  <2> HIDE DEF r
  <2>3. /\ flight' \in [Slots -> Requests \cup {NoRequest}] /\ spent' \in 0 .. Budget
        /\ (\A s \in Busy : FilledIn(flight[s]))'
    BY <2>1, <2>2, SendFacts, SendFilled
  <2> QED
    BY <1>3, <2>3 DEF SubmitNewTeam, TypeOK, server, view, tab, Crosses
<1>4. ASSUME NEW i \in DOMAIN list, NEW c \in DOMAIN list, DeleteTeam(c, i) PROVE TypeInv'
  <2> DEFINE r == OfRow(Request("delete", list[i].id), i, list[c].id)
  <2>1. i \in Nat /\ list[i].id \in Teams /\ list[c].id \in Teams
    BY RowAt
  <2>2. r \in Requests /\ FilledIn(r) /\ r.here
    BY <2>1, NewRequests DEF FilledIn, Ops, IsNew
  <2>3. Send(r)
    BY <1>4 DEF DeleteTeam, OfRow
  <2> HIDE DEF r
  <2>4. /\ flight' \in [Slots -> Requests \cup {NoRequest}] /\ spent' \in 0 .. Budget
        /\ (\A s \in Busy : FilledIn(flight[s]))'
    BY <2>2, <2>3, SendFacts, SendFilled
  <2> QED
    BY <1>4, <2>4 DEF DeleteTeam, TypeOK, server, view, tab, Crosses
<1>5. ASSUME NEW i \in DOMAIN list, FetchMembers(i) PROVE TypeInv'
  <2> DEFINE r == Request("fetch", list[i].id)
  <2>1. list[i].id \in Teams
    BY RowAt
  <2>2. r \in Requests /\ FilledIn(r) /\ r.here
    BY <2>1, NewRequests DEF FilledIn, Ops, IsNew
  <2>3. Send(r)
    BY <1>5 DEF FetchMembers
  <2> HIDE DEF r
  <2>4. /\ flight' \in [Slots -> Requests \cup {NoRequest}] /\ spent' \in 0 .. Budget
        /\ (\A s \in Busy : FilledIn(flight[s]))'
    BY <2>2, <2>3, SendFacts, SendFilled
  <2> QED
    BY <1>5, <2>1, <2>4 DEF FetchMembers, TypeOK, server, view, tab
<1>6. ASSUME NEW i \in DOMAIN list, SelectTeam(i) PROVE TypeInv'
  <2> DEFINE r == Request("select", list[i].id)
  <2>1. list[i].id \in Teams
    BY RowAt
  <2>2. r \in Requests /\ FilledIn(r) /\ r.here
    BY <2>1, NewRequests DEF FilledIn, Ops, IsNew
  <2>3. Send(r)
    BY <1>6 DEF SelectTeam
  <2> HIDE DEF r
  <2>4. /\ flight' \in [Slots -> Requests \cup {NoRequest}] /\ spent' \in 0 .. Budget
        /\ (\A s \in Busy : FilledIn(flight[s]))'
    BY <2>2, <2>3, SendFacts, SendFilled
  <2>5. None \in [Users -> 0 .. MaxCopies]
    BY TeamsAssumption DEF None
  <2>6. boxes' \in [Boxes -> [Users -> 0 .. MaxCopies]]
    BY <1>6, <2>5 DEF SelectTeam, TypeOK
  <2> QED
    BY <1>6, <2>1, <2>4, <2>6 DEF SelectTeam, TypeOK, server, view, Crosses
<1>7. ASSUME SaveChanges PROVE TypeInv'
  <2> DEFINE r == WithPicks(Request("save", selected), boxes["adds"], RemovesSent)
  <2>1. /\ boxes["adds"] \in [Users -> 0 .. MaxCopies]
        /\ RemovesSent \in [Users -> 0 .. MaxCopies]
        /\ selected \in Teams \cup {NoTeam}
    BY DEF TypeOK, Boxes, RemovesSent
  <2>2. IsNew(r, "save", selected)
    BY <2>1, NewRequests DEF Ops
  <2>3. Send(r)
    BY <1>7 DEF SaveChanges, WithPicks
  <2> HIDE DEF r
  <2>4. /\ flight' \in [Slots -> Requests \cup {NoRequest}] /\ spent' \in 0 .. Budget
        /\ (\A s \in Busy : FilledIn(flight[s]))'
    BY <2>2, <2>3, SendFacts, SendFilled DEF IsNew, FilledIn
  <2> QED
    BY <1>7, <2>4 DEF SaveChanges, TypeOK, server, view, tab, Crosses
<1> QED
  BY <1>1, <1>2, <1>3, <1>4, <1>5, <1>6, <1>7

\* The other clicks.
LEMMA ClickTypes ==
  ASSUME TypeInv
  PROVE  /\ \A done : Close(done) => TypeInv'
         /\ \A i \in DOMAIN list : EditTeamData(i) => TypeInv'
         /\ CancelEdits => TypeInv'
         /\ \A i \in DOMAIN list : SelectTeamAgain(i) => TypeInv'
         /\ \A u \in Users, from, to \in Boxes :
                from # to /\ Move(u, from, to) => TypeInv'
<1> USE DEF TypeInv
<1>1. ASSUME NEW done, Close(done) PROVE TypeInv'
  <2>1. None \in [Users -> 0 .. MaxCopies] /\ <<>> \in Seq(Rows)
    BY TeamsAssumption DEF None
  <2>2. /\ flight' \in [Slots -> Requests \cup {NoRequest}]
        /\ (\A s \in Busy : FilledIn(flight[s]))'
    BY <1>1, CloseFacts, RestFilled
  <2> QED
    BY <1>1, <2>1, <2>2 DEF Close, BlankPage, TypeOK, server, excuse
<1>2. ASSUME NEW i \in DOMAIN list, EditTeamData(i) PROVE TypeInv'
  <2>1. list[i] \in Rows
    BY DEF TypeOK
  <2> QED
    BY <1>2, <2>1 DEF EditTeamData, TypeOK, server, view, tab, excuse, Busy
<1>3. ASSUME CancelEdits PROVE TypeInv'
  BY <1>3 DEF CancelEdits, TypeOK, server, view, tab, excuse, Busy
<1>4. ASSUME NEW i \in DOMAIN list, SelectTeamAgain(i) PROVE TypeInv'
  <2>1. list[i].id \in Teams
    BY RowAt
  <2> QED
    BY <1>4, <2>1 DEF SelectTeamAgain, TypeOK, server, view, excuse, Busy
<1>5. ASSUME NEW u \in Users, NEW from \in Boxes, NEW to \in Boxes,
             from # to, Move(u, from, to)
      PROVE TypeInv'
  <2>1. /\ flight' \in [Slots -> Requests \cup {NoRequest}]
        /\ boxes' \in [Boxes -> [Users -> 0 .. MaxCopies]]
        /\ (\A s \in Busy : FilledIn(flight[s]))'
    BY <1>5, MoveFacts, RestFilled
  <2> QED
    BY <1>5, <2>1 DEF Move, TypeOK, server, view, excuse
<1> QED
  BY <1>1, <1>2, <1>3, <1>4, <1>5

\* The server.
LEMMA ServeTypes ==
  ASSUME TypeInv, NEW s \in Slots
  PROVE  Serve(s) => TypeInv'
<1> SUFFICES ASSUME Serve(s) PROVE TypeInv'
  OBVIOUS
<1> USE DEF TypeInv
<1> DEFINE r == flight[s]
<1>1. s \in Busy /\ r \in Requests
  BY BusyIsRequest DEF Serve, GetTeams, GetTeamMembers, AddTeam, UpdateTeam, ServeDelete,
                       UpdateTeamMembers, Sent
<1>2. FilledIn(r)
  BY <1>1
<1>3. UNCHANGED <<view, overlay, list, edit, tab, menu, spent, excuse>>
  BY DEF Serve
<1>4. ASSUME NEW q \in Requests, Reply(s, q), FilledIn(q), UNCHANGED server PROVE TypeInv'
  <2>1. /\ flight' \in [Slots -> Requests \cup {NoRequest}]
        /\ (\A p \in Busy : FilledIn(flight[p]))'
    BY <1>1, <1>4, ReplyTypes
  <2> QED
    BY <1>3, <1>4, <2>1 DEF TypeOK, server, view, tab, excuse
<1>5. /\ [r EXCEPT !.stage = "error"] \in Requests /\ FilledIn([r EXCEPT !.stage = "error"])
      /\ [r EXCEPT !.stage = "ok"] \in Requests
      /\ r.op \notin {"add", "save"} => FilledIn([r EXCEPT !.stage = "ok"])
  BY <1>1, <1>2 DEF FilledIn, Requests
<1>6. Refuse(s) => TypeInv'
  BY <1>4, <1>5 DEF Refuse
<1>7. CASE GetTeams(s)
  <2>1. PICK f \in Listings(rows) :
          Reply(s, [r EXCEPT !.stage = "ok", !.listing = [i \in DOMAIN f |-> RowOf(f[i])]])
    BY <1>7 DEF GetTeams
  <2> DEFINE L == [i \in DOMAIN f |-> RowOf(f[i])]
  <2>2. Cardinality(rows) \in Nat
    <3>1. rows \subseteq 1 .. made /\ made \in Int
      BY DEF TypeOK, Teams
    <3>2. IsFiniteSet(1 .. made)
      BY <3>1, FS_Interval
    <3> QED
      BY <3>1, <3>2, FS_Subset, FS_CardinalityType
  <2>3. f \in [1 .. Cardinality(rows) -> rows]
    BY DEF Listings
  <2>4. L \in [1 .. Cardinality(rows) -> Rows]
    BY <2>3, RowTypes
  <2>5. L \in Seq(Rows)
    BY <2>2, <2>4
  <2> HIDE DEF L
  <2> DEFINE q == [r EXCEPT !.stage = "ok", !.listing = L]
  <2>6. q \in Requests /\ FilledIn(q)
    <3>1. r.op = "load"
      BY <1>7 DEF GetTeams, Sent
    <3> QED
      BY <1>1, <2>5, <3>1 DEF FilledIn, Requests
  <2>7. Reply(s, q)
    BY <2>1 DEF L
  <2> QED
    BY <1>4, <1>7, <2>6, <2>7 DEF GetTeams
<1>8. CASE GetTeamMembers(s)
  <2> DEFINE q == [r EXCEPT !.stage = "ok", !.users = staff[r.team]]
  <2>1. ASSUME r.team \in rows PROVE TypeInv'
    <3>1. staff[r.team] \in SUBSET Users
      BY <2>1, RowTypes DEF TypeOK
    <3>2. q \in Requests /\ FilledIn(q)
      <4>1. r.op \in {"fetch", "select"}
        BY <1>8 DEF GetTeamMembers, Sent
      <4> QED
        BY <1>1, <3>1, <4>1 DEF FilledIn, Requests
    <3>3. Reply(s, q) /\ UNCHANGED server
      BY <1>8, <2>1 DEF GetTeamMembers
    <3> QED
      BY <1>4, <3>2, <3>3
  <2> QED
    BY <1>6, <1>8, <2>1 DEF GetTeamMembers
<1>9. CASE AddTeam(s)
  <2> DEFINE q == [r EXCEPT !.stage = "ok", !.team = made + 1]
  <2>1. made + 1 \in Teams /\ made \in Nat
    BY <1>9, TeamsAssumption DEF AddTeam, TypeOK, Teams
  <2>2. q \in Requests /\ FilledIn(q)
    <3>1. r.op = "add"
      BY <1>9 DEF AddTeam, Sent
    <3> QED
      BY <1>1, <1>2, <2>1, <3>1 DEF FilledIn, Requests
  <2>3. Reply(s, q)
    BY <1>9 DEF AddTeam
  <2>4. /\ flight' \in [Slots -> Requests \cup {NoRequest}]
        /\ (\A p \in Busy : FilledIn(flight[p]))'
    BY <1>1, <2>2, <2>3, ReplyTypes
  <2>5. r.name \in Names
    BY <1>2, <1>9 DEF AddTeam, Sent, FilledIn
  <2>6. made' \in Teams /\ rows' \subseteq 1 .. made'
    BY <1>9, <2>1 DEF AddTeam, TypeOK
  <2>7. name' \in [Teams -> Names \cup {NoName}] /\ \A t \in rows' : name'[t] \in Names
    BY <1>9, <2>1, <2>5, RowTypes DEF AddTeam, TypeOK
  <2> QED
    BY <1>3, <1>9, <2>4, <2>6, <2>7 DEF AddTeam, TypeOK, view, tab, excuse
<1>10. CASE UpdateTeam(s)
  <2> DEFINE q == [r EXCEPT !.stage = "ok"]
  <2>1. ASSUME r.team \in rows PROVE TypeInv'
    <3>1. Reply(s, q) /\ UNCHANGED <<rows, made, staff>>
      BY <1>10, <2>1 DEF UpdateTeam
    <3>2. q \in Requests /\ FilledIn(q) /\ r.name \in Names
      BY <1>2, <1>5, <1>10 DEF FilledIn, UpdateTeam, Sent
    <3>3. /\ flight' \in [Slots -> Requests \cup {NoRequest}]
          /\ (\A p \in Busy : FilledIn(flight[p]))'
      BY <1>1, <3>1, <3>2, ReplyTypes
    <3>4. name' \in [Teams -> Names \cup {NoName}] /\ \A t \in rows' : name'[t] \in Names
      BY <1>10, <2>1, <3>1, <3>2, RowTypes DEF UpdateTeam, TypeOK
    <3> QED
      BY <1>3, <3>1, <3>3, <3>4 DEF TypeOK, view, tab, excuse
  <2> QED
    BY <1>6, <1>10, <2>1 DEF UpdateTeam
<1>11. CASE ServeDelete(s)
  <2> DEFINE q == [r EXCEPT !.stage = "ok"]
  <2>1. ASSUME r.team \in rows PROVE TypeInv'
    <3>1. Reply(s, q) /\ RemoveTeam(r.team)
      BY <1>11, <2>1 DEF ServeDelete
    <3>2. q \in Requests /\ FilledIn(q)
      BY <1>2, <1>5, <1>11 DEF ServeDelete, Sent
    <3>3. /\ flight' \in [Slots -> Requests \cup {NoRequest}]
          /\ (\A p \in Busy : FilledIn(flight[p]))'
      BY <1>1, <3>1, <3>2, ReplyTypes
    <3> QED
      BY <1>3, <3>1, <3>3 DEF RemoveTeam, TypeOK, view, tab, excuse
  <2> QED
    BY <1>6, <1>11, <2>1 DEF ServeDelete
<1>12. CASE UpdateTeamMembers(s)
  <2> DEFINE q == [r EXCEPT !.stage = "ok", !.name = name[r.team],
                            !.count = Cardinality(StaffAfter(r))]
  <2>1. ASSUME r.team \in rows, Unambiguous(r) PROVE TypeInv'
    <3>1. StaffAfter(r) \in SUBSET Users
      BY <2>1, RowTypes DEF StaffAfter, TypeOK
    <3>2. Cardinality(StaffAfter(r)) \in Nat /\ name[r.team] \in Names
      BY <2>1, <3>1, RowTypes
    <3>3. q \in Requests /\ FilledIn(q)
      <4>1. r.op = "save"
        BY <1>12 DEF UpdateTeamMembers, Sent
      <4> QED
        BY <1>1, <3>2, <4>1 DEF FilledIn, Requests
    <3>4. Reply(s, q) /\ UNCHANGED <<rows, made, name>>
          /\ staff' = [staff EXCEPT ![r.team] = StaffAfter(r)]
      BY <1>12, <2>1 DEF UpdateTeamMembers
    <3>5. /\ flight' \in [Slots -> Requests \cup {NoRequest}]
          /\ (\A p \in Busy : FilledIn(flight[p]))'
      BY <1>1, <3>3, <3>4, ReplyTypes
    <3> QED
      BY <1>3, <3>1, <3>4, <3>5 DEF TypeOK, view, tab, excuse
  <2> QED
    BY <1>6, <1>12, <2>1 DEF UpdateTeamMembers
<1> QED
  BY <1>7, <1>8, <1>9, <1>10, <1>11, <1>12 DEF Serve

\* The faults.
LEMMA FaultTypes ==
  ASSUME TypeInv
  PROVE  /\ \A s \in Slots : Lose(s) => TypeInv'
         /\ \A t \in Teams : OthersDelete(t) => TypeInv'
         /\ \A t \in Teams, u \in Users : OthersMove(t, u) => TypeInv'
<1> USE DEF TypeInv
<1>1. Fault => spent' \in 0 .. Budget
  BY TeamsAssumption DEF Fault, Spend, TypeOK
<1>2. ASSUME NEW s \in Slots, Lose(s) PROVE TypeInv'
  <2> DEFINE q == [flight[s] EXCEPT !.stage = "error"]
  <2>1. s \in Busy /\ flight[s] \in Requests /\ FilledIn(flight[s])
    BY <1>2, BusyIsRequest DEF Lose
  <2>2. q \in Requests /\ FilledIn(q)
    BY <2>1 DEF Requests, FilledIn
  <2>3. Reply(s, q) /\ UNCHANGED server
    BY <1>2 DEF Lose, Refuse
  <2> HIDE DEF q
  <2>4. /\ flight' \in [Slots -> Requests \cup {NoRequest}]
        /\ (\A p \in Busy : FilledIn(flight[p]))'
    BY <2>1, <2>2, <2>3, ReplyTypes
  <2> QED
    BY <1>1, <1>2, <2>3, <2>4 DEF Lose, Fault, TypeOK, server, view, tab
<1>3. ASSUME NEW t \in Teams, OthersDelete(t) PROVE TypeInv'
  BY <1>1, <1>3 DEF OthersDelete, Fault, RemoveTeam, TypeOK, view, tab, Busy
<1>4. ASSUME NEW t \in Teams, NEW u \in Users, OthersMove(t, u) PROVE TypeInv'
  BY <1>1, <1>4 DEF OthersMove, Fault, TypeOK, view, tab, Busy
<1> QED
  BY <1>2, <1>3, <1>4

\* Rows that are put in the list.
LEMMA WithoutTypes ==
  ASSUME NEW L \in Seq(Rows), NEW k \in Nat
  PROVE  Without(L, k) \in Seq(Rows)
<1>1. CASE Len(L) = 0
  <2>1. Without(L, k) = <<>>
    BY <1>1 DEF Without
  <2> QED
    BY <2>1
<1>2. CASE Len(L) # 0
  <2>1. Len(L) - 1 \in Nat
    BY <1>2
  <2>2. Without(L, k) \in [1 .. Len(L) - 1 -> Rows]
    BY <2>1 DEF Without
  <2> QED
    BY <2>1, <2>2
<1> QED
  BY <1>1, <1>2

\* The callbacks.
LEMMA AnswerTypes ==
  ASSUME TypeInv, NEW s \in Slots
  PROVE  Answer(s) => TypeInv'
<1> SUFFICES ASSUME Answer(s) PROVE TypeInv'
  OBVIOUS
<1> USE DEF TypeInv
<1>1. s \in Busy /\ flight[s] \in Requests /\ FilledIn(flight[s])
  BY BusyIsRequest
     DEF Answer, OnLoad, OnMembersFetched, OnTeamSelected, OnTeamAdded, OnEditSaved,
         OnTeamDeleted, OnMembersSaved, OnSaveRefused, OnLate, Answered, Alive
<1>2. Done(s) => /\ flight' \in [Slots -> Requests \cup {NoRequest}]
                 /\ (\A p \in Busy : FilledIn(flight[p]))'
                 /\ spent' \in 0 .. Budget
  BY <1>1, DoneFacts, BusyIsRequest
<1>3. Close({s}) => TypeInv'
  BY ClickTypes
<1>4. CASE OnLoad(s)
  <2>1. flight[s].listing \in Seq(Rows)
    BY <1>1 DEF Requests
  <2> QED
    BY <1>2, <1>4, <2>1 DEF OnLoad, Uncover, TypeOK, server, tab, excuse
<1>5. CASE OnMembersFetched(s)
  <2>1. flight[s].users \in SUBSET Users
    BY <1>1 DEF Requests
  <2> QED
    BY <1>2, <1>5, <2>1 DEF OnMembersFetched, Uncover, TypeOK, server, view, tab, excuse
<1>6. CASE OnTeamSelected(s)
  <2>1. \A S \in SUBSET Users : Copies(S) \in [Users -> 0 .. MaxCopies]
    BY TeamsAssumption DEF Copies
  <2>2. flight[s].users \in SUBSET Users
    BY <1>1 DEF Requests
  <2>3. boxes' \in [Boxes -> [Users -> 0 .. MaxCopies]]
    BY <1>6, <2>1, <2>2 DEF OnTeamSelected, TypeOK
  <2> QED
    BY <1>2, <1>6, <2>3 DEF OnTeamSelected, Uncover, TypeOK, server, view, excuse
<1>7. CASE OnTeamAdded(s)
  <2>1. Succeeded(s) => \A n \in Names : NewRow(flight[s], n) \in Rows
    BY <1>1, <1>7 DEF OnTeamAdded, Answered, Succeeded, FilledIn, NewRow, Rows
  <2>2. list' \in Seq(Rows)
    BY <1>7, <2>1 DEF OnTeamAdded, TypeOK
  <2> QED
    BY <1>2, <1>7, <2>2 DEF OnTeamAdded, Uncover, TypeOK, server, view, tab, excuse
<1>8. CASE OnEditSaved(s)
  <2>1. UNCHANGED <<server, view, tab, menu, clean>> /\ Done(s)
    BY <1>8 DEF OnEditSaved
  <2>2. overlay' \in BOOLEAN
    BY <1>8 DEF OnEditSaved, Uncover, TypeOK
  <2>3. CASE UNCHANGED <<list, edit, overtaken>>
    BY <1>2, <2>1, <2>2, <2>3 DEF TypeOK, server, view, tab
  <2>4. ASSUME NEW i \in DOMAIN list, list[i].id = edit.id,
               list' = [list EXCEPT ![i] = edit], edit' = NoRow,
               overtaken' = IF edit.count # list[i].count
                            THEN overtaken \cup {edit.id} ELSE overtaken
        PROVE TypeInv'
    <3>1. edit \in Rows /\ edit.id \in Teams
      BY <2>4, RowAt
    <3>2. list' \in Seq(Rows)
      BY <2>4, <3>1 DEF TypeOK
    <3> QED
      BY <1>2, <2>1, <2>2, <2>4, <3>1, <3>2 DEF TypeOK, server, view, tab
  <2> QED
    BY <1>8, <2>3, <2>4 DEF OnEditSaved
<1>9. CASE OnTeamDeleted(s)
  <2>1. flight[s].index \in Nat
    BY <1>1 DEF Requests
  <2>2. list' \in Seq(Rows)
    <3>1. list \in Seq(Rows)
      BY DEF TypeOK
    <3> QED
      BY <1>9, <2>1, <3>1, WithoutTypes DEF OnTeamDeleted
  <2> QED
    BY <1>2, <1>9, <2>2 DEF OnTeamDeleted, Uncover, TypeOK, server, view, tab, excuse
<1>10. CASE OnMembersSaved(s)
  <2>1. flight[s].name \in Names /\ flight[s].count \in Nat /\ flight[s].team \in Teams \cup {NoTeam}
    BY <1>1, <1>10 DEF OnMembersSaved, Answered, Succeeded, FilledIn, Requests
  <2>2. \A q \in Rows : Renewed(q, flight[s]) \in Rows
    BY <2>1 DEF Renewed, Rows
  <2>3. list' \in Seq(Rows)
    <3>1. Len(list) \in Nat /\ DOMAIN list = 1 .. Len(list)
          /\ \A i \in DOMAIN list : list[i] \in Rows
      BY DEF TypeOK
    <3>2. list' \in [1 .. Len(list) -> Rows]
      BY <1>10, <2>2, <3>1 DEF OnMembersSaved
    <3> QED
      BY <3>1, <3>2
  <2>4. boxes' \in [Boxes -> [Users -> 0 .. MaxCopies]]
    <3>1. None \in [Users -> 0 .. MaxCopies] /\ Copies(Users) \in [Users -> 0 .. MaxCopies]
      BY TeamsAssumption DEF None, Copies
    <3> QED
      BY <1>10, <3>1 DEF OnMembersSaved
  <2>5. overtaken' \subseteq Teams \cup {NoTeam}
    BY <1>10 DEF OnMembersSaved, TypeOK
  <2> QED
    BY <1>2, <1>10, <2>3, <2>4, <2>5 DEF OnMembersSaved, Uncover, TypeOK, server, view
<1>11. CASE OnSaveRefused(s)
  BY <1>3, <1>11 DEF OnSaveRefused
<1>12. CASE OnLate(s)
  <2>1. CASE Close({s})
    BY <1>3, <2>1
  <2>2. CASE /\ Done(s)
             /\ overlay' \in {overlay, FALSE}
             /\ UNCHANGED <<server, view, list, edit, tab, menu, excuse>>
    BY <1>2, <2>2 DEF TypeOK, server, view, tab, excuse
  <2> QED
    BY <1>12, <2>1, <2>2 DEF OnLate
<1> QED
  BY <1>4, <1>5, <1>6, <1>7, <1>8, <1>9, <1>10, <1>11, <1>12 DEF Answer

LEMMA TypeInvStep == TypeInv /\ [Next]_vars => TypeInv'
<1> SUFFICES ASSUME TypeInv, [Next]_vars PROVE TypeInv'
  OBVIOUS
<1>1. CASE Click
  BY <1>1, SendTypes, ClickTypes
     DEF Click, LeavePage, RemoveFromTeam, UndoRemoveFromTeam, AddToTeam, UndoAddToTeam, Boxes
<1>2. CASE \E s \in Slots : Serve(s) \/ Answer(s) \/ Lose(s)
  BY <1>2, ServeTypes, AnswerTypes, FaultTypes
<1>3. CASE \E t \in Teams : OthersDelete(t) \/ \E u \in Users : OthersMove(t, u)
  BY <1>3, FaultTypes
<1>4. CASE UNCHANGED vars
  BY <1>4 DEF TypeInv, TypeOK, Busy, vars, server, view, tab, excuse
<1> QED
  BY <1>1, <1>2, <1>3, <1>4 DEF Next

\* Every variable of the server and the page keeps its type.
THEOREM TeamTypes == Spec => []TypeOK
<1>1. Spec => []TypeInv
  BY TypeInvInit, TypeInvStep, PTL DEF Spec
<1> QED
  BY <1>1, PTL DEF TypeInv

-----------------------------------------------------------------------------
(* Any page.                                                               *)

LEMMA PageInvInit == Init => PageInv
  BY DEF Init, PageInv, Busy, Alive, Deletes, IndexStillTheirs, ClearedWereSent

\* A click that makes a request.
LEMMA SendPage ==
  ASSUME TypeInv, PageInv, NEW r \in Requests, NEW t, IsNew(r, r.op, t), Send(r),
         open', loaded' = loaded, list' = list,
         boxes'["adds"] = boxes["adds"], boxes'["removes"] = boxes["removes"],
         IF r.op = "load" THEN Alive = {} /\ ~loaded ELSE loaded,
         r.op = "delete" => r.index \in DOMAIN list /\ list[r.index].id = r.team,
         r.op = "save" => r.adds = boxes["adds"] /\ r.removes = boxes["removes"],
         overlay' => ~loaded' \/ edit' # NoRow \/ r.op \in Covering
  PROVE  PageInv'
<1>1. PICK s \in Slots \ Busy :
        /\ Busy' = Busy \cup {s} /\ Alive' = Alive \cup {s}
        /\ flight'[s] = IF r.op = "delete" /\ Deletes # {} THEN Met(r) ELSE r
        /\ \A q \in Busy : flight'[q] = IF q \in Deletes /\ r.op = "delete"
                                        THEN Met(flight[q]) ELSE flight[q]
  BY SendFacts DEF TypeInv, IsNew
<1>2. Alive \subseteq Busy /\ Deletes \subseteq Alive
      /\ \A q \in Busy : flight[q] \in Requests
  BY BusyIsRequest DEF TypeInv
<1>3. \A x \in Requests :
        /\ Met(x).op = x.op /\ Met(x).team = x.team /\ Met(x).index = x.index
        /\ Met(x).adds = x.adds /\ Met(x).removes = x.removes
        /\ Met(x).met /\ Met(x).late = x.late
  BY DEF Met, Requests
<1>4. flight'[s].op = r.op /\ \A q \in Busy : flight'[q].op = flight[q].op
  BY <1>1, <1>2, <1>3
<1>5. (overlay \/ loaded \/ Alive # {} => open)'
  OBVIOUS
<1>6. (\A q \in Alive : flight[q].op = "load" => ~loaded /\ Alive = {q})'
  BY <1>1, <1>2, <1>4 DEF PageInv
<1>7. Deletes' = IF r.op = "delete" THEN Deletes \cup {s} ELSE Deletes
  BY <1>1, <1>2, <1>4 DEF Deletes
<1>8. (\A p, q \in Deletes : p # q => flight[p].met)'
  BY <1>1, <1>2, <1>3, <1>7 DEF PageInv
<1>9. (overlay => \/ ~loaded \/ edit # NoRow
                  \/ \E q \in Alive : flight[q].op \in Covering)'
  BY <1>1, <1>4
<1>10. IndexStillTheirs'
  BY <1>1, <1>2, <1>3, <1>4 DEF PageInv, IndexStillTheirs, Deletes
<1>11. ClearedWereSent'
  <2>1. \A u \in Users : /\ boxes["adds"][u] <= boxes["adds"][u]
                         /\ boxes["removes"][u] <= boxes["removes"][u]
    <3>1. boxes["adds"] \in [Users -> 0 .. MaxCopies] /\ boxes["removes"] \in [Users -> 0 .. MaxCopies]
      BY DEF TypeInv, TypeOK, Boxes
    <3> QED
      BY <3>1, TeamsAssumption
  <2>2. ASSUME NEW q \in Alive', (flight[q].op = "save" /\ ~flight[q].late)', NEW u \in Users
        PROVE  /\ boxes'["adds"][u] <= flight'[q].adds[u]
               /\ boxes'["removes"][u] <= flight'[q].removes[u]
    <3>1. CASE q = s
      BY <1>1, <1>3, <1>4, <2>1, <2>2, <3>1
    <3>2. CASE q # s
      BY <1>1, <1>2, <1>3, <1>4, <2>2, <3>2 DEF PageInv, ClearedWereSent
    <3> QED
      BY <3>1, <3>2
  <2> QED
    BY <2>2 DEF ClearedWereSent
<1> QED
  BY <1>5, <1>6, <1>8, <1>9, <1>10, <1>11 DEF PageInv

\* A step that leaves the page, and what its requests ask, alone.
LEMMA QuietPage ==
  ASSUME TypeInv, PageInv,
         Alive' = Alive,
         \A q \in Alive :
            /\ flight'[q].op = flight[q].op /\ flight'[q].met = flight[q].met
            /\ flight'[q].index = flight[q].index
            /\ flight[q].op = "delete" => flight'[q].team = flight[q].team
            /\ flight'[q].adds = flight[q].adds /\ flight'[q].removes = flight[q].removes
            /\ flight'[q].late = flight[q].late,
         open' = open, loaded' = loaded, list' = list, boxes' = boxes,
         overlay' => overlay,
         edit' = edit \/ edit' # NoRow \/ ~overlay
  PROVE  PageInv'
<1>1. Deletes' = Deletes
  BY DEF Deletes
<1> QED
  BY <1>1 DEF PageInv, IndexStillTheirs, ClearedWereSent, Deletes

\* A request that is answered does not move a row another delete has named,
\* unless the two had met, and leaves no picks but those that were there.
LEMMA DonePage ==
  ASSUME TypeInv, PageInv, NEW s \in Alive, Done(s),
         open' = open, loaded' = loaded \/ flight[s].op = "load",
         \/ ~overlay'
         \/ /\ overlay' = overlay /\ edit' = edit /\ loaded' = loaded
            /\ flight[s].op \notin Covering,
         \A u \in Users : /\ boxes'["adds"][u] \in {0, boxes["adds"][u]}
                          /\ boxes'["removes"][u] \in {0, boxes["removes"][u]},
         \/ flight[s].op = "load" \/ flight[s].op = "delete"
         \/ \A i \in DOMAIN list : i \in DOMAIN list' /\ list'[i].id = list[i].id,
         flight[s].op = "delete" => list' = list \/ list' = Without(list, flight[s].index)
  PROVE  PageInv'
<1>1. /\ Alive' = Alive \ {s} /\ Busy' = Busy \ {s}
      /\ \A q \in Alive' : flight'[q] = flight[q] /\ q \in Alive
      /\ Deletes' = Deletes \ {s} /\ open
  BY DoneFacts, BusyIsRequest DEF TypeInv, Alive, Busy, Deletes, PageInv
<1>2. (\A q \in Alive : flight[q].op = "load" => ~loaded /\ Alive = {q})'
  BY <1>1 DEF PageInv
<1>3. (\A p, q \in Deletes : p # q => flight[p].met)'
  BY <1>1 DEF PageInv, Deletes
<1>4. (overlay => \/ ~loaded \/ edit # NoRow
                  \/ \E q \in Alive : flight[q].op \in Covering)'
  BY <1>1 DEF PageInv
<1>5. IndexStillTheirs'
  <2> SUFFICES ASSUME NEW q \in Alive', flight[q].op = "delete", ~flight[q].met
               PROVE  flight[q].index \in DOMAIN list'
                      /\ list'[flight[q].index].id = flight[q].team
    BY <1>1 DEF IndexStillTheirs
  <2>1. flight[s].op # "load" /\ flight[s].op # "delete"
    BY <1>1 DEF PageInv, Deletes
  <2> QED
    BY <1>1, <2>1 DEF PageInv, IndexStillTheirs
<1>6. ClearedWereSent'
  <2> SUFFICES ASSUME NEW q \in Alive', flight[q].op = "save", ~flight[q].late, NEW u \in Users
               PROVE  /\ boxes'["adds"][u] <= flight[q].adds[u]
                      /\ boxes'["removes"][u] <= flight[q].removes[u]
    BY <1>1 DEF ClearedWereSent
  <2>1. q \in Busy /\ flight[q] \in Requests
    BY <1>1, BusyIsRequest DEF TypeInv
  <2>2. flight[q].adds[u] \in 0 .. MaxCopies /\ flight[q].removes[u] \in 0 .. MaxCopies
    BY <2>1 DEF Requests
  <2> QED
    BY <1>1, <2>2, TeamsAssumption DEF PageInv, ClearedWereSent
<1> QED
  BY <1>1, <1>2, <1>3, <1>4, <1>5, <1>6 DEF PageInv

\* The clicks.
LEMMA ClickPage == TypeInv /\ PageInv /\ Click => PageInv'
<1> SUFFICES ASSUME TypeInv, PageInv, Click PROVE PageInv'
  OBVIOUS
<1>1. ASSUME NEW done, Close(done) PROVE PageInv'
  <2>1. Alive' = {} /\ ~open' /\ ~overlay' /\ ~loaded'
    BY <1>1, CloseFacts DEF TypeInv
  <2> QED
    BY <2>1 DEF PageInv, Deletes, IndexStillTheirs, ClearedWereSent
<1>2. ASSUME NEW u \in Users, NEW from \in Boxes, NEW to \in Boxes,
             from # to, Move(u, from, to)
      PROVE PageInv'
  <2>1. Alive' = Alive /\ Busy' = Busy
        /\ \A s \in Busy : flight'[s] = IF flight[s].op = "save"
                                        THEN Late(flight[s]) ELSE flight[s]
    BY <1>2, MoveFacts DEF TypeInv
  <2>2. \A s \in Alive : s \in Busy /\ flight[s] \in Requests
    BY BusyIsRequest DEF TypeInv
  <2>3. \A r \in Requests : /\ Late(r).op = r.op /\ Late(r).late
    BY DEF Late, Requests
  <2>4. UNCHANGED <<view, overlay, list, edit>>
    BY <1>2 DEF Move
  <2>5. /\ Deletes' = Deletes
        /\ \A s \in Alive : flight'[s].op = flight[s].op
        /\ \A s \in Alive : flight[s].op # "save" => flight'[s] = flight[s]
        /\ \A s \in Alive : flight[s].op = "save" => flight'[s].late
    BY <2>1, <2>2, <2>3 DEF Deletes
  <2>6. ClearedWereSent'
    BY <2>1, <2>5 DEF ClearedWereSent
  <2>7. IndexStillTheirs'
    BY <2>1, <2>4, <2>5 DEF PageInv, IndexStillTheirs
  <2>8. (\A p, q \in Deletes : p # q => flight[p].met)'
    BY <2>5 DEF PageInv, Deletes
  <2> QED
    BY <2>1, <2>4, <2>5, <2>6, <2>7, <2>8 DEF PageInv, view
<1>3. CASE OpenPage
  <2> DEFINE r == Request("load", NoTeam)
  <2>1. IsNew(r, "load", NoTeam)
    BY NewRequests DEF Ops
  <2>2. Send(r) /\ open' /\ UNCHANGED <<loaded, list, boxes>>
    BY <1>3 DEF OpenPage, tab
  <2>3. Alive = {} /\ ~loaded
    BY <1>3 DEF OpenPage, PageInv
  <2> HIDE DEF r
  <2> QED
    BY <2>1, <2>2, <2>3, SendPage DEF IsNew
<1>4. ASSUME NEW n \in Names, SaveEdits(n) PROVE PageInv'
  <2> DEFINE r == Named(Request("edit", edit.id), n)
  <2>1. edit \in Rows /\ edit.id \in Teams
    BY <1>4, RowAt DEF SaveEdits, TypeInv
  <2>2. IsNew(r, "edit", edit.id)
    BY <2>1, NewRequests DEF Ops
  <2>3. Send(r) /\ UNCHANGED <<open, loaded, list, boxes>> /\ loaded /\ open
    BY <1>4 DEF SaveEdits, Named, view, tab, Usable
  <2>4. edit' # NoRow
    BY <1>4, <2>1 DEF SaveEdits, Rows, NoRow, Teams, NoTeam
  <2> HIDE DEF r
  <2> QED
    BY <2>2, <2>3, <2>4, SendPage DEF IsNew
<1>5. ASSUME NEW n \in Names, SubmitNewTeam(n) PROVE PageInv'
  <2> DEFINE r == Named(Request("add", NoTeam), n)
  <2>1. IsNew(r, "add", NoTeam)
    BY NewRequests DEF Ops
  <2>2. Send(r) /\ UNCHANGED <<open, loaded, list, boxes>> /\ loaded /\ open
    BY <1>5 DEF SubmitNewTeam, Named, view, tab, Usable
  <2> HIDE DEF r
  <2> QED
    BY <2>1, <2>2, SendPage DEF IsNew, Covering
<1>6. ASSUME NEW i \in DOMAIN list, NEW c \in DOMAIN list, DeleteTeam(c, i) PROVE PageInv'
  <2> DEFINE r == OfRow(Request("delete", list[i].id), i, list[c].id)
  <2>1. i \in Nat /\ list[i].id \in Teams /\ list[c].id \in Teams
    BY RowAt DEF TypeInv
  <2>2. IsNew(r, "delete", list[i].id) /\ r.index = i
    BY <2>1, NewRequests DEF Ops
  <2>3. Send(r) /\ UNCHANGED <<open, loaded, list, boxes>> /\ loaded /\ open
    BY <1>6 DEF DeleteTeam, OfRow, view, tab, Usable
  <2> HIDE DEF r
  <2> QED
    BY <2>2, <2>3, SendPage DEF IsNew, Covering
<1>7. ASSUME NEW i \in DOMAIN list, FetchMembers(i) PROVE PageInv'
  <2> DEFINE r == Request("fetch", list[i].id)
  <2>1. list[i].id \in Teams
    BY RowAt DEF TypeInv
  <2>2. IsNew(r, "fetch", list[i].id)
    BY <2>1, NewRequests DEF Ops
  <2>3. Send(r) /\ UNCHANGED <<open, loaded, list, boxes>> /\ loaded /\ open
    BY <1>7 DEF FetchMembers, view, tab, Usable
  <2> HIDE DEF r
  <2> QED
    BY <2>2, <2>3, SendPage DEF IsNew, Covering
<1>8. ASSUME NEW i \in DOMAIN list, SelectTeam(i) PROVE PageInv'
  <2> DEFINE r == Request("select", list[i].id)
  <2>1. list[i].id \in Teams
    BY RowAt DEF TypeInv
  <2>2. IsNew(r, "select", list[i].id)
    BY <2>1, NewRequests DEF Ops
  <2>3. Send(r) /\ UNCHANGED <<open, loaded, list>> /\ loaded /\ open
    BY <1>8 DEF SelectTeam, view, Usable
  <2>4. boxes'["adds"] = boxes["adds"] /\ boxes'["removes"] = boxes["removes"]
    BY <1>8 DEF SelectTeam, TypeInv, TypeOK, Boxes
  <2> HIDE DEF r
  <2> QED
    BY <2>2, <2>3, <2>4, SendPage DEF IsNew, Covering
<1>9. CASE SaveChanges
  <2> DEFINE r == WithPicks(Request("save", selected), boxes["adds"], RemovesSent)
  <2>1. /\ boxes["adds"] \in [Users -> 0 .. MaxCopies]
        /\ RemovesSent \in [Users -> 0 .. MaxCopies] /\ RemovesSent = boxes["removes"]
        /\ selected \in Teams \cup {NoTeam}
    BY DEF TypeInv, TypeOK, Boxes, RemovesSent
  <2>2. /\ IsNew(r, "save", selected)
        /\ r.adds = boxes["adds"] /\ r.removes = boxes["removes"]
    BY <2>1, NewRequests DEF Ops
  <2>3. Send(r) /\ UNCHANGED <<open, loaded, list, boxes>> /\ loaded /\ open /\ ~overlay'
    BY <1>9 DEF SaveChanges, WithPicks, view, tab, Usable
  <2> HIDE DEF r
  <2> QED
    BY <2>2, <2>3, SendPage DEF IsNew
<1>10. ASSUME NEW i \in DOMAIN list, EditTeamData(i) \/ SelectTeamAgain(i) PROVE PageInv'
  <2>1. UNCHANGED <<view, overlay, list, boxes, flight>> /\ ~overlay
    BY <1>10 DEF EditTeamData, SelectTeamAgain, Usable, tab
  <2> QED
    BY <2>1, QuietPage DEF Alive, Busy, view
<1>11. CASE CancelEdits
  <2>1. UNCHANGED <<view, overlay, list, boxes, flight>> /\ ~overlay
    BY <1>11 DEF CancelEdits, Usable, tab
  <2> QED
    BY <2>1, QuietPage DEF Alive, Busy, view
<1>12. LeavePage => PageInv'
  BY <1>1 DEF LeavePage
<1>13. \A u \in Users : RemoveFromTeam(u) \/ UndoRemoveFromTeam(u) \/ AddToTeam(u)
                        \/ UndoAddToTeam(u) => PageInv'
  BY <1>2 DEF RemoveFromTeam, UndoRemoveFromTeam, AddToTeam, UndoAddToTeam, Boxes
<1> QED
  BY <1>3, <1>4, <1>5, <1>6, <1>7, <1>8, <1>9, <1>10, <1>11, <1>12, <1>13 DEF Click

\* The answer q to r asks the same.
SameAsk(q, r) ==
    /\ q.op = r.op /\ q.here = r.here /\ q.met = r.met /\ q.late = r.late
    /\ q.index = r.index /\ q.adds = r.adds /\ q.removes = r.removes
    /\ r.op # "add" => q.team = r.team

LEMMA AnswersAskSame ==
  ASSUME NEW r \in Requests
  PROVE  /\ SameAsk([r EXCEPT !.stage = "error"], r)
         /\ SameAsk([r EXCEPT !.stage = "ok"], r)
         /\ \A x : SameAsk([r EXCEPT !.stage = "ok", !.listing = x], r)
         /\ \A x : SameAsk([r EXCEPT !.stage = "ok", !.users = x], r)
         /\ \A x : r.op = "add" => SameAsk([r EXCEPT !.stage = "ok", !.team = x], r)
         /\ \A x, y : SameAsk([r EXCEPT !.stage = "ok", !.name = x, !.count = y], r)
  BY DEF Requests, SameAsk

\* What a handler answers asks what it was asked.
LEMMA ServeAnswers ==
  ASSUME TypeInv, NEW s \in Slots, Serve(s)
  PROVE  /\ s \in Busy /\ flight[s] \in Requests
         /\ \E q \in Requests : Reply(s, q) /\ SameAsk(q, flight[s])
<1> DEFINE r == flight[s]
<1>1. s \in Busy /\ r \in Requests
  BY BusyIsRequest DEF Serve, GetTeams, GetTeamMembers, AddTeam, UpdateTeam,
                       ServeDelete, UpdateTeamMembers, Sent, TypeInv
<1>2. \E q : Reply(s, q) /\ SameAsk(q, r)
  <2>1. Refuse(s) => \E q : Reply(s, q) /\ SameAsk(q, r)
    <3>1. SameAsk([r EXCEPT !.stage = "error"], r)
      BY <1>1, AnswersAskSame
    <3> QED
      BY <3>1 DEF Refuse
  <2>2. CASE GetTeams(s)
    <3>1. \A x : SameAsk([r EXCEPT !.stage = "ok", !.listing = x], r)
      BY <1>1, AnswersAskSame
    <3> QED
      BY <2>2, <3>1 DEF GetTeams
  <2>3. CASE GetTeamMembers(s)
    <3>1. \A x : SameAsk([r EXCEPT !.stage = "ok", !.users = x], r)
      BY <1>1, AnswersAskSame
    <3> QED
      BY <2>1, <2>3, <3>1 DEF GetTeamMembers
  <2>4. CASE AddTeam(s)
    <3>1. \A x : SameAsk([r EXCEPT !.stage = "ok", !.team = x], r)
      BY <1>1, <2>4, AnswersAskSame DEF AddTeam, Sent
    <3> QED
      BY <2>4, <3>1 DEF AddTeam
  <2>5. CASE UpdateTeam(s) \/ ServeDelete(s)
    <3>1. SameAsk([r EXCEPT !.stage = "ok"], r)
      BY <1>1, AnswersAskSame
    <3> QED
      BY <2>1, <2>5, <3>1 DEF UpdateTeam, ServeDelete
  <2>6. CASE UpdateTeamMembers(s)
    <3>1. \A x, y : SameAsk([r EXCEPT !.stage = "ok", !.name = x, !.count = y], r)
      BY <1>1, AnswersAskSame
    <3> QED
      BY <2>1, <2>6, <3>1 DEF UpdateTeamMembers
  <2> QED
    BY <2>2, <2>3, <2>4, <2>5, <2>6 DEF Serve
<1>3. flight' \in [Slots -> Requests \cup {NoRequest}]
  BY ServeTypes DEF TypeInv, TypeOK
<1>4. \A q : Reply(s, q) => flight'[s] = q
  BY <1>1 DEF Reply, TypeInv, TypeOK
<1>5. \A q : SameAsk(q, r) => q # NoRequest
  BY <1>1 DEF SameAsk, Requests, NoRequest, Ops
<1> QED
  BY <1>1, <1>2, <1>3, <1>4, <1>5

\* The server and the faults.
LEMMA ServerPage ==
  ASSUME TypeInv, PageInv
  PROVE  /\ \A s \in Slots : Serve(s) \/ Lose(s) => PageInv'
         /\ \A t \in Teams : OthersDelete(t) => PageInv'
         /\ \A t \in Teams, u \in Users : OthersMove(t, u) => PageInv'
<1>1. ASSUME NEW s \in Busy, NEW r \in Requests, Reply(s, r), SameAsk(r, flight[s]),
             UNCHANGED <<view, overlay, list, edit, tab>>
      PROVE  PageInv'
  <2>1. /\ Busy' = Busy /\ flight'[s] = r
        /\ \A q \in Slots : q # s => flight'[q] = flight[q]
    BY <1>1, ReplyFacts DEF TypeInv
  <2>2. Alive' = Alive
    BY <1>1, <2>1 DEF Alive, Busy, SameAsk
  <2> QED
    BY <1>1, <2>1, <2>2, QuietPage DEF Alive, Busy, view, tab, SameAsk
<1>2. ASSUME NEW s \in Slots, Serve(s) PROVE PageInv'
  <2>1. UNCHANGED <<view, overlay, list, edit, tab>>
    BY <1>2 DEF Serve
  <2> QED
    BY <1>1, <1>2, <2>1, ServeAnswers
<1>3. ASSUME NEW s \in Slots, Lose(s) PROVE PageInv'
  <2>1. s \in Busy /\ flight[s] \in Requests
    BY <1>3, BusyIsRequest DEF Lose, TypeInv
  <2> DEFINE r == [flight[s] EXCEPT !.stage = "error"]
  <2>2. r \in Requests /\ SameAsk(r, flight[s])
    BY <2>1, AnsweredIsRequest, AnswersAskSame
  <2>3. Reply(s, r) /\ UNCHANGED <<view, overlay, list, edit, tab>>
    BY <1>3 DEF Lose, Refuse, Fault
  <2> HIDE DEF r
  <2> QED
    BY <1>1, <2>1, <2>2, <2>3
<1>4. ASSUME NEW t \in Teams, OthersDelete(t) PROVE PageInv'
  BY <1>4, QuietPage DEF OthersDelete, Fault, Alive, Busy, view, tab
<1>5. ASSUME NEW t \in Teams, NEW u \in Users, OthersMove(t, u) PROVE PageInv'
  BY <1>5, QuietPage DEF OthersMove, Fault, Alive, Busy, view, tab
<1> QED
  BY <1>2, <1>3, <1>4, <1>5

\* The callbacks.
LEMMA AnswerPage ==
  ASSUME TypeInv, PageInv, NEW s \in Slots
  PROVE  Answer(s) => PageInv'
<1> SUFFICES ASSUME Answer(s) PROVE PageInv'
  OBVIOUS
<1>1. ASSUME Close({s}) PROVE PageInv'
  <2>1. Alive' = {} /\ ~open' /\ ~overlay' /\ ~loaded'
    BY <1>1, CloseFacts DEF TypeInv
  <2> QED
    BY <2>1 DEF PageInv, Deletes, IndexStillTheirs, ClearedWereSent
<1>2. \A u \in Users : /\ boxes["adds"][u] \in {0, boxes["adds"][u]}
                       /\ boxes["removes"][u] \in {0, boxes["removes"][u]}
  OBVIOUS
<1>3. CASE OnLoad(s)
  <2>1. /\ s \in Alive /\ flight[s].op = "load" /\ Done(s) /\ open' = open
        /\ boxes' = boxes /\ edit' = edit
    BY <1>3 DEF OnLoad, Answered, tab
  <2>2. CASE ~overlay'
    BY <1>2, <2>1, <2>2, DonePage
  <2>3. CASE overlay'
    <3>1. loaded' = loaded
      BY <1>3, <2>3 DEF OnLoad, Uncover
    <3>2. ~loaded /\ Alive = {s}
      BY <2>1 DEF PageInv
    <3>3. Alive' = {} /\ open
      BY <2>1, <3>2, DoneFacts DEF TypeInv, Alive, PageInv
    <3> QED
      BY <2>1, <3>1, <3>2, <3>3 DEF PageInv, Deletes, IndexStillTheirs, ClearedWereSent
  <2> QED
    BY <2>2, <2>3
<1>4. CASE OnMembersFetched(s)
  <2>1. /\ s \in Alive /\ flight[s].op = "fetch" /\ Done(s) /\ ~overlay'
        /\ UNCHANGED <<open, loaded, boxes, list>>
    BY <1>4 DEF OnMembersFetched, Answered, Uncover, view, tab
  <2> QED
    BY <1>2, <2>1, DonePage
<1>5. CASE OnTeamSelected(s)
  <2>1. /\ s \in Alive /\ flight[s].op = "select" /\ Done(s) /\ ~overlay'
        /\ UNCHANGED <<open, loaded, list>>
    BY <1>5 DEF OnTeamSelected, Answered, Uncover, view
  <2>2. boxes'["adds"] = boxes["adds"] /\ boxes'["removes"] = boxes["removes"]
    BY <1>5 DEF OnTeamSelected, TypeInv, TypeOK, Boxes
  <2> QED
    BY <1>2, <2>1, <2>2, DonePage
<1>6. CASE OnTeamAdded(s)
  <2>1. /\ s \in Alive /\ flight[s].op = "add" /\ Done(s) /\ ~overlay'
        /\ UNCHANGED <<open, loaded, boxes>>
    BY <1>6 DEF OnTeamAdded, Answered, Uncover, view, tab
  <2>2. list \in Seq(Rows)
    BY DEF TypeInv, TypeOK
  <2>3. list' = list \/ \E row : list' = Append(list, row)
    BY <1>6 DEF OnTeamAdded
  <2>4. \A i \in DOMAIN list : i \in DOMAIN list' /\ list'[i].id = list[i].id
    BY <2>2, <2>3
  <2> QED
    BY <1>2, <2>1, <2>4, DonePage
<1>7. CASE OnEditSaved(s)
  <2>1. /\ s \in Alive /\ flight[s].op = "edit" /\ Done(s)
        /\ UNCHANGED <<open, loaded, boxes>>
    BY <1>7 DEF OnEditSaved, Answered, view, tab
  <2>2. list \in Seq(Rows)
    BY DEF TypeInv, TypeOK
  <2>3. \A i \in DOMAIN list : i \in DOMAIN list' /\ list'[i].id = list[i].id
    BY <1>7, <2>2 DEF OnEditSaved
  <2>4. ~overlay' \/ (overlay' = overlay /\ edit' = edit)
    BY <1>7 DEF OnEditSaved, Uncover
  <2> QED
    BY <1>2, <2>1, <2>3, <2>4, DonePage DEF Covering
<1>8. CASE OnTeamDeleted(s)
  <2>1. /\ s \in Alive /\ flight[s].op = "delete" /\ Done(s) /\ ~overlay'
        /\ UNCHANGED <<open, loaded, boxes>>
        /\ list' = list \/ list' = Without(list, flight[s].index)
    BY <1>8 DEF OnTeamDeleted, Answered, Uncover, view, tab
  <2> QED
    BY <1>2, <2>1, DonePage
<1>9. CASE OnMembersSaved(s)
  <2>1. /\ s \in Alive /\ flight[s].op = "save" /\ Done(s) /\ ~overlay'
        /\ UNCHANGED <<open, loaded>>
    BY <1>9 DEF OnMembersSaved, Answered, Uncover, view
  <2>2. \A q \in Rows, r \in Requests : Renewed(q, r).id = q.id
    BY DEF Renewed, Rows
  <2>3. \A i \in DOMAIN list : list[i] \in Rows
    BY RowAt DEF TypeInv
  <2>4. flight[s] \in Requests
    BY <2>1, BusyIsRequest DEF TypeInv
  <2>5. \A i \in DOMAIN list : i \in DOMAIN list' /\ list'[i].id = list[i].id
    BY <1>9, <2>2, <2>3, <2>4 DEF OnMembersSaved
  <2>6. boxes'["adds"] = None /\ boxes'["removes"] = None
    BY <1>9 DEF OnMembersSaved, Boxes
  <2>7. \A u \in Users : /\ boxes'["adds"][u] \in {0, boxes["adds"][u]}
                         /\ boxes'["removes"][u] \in {0, boxes["removes"][u]}
    BY <2>6 DEF None
  <2> QED
    BY <2>1, <2>5, <2>7, DonePage
<1>10. CASE OnSaveRefused(s)
  BY <1>1, <1>10 DEF OnSaveRefused
<1>11. CASE OnLate(s)
  <2>1. CASE Close({s})
    BY <1>1, <2>1
  <2>2. CASE /\ Done(s)
             /\ overlay' \in {overlay, FALSE}
             /\ UNCHANGED <<server, view, list, edit, tab, menu, excuse>>
    <3>1. s \in Busy /\ s \notin Alive
      BY <1>11 DEF OnLate
    <3>2. Alive' = Alive /\ \A q \in Alive : flight'[q] = flight[q]
      <4>1. Done(s) /\ TypeOK
        BY <2>2 DEF TypeInv
      <4>2. Alive' = Alive \ {s} /\ \A q \in Slots : q # s => flight'[q] = flight[q]
        BY <3>1, <4>1, DoneFacts
      <4> QED
        BY <3>1, <4>2 DEF Alive, Busy
    <3>3. /\ open' = open /\ loaded' = loaded /\ list' = list /\ boxes' = boxes
          /\ edit' = edit
      BY <2>2 DEF view, tab
    <3>6. overlay' => overlay
      <4>1. overlay' = overlay \/ overlay' = FALSE
        BY <2>2
      <4> QED
        BY <4>1, Zenon
    <3>4. Alive' = Alive
      BY <3>2
    <3>5. \A q \in Alive :
             /\ flight'[q].op = flight[q].op /\ flight'[q].met = flight[q].met
             /\ flight'[q].index = flight[q].index
             /\ flight[q].op = "delete" => flight'[q].team = flight[q].team
             /\ flight'[q].adds = flight[q].adds /\ flight'[q].removes = flight[q].removes
             /\ flight'[q].late = flight[q].late
      BY <3>2
    <3> QED
      BY <3>3, <3>4, <3>5, <3>6, QuietPage
  <2> QED
    BY <1>11, <2>1, <2>2 DEF OnLate
<1> QED
  BY <1>3, <1>4, <1>5, <1>6, <1>7, <1>8, <1>9, <1>10, <1>11 DEF Answer

LEMMA PageInvStep == TypeInv /\ PageInv /\ [Next]_vars => PageInv'
<1> SUFFICES ASSUME TypeInv, PageInv, [Next]_vars PROVE PageInv'
  OBVIOUS
<1>1. CASE UNCHANGED vars
  BY <1>1, QuietPage DEF Alive, Busy, vars, view, tab
<1> QED
  BY <1>1, ClickPage, ServerPage, AnswerPage DEF Next

LEMMA AlwaysPageInv == Spec => [](TypeInv /\ PageInv)
  BY TypeInvInit, TypeInvStep, PageInvInit, PageInvStep, PTL DEF Spec

\* The row a delete takes out by its position is the row of its team, unless
\* two deletes met.
THEOREM DeletesTakeTheirRow == Spec => []IndexStillTheirs
<1>1. PageInv => IndexStillTheirs
  BY DEF PageInv
<1> QED
  BY <1>1, AlwaysPageInv, PTL

\* The picks a save clears were part of it, unless they came after it.
THEOREM ClearedPicksWereSent == Spec => []ClearedWereSent
<1>1. PageInv => ClearedWereSent
  BY DEF PageInv
<1> QED
  BY <1>1, AlwaysPageInv, PTL


-----------------------------------------------------------------------------
(* What a list shows after each thing that is done to it.                  *)

\* The listing of getTeams.
LEMMA ListingShows ==
  ASSUME NEW S, IsFiniteSet(S), NEW N, NEW f \in Listings(S), NEW L \in Seq(Rows),
         DOMAIN L = DOMAIN f,
         \A i \in DOMAIN f : L[i].id = f[i] /\ L[i].name = N[f[i]]
  PROVE  Shows(L, S, N, NoTeam)
<1> DEFINE D == 1 .. Cardinality(S)
<1>1. Cardinality(S) \in Nat
  BY FS_CardinalityType
<1>2. IsFiniteSet(D) /\ Cardinality(D) = Cardinality(S)
  BY <1>1, FS_Interval
<1>3. f \in [D -> S] /\ \A i, j \in D : f[i] = f[j] => i = j
  BY DEF Listings
<1>4. f \in Injection(D, S)
  BY <1>3 DEF Injection, IsInjective
<1>5. f \in Surjection(D, S)
  BY <1>2, <1>4, FS_Injection
<1>6. \A t \in S : \E i \in D : f[i] = t
  BY <1>5 DEF Surjection
<1> HIDE DEF D
<1> QED
  BY <1>3, <1>6 DEF Shows

\* Names of teams the list does not show may change.
LEMMA RenamedShows ==
  ASSUME NEW L, NEW R, NoTeam \notin R, NEW N, NEW M, NEW t, Shows(L, R, N, NoTeam),
         \A u \in R : u # t => M[u] = N[u]
  PROVE  Shows(L, R, M, t)
  BY DEF Shows

\* A team added.
LEMMA AppendShows ==
  ASSUME NEW L \in Seq(Rows), NEW R, NEW N, NEW t \in R,
         Shows(L, R \ {t}, N, NoTeam), NEW row, row.id = t, row.name = N[t]
  PROVE  Shows(Append(L, row), R, N, NoTeam)
<1> DEFINE K == Append(L, row)
<1>1. /\ DOMAIN K = 1 .. Len(L) + 1 /\ DOMAIN L = 1 .. Len(L) /\ Len(L) \in Nat
      /\ K[Len(L) + 1] = row /\ \A i \in DOMAIN L : K[i] = L[i]
  OBVIOUS
<1> HIDE DEF K
<1>2. \A i \in DOMAIN K : i = Len(L) + 1 \/ i \in DOMAIN L
  BY <1>1
<1>3. Len(L) + 1 \in DOMAIN K /\ Len(L) + 1 \notin DOMAIN L /\ DOMAIN L \subseteq DOMAIN K
  BY <1>1
<1>4. \A i \in DOMAIN L : L[i].id \in R \ {t}
  BY DEF Shows
<1>5. {K[i].id : i \in DOMAIN K} = R
  <2>1. \A u \in R \ {t} : \E i \in DOMAIN L : L[i].id = u
    BY DEF Shows
  <2> QED
    BY <1>1, <1>2, <1>3, <1>4, <2>1
<1>6. \A i, j \in DOMAIN K : K[i].id = K[j].id => i = j
  <2>1. \A i, j \in DOMAIN L : L[i].id = L[j].id => i = j
    BY DEF Shows
  <2> QED
    BY <1>1, <1>2, <1>4, <2>1
<1>7. \A i \in DOMAIN K : K[i].id # NoTeam => K[i].name = N[K[i].id]
  <2>1. \A i \in DOMAIN L : L[i].id # NoTeam => L[i].name = N[L[i].id]
    BY DEF Shows
  <2> QED
    BY <1>1, <1>2, <2>1
<1> QED
  BY <1>5, <1>6, <1>7 DEF Shows, K

\* Rows that keep their team.
LEMMA SameIdsShow ==
  ASSUME NEW L, NEW K, NEW R, NEW N, NEW t, Shows(L, R, N, t),
         DOMAIN K = DOMAIN L,
         \A i \in DOMAIN L : /\ K[i].id = L[i].id
                             /\ K[i].name = L[i].name \/ K[i].name = N[K[i].id],
         \A i \in DOMAIN L : L[i].id = t => K[i].name = N[t]
  PROVE  Shows(K, R, N, NoTeam)
  BY DEF Shows

\* A team deleted.
LEMMA WithoutShows ==
  ASSUME NEW L \in Seq(Rows), NEW R, NEW N, NEW t, t \notin R,
         Shows(L, R \cup {t}, N, t), NEW k \in DOMAIN L, L[k].id = t
  PROVE  Shows(Without(L, k), R, N, NoTeam)
<1> DEFINE K == Without(L, k)
           from(i) == IF i < k THEN i ELSE i + 1
<1>1. Len(L) \in Nat /\ DOMAIN L = 1 .. Len(L) /\ k \in 1 .. Len(L)
  OBVIOUS
<1>2. DOMAIN K = 1 .. Len(L) - 1
  BY DEF Without
<1>3. \A i \in DOMAIN K : /\ from(i) \in DOMAIN L /\ from(i) # k
                          /\ K[i] = L[from(i)]
  BY <1>1, <1>2 DEF Without
<1>4. \A i, j \in DOMAIN K : from(i) = from(j) => i = j
  BY <1>1, <1>2
<1>5. \A j \in DOMAIN L : j # k => \E i \in DOMAIN K : from(i) = j
  <2> SUFFICES ASSUME NEW j \in DOMAIN L, j # k PROVE \E i \in DOMAIN K : from(i) = j
    OBVIOUS
  <2>1. CASE j < k
    <3>1. j \in DOMAIN K /\ from(j) = j
      BY <1>1, <1>2, <2>1
    <3> QED
      BY <3>1
  <2>2. CASE j > k
    <3>1. j - 1 \in DOMAIN K /\ from(j - 1) = j
      BY <1>1, <1>2, <2>2
    <3> QED
      BY <3>1
  <2> QED
    BY <1>1, <2>1, <2>2
<1> HIDE DEF K, from
<1>6. \A i \in DOMAIN L : i # k => L[i].id \in R
  BY DEF Shows
<1>7. \A u \in R : \E j \in DOMAIN L : L[j].id = u /\ j # k
  BY DEF Shows
<1>8. {K[i].id : i \in DOMAIN K} = R
  <2>1. \A i \in DOMAIN K : K[i].id \in R
    BY <1>3, <1>6
  <2>2. \A u \in R : \E i \in DOMAIN K : K[i].id = u
    BY <1>3, <1>5, <1>7
  <2> QED
    BY <2>1, <2>2
<1>9. \A i, j \in DOMAIN K : K[i].id = K[j].id => i = j
  BY <1>3, <1>4 DEF Shows
<1>10. \A i \in DOMAIN K : K[i].id # NoTeam => K[i].name = N[K[i].id]
  BY <1>3, <1>6 DEF Shows
<1> QED
  BY <1>8, <1>9, <1>10 DEF Shows, K

-----------------------------------------------------------------------------
(* A page where nothing crossed.                                           *)

LEMMA CleanInvInit == Init => CleanInv
  BY DEF Init, CleanInv

\* There is one request at most, and the page that sent it is still open.
LEMMA OneAtATime ==
  ASSUME TypeInv, CleanInv, open, clean, NEW s \in Busy
  PROVE  /\ Busy = {s} /\ Alive = {s} /\ flight[s] \in Requests /\ Pending(flight[s])
         /\ loaded /\ Harmless(flight[s]) => Shows(list, rows, name, NoTeam)
<1>1. Busy = {s} /\ flight[s].here /\ Pending(flight[s])
  BY DEF CleanInv, Calm
<1> QED
  BY <1>1, BusyIsRequest DEF Alive, CleanInv, Calm, TypeInv

\* A click that sends nothing.
LEMMA QuietClean ==
  ASSUME TypeInv, CleanInv,
         open' = open, loaded' = loaded, overlay' = overlay, list' = list,
         rows' = rows, name' = name, clean' = clean,
         edit' = edit \/ ~overlay,
         Busy' = Busy,
         \A q \in Busy :
            /\ flight'[q].op = flight[q].op /\ flight'[q].stage = flight[q].stage
            /\ flight'[q].team = flight[q].team /\ flight'[q].name = flight[q].name
            /\ flight'[q].index = flight[q].index /\ flight'[q].listing = flight[q].listing
            /\ flight'[q].here = flight[q].here
  PROVE  CleanInv'
<1> SUFFICES ASSUME open, clean PROVE Calm'
  BY DEF CleanInv
<1>1. Calm
  BY DEF CleanInv
<1>2. \A q \in Busy : Pending(flight[q])'
  <2> SUFFICES ASSUME NEW q \in Busy PROVE Pending(flight[q])'
    OBVIOUS
  <2>1. Pending(flight[q])
    BY <1>1 DEF Calm
  <2>2. flight[q].op = "edit" => edit' = edit
    BY <2>1 DEF Pending
  <2> QED
    BY <2>1, <2>2 DEF Pending
<1>3. (\A q \in Busy : Harmless(flight[q]))' => \A q \in Busy : Harmless(flight[q])
  BY DEF Harmless
<1> QED
  BY <1>1, <1>2, <1>3 DEF Calm

\* A request that is sent from a page where nothing is on its way.
LEMMA SendClean ==
  ASSUME TypeInv, PageInv, CleanInv,
         NEW r \in Requests, NEW t, IsNew(r, r.op, t), Send(r),
         open, loaded, open' = open, loaded' = loaded, list' = list,
         rows' = rows, name' = name, clean' = (clean /\ Alive = {}),
         r.op # "load", overlay' = (r.op # "save"), ~overlay,
         r.op = "edit" => /\ edit'.id = t /\ edit'.name = r.name
                          /\ \E i \in DOMAIN list : list[i].id = t,
         r.op = "delete" => r.index \in DOMAIN list /\ list[r.index].id = t
  PROVE  CleanInv'
<1> SUFFICES ASSUME clean, Alive = {} PROVE Calm'
  BY DEF CleanInv
<1>1. Calm
  BY DEF CleanInv
<1>2. Busy = {}
  BY <1>1 DEF Calm, Alive
<1>3. Shows(list, rows, name, NoTeam)
  BY <1>1, <1>2 DEF Calm
<1>4. r.here /\ r.stage = "sent" /\ r.team = t
  BY DEF IsNew
<1>5. PICK s \in Slots : Busy' = {s} /\ flight'[s] = r
  BY <1>2, <1>4, SendFacts DEF TypeInv, Deletes
<1>6. \A i \in DOMAIN list : list[i].id \in rows
  BY <1>3 DEF Shows
<1>7. Pending(r)'
  BY <1>4, <1>6 DEF Pending
<1>8. (\A q \in Busy : flight[q].here /\ Pending(flight[q]))'
  BY <1>4, <1>5, <1>7 DEF Pending
<1> QED
  BY <1>3, <1>5, <1>8 DEF Calm

\* The clicks.
LEMMA ClickClean == TypeInv /\ PageInv /\ CleanInv /\ Click => CleanInv'
<1> SUFFICES ASSUME TypeInv, PageInv, CleanInv, Click PROVE CleanInv'
  OBVIOUS
<1>1. ASSUME NEW done, Close(done) PROVE CleanInv'
  BY <1>1 DEF Close, CleanInv
<1>2. ASSUME NEW u \in Users, NEW from \in Boxes, NEW to \in Boxes,
             from # to, Move(u, from, to)
      PROVE CleanInv'
  <2>1. Busy' = Busy /\ \A s \in Busy : flight'[s] = IF flight[s].op = "save"
                                        THEN Late(flight[s]) ELSE flight[s]
    BY <1>2, MoveFacts DEF TypeInv
  <2>2. \A s \in Busy : flight[s] \in Requests
    BY BusyIsRequest DEF TypeInv
  <2>3. \A r \in Requests : /\ Late(r).op = r.op /\ Late(r).stage = r.stage
                            /\ Late(r).team = r.team /\ Late(r).name = r.name
                            /\ Late(r).index = r.index /\ Late(r).listing = r.listing
                            /\ Late(r).here = r.here
    BY DEF Late, Requests
  <2>4. UNCHANGED <<server, view, overlay, list, edit, excuse>>
    BY <1>2 DEF Move
  <2> QED
    BY <2>1, <2>2, <2>3, <2>4, QuietClean DEF server, view, excuse
<1>3. CASE OpenPage
  <2> DEFINE r == Request("load", NoTeam)
  <2>1. IsNew(r, "load", NoTeam)
    BY NewRequests DEF Ops
  <2>2. Send(r) /\ overlay' /\ (clean' => Busy = {}) /\ UNCHANGED loaded
    BY <1>3 DEF OpenPage
  <2>3. ~loaded
    BY <1>3 DEF OpenPage, PageInv
  <2> HIDE DEF r
  <2>4. r \in Requests /\ r.op = "load" /\ r.stage = "sent" /\ r.here
    BY <2>1 DEF IsNew
  <2>5. clean' => \E s \in Slots : Busy' = {s} /\ flight'[s] = r
    BY <2>2, <2>4, SendFacts DEF TypeInv
  <2>6. Pending(r)'
    BY <2>2, <2>4 DEF Pending
  <2>7. clean' => (\A q \in Busy : flight[q].here /\ Pending(flight[q]))'
    BY <2>4, <2>5, <2>6 DEF Pending
  <2> QED
    BY <2>2, <2>3, <2>5, <2>7 DEF CleanInv, Calm
<1>4. ASSUME NEW n \in Names, SaveEdits(n) PROVE CleanInv'
  <2> DEFINE r == Named(Request("edit", edit.id), n)
  <2>1. edit \in Rows /\ edit.id \in Teams
    BY <1>4, RowAt DEF SaveEdits, TypeInv
  <2>2. IsNew(r, "edit", edit.id) /\ r.name = n
    BY <2>1, NewRequests DEF Ops
  <2>3. /\ Send(r) /\ UNCHANGED <<open, loaded, list, rows, name>> /\ loaded /\ open /\ ~overlay
        /\ overlay' = TRUE /\ clean' = (clean /\ Alive = {})
        /\ \E i \in DOMAIN list : list[i].id = edit.id
    BY <1>4 DEF SaveEdits, Named, view, tab, Usable, server, Crosses
  <2>4. edit'.id = edit.id /\ edit'.name = n
    BY <1>4, <2>1 DEF SaveEdits, Rows
  <2> HIDE DEF r
  <2>5. r \in Requests /\ r.op = "edit" /\ IsNew(r, r.op, edit.id)
    BY <2>2 DEF IsNew
  <2> QED
    BY <2>2, <2>3, <2>4, <2>5, SendClean
<1>5. ASSUME NEW n \in Names, SubmitNewTeam(n) PROVE CleanInv'
  <2> DEFINE r == Named(Request("add", NoTeam), n)
  <2>1. IsNew(r, "add", NoTeam)
    BY NewRequests DEF Ops
  <2>2. /\ Send(r) /\ UNCHANGED <<open, loaded, list, rows, name>> /\ loaded /\ open /\ ~overlay
        /\ overlay' = TRUE /\ clean' = (clean /\ Alive = {})
    BY <1>5 DEF SubmitNewTeam, Named, view, tab, Usable, server, Crosses
  <2> HIDE DEF r
  <2>3. r \in Requests /\ r.op = "add" /\ IsNew(r, r.op, NoTeam)
    BY <2>1 DEF IsNew
  <2> QED
    BY <2>2, <2>3, SendClean
<1>6. ASSUME NEW i \in DOMAIN list, NEW c \in DOMAIN list, DeleteTeam(c, i) PROVE CleanInv'
  <2> DEFINE r == OfRow(Request("delete", list[i].id), i, list[c].id)
  <2>1. i \in Nat /\ list[i].id \in Teams /\ list[c].id \in Teams
    BY RowAt DEF TypeInv
  <2>2. IsNew(r, "delete", list[i].id) /\ r.index = i
    BY <2>1, NewRequests DEF Ops
  <2>3. /\ Send(r) /\ UNCHANGED <<open, loaded, list, rows, name>> /\ loaded /\ open /\ ~overlay
        /\ overlay' = TRUE /\ clean' = (clean /\ Alive = {})
    BY <1>6 DEF DeleteTeam, OfRow, view, tab, Usable, server, Crosses
  <2> HIDE DEF r
  <2>4. r \in Requests /\ r.op = "delete" /\ IsNew(r, r.op, list[i].id)
    BY <2>2 DEF IsNew
  <2> QED
    BY <2>2, <2>3, <2>4, SendClean
<1>7. ASSUME NEW i \in DOMAIN list, NEW op \in {"fetch", "select"},
             op = "fetch" => FetchMembers(i), op = "select" => SelectTeam(i)
      PROVE CleanInv'
  <2> DEFINE r == Request(op, list[i].id)
  <2>1. list[i].id \in Teams
    BY RowAt DEF TypeInv
  <2>2. IsNew(r, op, list[i].id)
    BY <2>1, NewRequests DEF Ops
  <2>3. /\ Send(r) /\ UNCHANGED <<open, loaded, list, rows, name>> /\ loaded /\ open /\ ~overlay
        /\ overlay' = TRUE /\ clean' = (clean /\ Alive = {})
    BY <1>7 DEF FetchMembers, SelectTeam, view, tab, Usable, server, Crosses
  <2> HIDE DEF r
  <2>4. r \in Requests /\ r.op \in {"fetch", "select"} /\ IsNew(r, r.op, list[i].id)
    BY <2>2 DEF IsNew
  <2> QED
    BY <2>3, <2>4, SendClean
<1>8. CASE SaveChanges
  <2> DEFINE r == WithPicks(Request("save", selected), boxes["adds"], RemovesSent)
  <2>1. /\ boxes["adds"] \in [Users -> 0 .. MaxCopies]
        /\ RemovesSent \in [Users -> 0 .. MaxCopies]
        /\ selected \in Teams \cup {NoTeam}
    BY DEF TypeInv, TypeOK, Boxes, RemovesSent
  <2>2. IsNew(r, "save", selected)
    BY <2>1, NewRequests DEF Ops
  <2>3. /\ Send(r) /\ UNCHANGED <<open, loaded, list, rows, name>> /\ loaded /\ open /\ ~overlay
        /\ overlay' = overlay /\ clean' = (clean /\ Alive = {})
    BY <1>8 DEF SaveChanges, WithPicks, view, tab, Usable, server, Crosses
  <2>4. overlay' = FALSE
    BY <2>3 DEF TypeInv, TypeOK
  <2> HIDE DEF r
  <2>5. r \in Requests /\ r.op = "save" /\ IsNew(r, r.op, selected)
    BY <2>2 DEF IsNew
  <2> QED
    BY <2>3, <2>4, <2>5, SendClean
<1>9. ASSUME NEW i \in DOMAIN list, EditTeamData(i) \/ SelectTeamAgain(i) PROVE CleanInv'
  <2>1. UNCHANGED <<server, view, overlay, list, flight, excuse>> /\ ~overlay
    BY <1>9 DEF EditTeamData, SelectTeamAgain, Usable
  <2> QED
    BY <2>1, QuietClean DEF Busy, view, server, excuse
<1>10. CASE CancelEdits
  <2>1. UNCHANGED <<server, view, overlay, list, flight, excuse>> /\ ~overlay
    BY <1>10 DEF CancelEdits, Usable
  <2> QED
    BY <2>1, QuietClean DEF Busy, view, server, excuse
<1>11. LeavePage => CleanInv'
  BY <1>1 DEF LeavePage
<1>12. \A u \in Users : RemoveFromTeam(u) \/ UndoRemoveFromTeam(u) \/ AddToTeam(u)
                        \/ UndoAddToTeam(u) => CleanInv'
  BY <1>2 DEF RemoveFromTeam, UndoRemoveFromTeam, AddToTeam, UndoAddToTeam, Boxes
<1>13. \A i \in DOMAIN list : FetchMembers(i) \/ SelectTeam(i) => CleanInv'
  BY <1>7
<1> QED
  BY <1>3, <1>4, <1>5, <1>6, <1>8, <1>9, <1>10, <1>11, <1>12, <1>13 DEF Click

\* An answer to the one request.
LEMMA ReplyClean ==
  ASSUME TypeInv, CleanInv, open, clean, NEW s \in Busy, NEW q \in Requests, Reply(s, q),
         q.here, Pending(q)', overlay' = overlay, loaded' = loaded,
         loaded /\ Harmless(q) => Shows(list, rows, name, NoTeam)'
  PROVE  CleanInv'
<1>1. Busy = {s} /\ Calm
  BY OneAtATime DEF CleanInv
<1>2. Busy' = {s} /\ flight'[s] = q
  BY <1>1, ReplyFacts DEF TypeInv
<1>3. (Pending(flight[s]))'
  BY <1>2 DEF Pending
<1> QED
  BY <1>1, <1>2, <1>3 DEF CleanInv, Calm

\* What an answer says.
Refused(r) == [r EXCEPT !.stage = "error"]
Granted(r) == [r EXCEPT !.stage = "ok"]
Listed(r, x) == [r EXCEPT !.stage = "ok", !.listing = x]
Found(r, x) == [r EXCEPT !.stage = "ok", !.users = x]
Numbered(r, x) == [r EXCEPT !.stage = "ok", !.team = x]
Counted(r, x, y) == [r EXCEPT !.stage = "ok", !.name = x, !.count = y]

Answers(q, r) ==
    q \in Requests /\ q.stage = "ok" /\ q.op = r.op /\ q.here = r.here

LEMMA AnswerSays ==
  ASSUME NEW r \in Requests
  PROVE  /\ Refused(r) \in Requests /\ Refused(r).stage = "error"
         /\ Refused(r).op = r.op /\ Refused(r).here = r.here
         /\ Answers(Granted(r), r) /\ Granted(r).team = r.team
         /\ Granted(r).name = r.name /\ Granted(r).index = r.index
         /\ \A x \in Seq(Rows) : Answers(Listed(r, x), r) /\ Listed(r, x).listing = x
         /\ \A x \in SUBSET Users : Answers(Found(r, x), r)
         /\ \A x \in Teams : /\ Answers(Numbered(r, x), r)
                             /\ Numbered(r, x).team = x /\ Numbered(r, x).name = r.name
         /\ \A x \in Names, y \in Nat :
                /\ Answers(Counted(r, x, y), r)
                /\ Counted(r, x, y).team = r.team /\ Counted(r, x, y).name = x
<1>1. /\ Refused(r) \in Requests /\ Refused(r).stage = "error"
      /\ Refused(r).op = r.op /\ Refused(r).here = r.here
  BY DEF Requests, Refused
<1>2. /\ Answers(Granted(r), r) /\ Granted(r).team = r.team
      /\ Granted(r).name = r.name /\ Granted(r).index = r.index
  BY DEF Requests, Granted, Answers
<1>3. ASSUME NEW x \in Seq(Rows)
      PROVE  Answers(Listed(r, x), r) /\ Listed(r, x).listing = x
  BY DEF Requests, Listed, Answers
<1>4. ASSUME NEW x \in SUBSET Users PROVE Answers(Found(r, x), r)
  BY DEF Requests, Found, Answers
<1>5. ASSUME NEW x \in Teams
      PROVE  /\ Answers(Numbered(r, x), r)
             /\ Numbered(r, x).team = x /\ Numbered(r, x).name = r.name
  BY DEF Requests, Numbered, Answers
<1>6. ASSUME NEW x \in Names, NEW y \in Nat
      PROVE  /\ Answers(Counted(r, x, y), r)
             /\ Counted(r, x, y).team = r.team /\ Counted(r, x, y).name = x
  BY DEF Requests, Counted, Answers
<1> QED
  BY <1>1, <1>2, <1>3, <1>4, <1>5, <1>6

LEMMA ServerClean ==
  ASSUME TypeInv, PageInv, CleanInv, NEW s \in Slots, Serve(s)
  PROVE  CleanInv'
<1> SUFFICES ASSUME open, clean PROVE CleanInv'
  BY DEF Serve, view, excuse, CleanInv
<1> DEFINE r == flight[s]
<1>1. s \in Busy /\ r \in Requests
  BY ServeAnswers
<1>2. Busy = {s} /\ s \in Alive /\ Pending(r)
      /\ (loaded /\ Harmless(r) => Shows(list, rows, name, NoTeam))
  BY <1>1, OneAtATime
<1>3. r.here
  BY <1>2 DEF Alive
<1>4. UNCHANGED <<open, loaded, overlay, list, edit, clean>>
  BY DEF Serve, view, excuse
<1>5. r.op # "load" => loaded /\ (r.op # "save" => overlay)
  BY <1>2 DEF Pending
<1>6. /\ NoTeam \notin rows /\ \A t \in rows : t \in Teams
      /\ name \in [Teams -> Names \cup {NoName}] /\ staff \in [Teams -> SUBSET Users]
  BY RowTypes DEF TypeInv, TypeOK, NoTeam, Teams
<1>7. ASSUME r.op \in {"fetch", "select", "save"}, Refuse(s) PROVE CleanInv'
  <2>1. PICK q \in Requests : /\ q.stage = "error" /\ q.op = r.op /\ q.here = r.here
                              /\ Reply(s, q)
    BY <1>1, <1>7, AnswerSays DEF Refuse, Refused
  <2>2. rows' = rows /\ name' = name
    BY <1>7 DEF Refuse, server
  <2>3. Pending(q)'
    BY <1>4, <1>5, <1>7, <2>1, <2>2 DEF Pending
  <2>4. Harmless(r)
    BY <1>7 DEF Harmless
  <2> QED
    BY <1>1, <1>2, <1>3, <1>4, <2>1, <2>2, <2>3, <2>4, ReplyClean
<1>8. CASE GetTeams(s)
  <2>1. PICK f \in Listings(rows) :
           Reply(s, [r EXCEPT !.stage = "ok", !.listing = [i \in DOMAIN f |-> RowOf(f[i])]])
    BY <1>8 DEF GetTeams
  <2> DEFINE x == [i \in DOMAIN f |-> RowOf(f[i])]
  <2>2. rows' = rows /\ name' = name /\ r.op = "load"
    BY <1>8 DEF GetTeams, server, Sent
  <2>3. IsFiniteSet(rows)
    <3>1. rows \in SUBSET (1 .. made) /\ made \in Int
      BY TeamsAssumption DEF TypeInv, TypeOK, Teams
    <3>2. IsFiniteSet(1 .. made)
      BY <3>1, FS_Interval
    <3> QED
      BY <3>1, <3>2, FS_Subset
  <2>4. /\ Cardinality(rows) \in Nat /\ DOMAIN f = 1 .. Cardinality(rows)
        /\ \A i \in DOMAIN f : f[i] \in rows
    BY <2>3, FS_CardinalityType DEF Listings
  <2>5. \A i \in DOMAIN f : RowOf(f[i]) \in Rows
    BY <2>4, RowTypes
  <2>6. x \in Seq(Rows) /\ DOMAIN x = DOMAIN f
    BY <2>4, <2>5
  <2>7. \A i \in DOMAIN f : x[i].id = f[i] /\ x[i].name = name[f[i]]
    BY DEF RowOf
  <2> HIDE DEF x
  <2>8. Shows(x, rows, name, NoTeam)
    BY <2>3, <2>6, <2>7, ListingShows
  <2>9. Reply(s, Listed(r, x))
    BY <2>1 DEF x, Listed
  <2>10. PICK q \in Requests : /\ q.stage = "ok" /\ q.op = r.op /\ q.here = r.here
                               /\ q.listing = x /\ Reply(s, q)
    BY <1>1, <2>6, <2>9, AnswerSays DEF Answers
  <2>11. overlay /\ ~loaded
    BY <1>2, <2>2 DEF Pending, PageInv
  <2>12. Pending(q)'
    BY <1>4, <2>2, <2>8, <2>10, <2>11 DEF Pending
  <2> QED
    BY <1>1, <1>3, <1>4, <2>10, <2>11, <2>12, ReplyClean
<1>9. CASE GetTeamMembers(s)
  <2> DEFINE u == staff[r.team]
  <2>1. r.op \in {"fetch", "select"}
    BY <1>9 DEF GetTeamMembers, Sent
  <2>2. CASE Refuse(s)
    BY <1>7, <2>1, <2>2
  <2>3. CASE /\ r.team \in rows /\ UNCHANGED server
             /\ Reply(s, [r EXCEPT !.stage = "ok", !.users = u])
    <3>1. /\ u \in SUBSET Users /\ rows' = rows /\ name' = name
          /\ Reply(s, Found(r, u))
      BY <1>6, <2>3 DEF server, Found
    <3> HIDE DEF u
    <3>2. PICK q \in Requests : /\ q.stage = "ok" /\ q.op = r.op /\ q.here = r.here
                                /\ Reply(s, q)
      BY <1>1, <3>1, AnswerSays DEF Answers
    <3>3. Pending(q)'
      BY <1>4, <1>5, <2>1, <3>1, <3>2 DEF Pending
    <3>4. Harmless(r)
      BY <2>1 DEF Harmless
    <3> QED
      BY <1>1, <1>2, <1>3, <1>4, <3>1, <3>2, <3>3, <3>4, ReplyClean
  <2> QED
    BY <1>9, <2>2, <2>3 DEF GetTeamMembers
<1>10. CASE AddTeam(s)
  <2> DEFINE t == made + 1
  <2>1. /\ r.op = "add" /\ r.stage = "sent" /\ rows' = rows \cup {t}
        /\ name' = [name EXCEPT ![t] = r.name]
        /\ Reply(s, Numbered(r, t))
    BY <1>10 DEF AddTeam, Sent, Numbered
  <2>2. t \in Teams /\ t \notin rows
    <3>1. made \in 1 .. MaxTeams /\ rows \subseteq 1 .. made /\ made < MaxTeams
      BY <1>10 DEF AddTeam, TypeInv, TypeOK, Teams
    <3> QED
      BY <3>1, TeamsAssumption DEF Teams
  <2>3. name'[t] = r.name /\ \A u \in rows : name'[u] = name[u]
    BY <1>6, <2>1, <2>2
  <2>4. Harmless(r)
    BY <2>1 DEF Harmless
  <2>5. Shows(list, rows, name, NoTeam)
    BY <1>2, <1>5, <2>1, <2>4
  <2>6. Shows(list, rows, name', NoTeam)
    BY <1>6, <2>3, <2>5, RenamedShows
  <2> HIDE DEF t
  <2>7. PICK q \in Requests : /\ q.stage = "ok" /\ q.op = r.op /\ q.here = r.here
                              /\ q.team = t /\ q.name = r.name /\ Reply(s, q)
    BY <1>1, <2>1, <2>2, AnswerSays DEF Answers
  <2>8. rows' \ {t} = rows /\ t \in rows'
    BY <2>1, <2>2
  <2>9. Pending(q)'
    BY <1>4, <1>5, <2>1, <2>3, <2>6, <2>7, <2>8 DEF Pending
  <2>10. ~Harmless(q)
    BY <2>1, <2>7 DEF Harmless
  <2> QED
    BY <1>1, <1>3, <1>4, <2>7, <2>9, <2>10, ReplyClean
<1>11. CASE UpdateTeam(s)
  <2> DEFINE t == r.team
  <2>1. r.op = "edit" /\ r.stage = "sent"
    BY <1>11 DEF UpdateTeam, Sent
  <2>2. t \in rows /\ edit.id = t /\ edit.name = r.name
    BY <1>2, <2>1 DEF Pending
  <2>3. name' = [name EXCEPT ![t] = r.name] /\ rows' = rows
        /\ Reply(s, Granted(r))
    BY <1>11, <2>2 DEF UpdateTeam, Granted
  <2>4. name'[t] = r.name /\ \A u \in rows : u # t => name'[u] = name[u]
    BY <1>6, <2>2, <2>3
  <2>5. Harmless(r)
    BY <2>1 DEF Harmless
  <2>6. Shows(list, rows, name, NoTeam)
    BY <1>2, <1>5, <2>1, <2>5
  <2>7. Shows(list, rows, name', t)
    BY <1>6, <2>4, <2>6, RenamedShows
  <2>8. PICK q \in Requests : /\ q.stage = "ok" /\ q.op = r.op /\ q.here = r.here
                              /\ q.team = t /\ q.name = r.name /\ Reply(s, q)
    BY <1>1, <2>3, AnswerSays DEF Answers
  <2>9. Pending(q)'
    BY <1>4, <1>5, <2>1, <2>2, <2>3, <2>4, <2>7, <2>8 DEF Pending
  <2>10. ~Harmless(q)
    BY <2>1, <2>8 DEF Harmless
  <2> QED
    BY <1>1, <1>3, <1>4, <2>3, <2>8, <2>9, <2>10, ReplyClean
<1>12. CASE ServeDelete(s)
  <2> DEFINE t == r.team
  <2>1. r.op = "delete" /\ r.stage = "sent"
    BY <1>12 DEF ServeDelete, Sent
  <2>2. Harmless(r)
    BY <2>1 DEF Harmless
  <2>3. Shows(list, rows, name, NoTeam)
    BY <1>2, <1>5, <2>1, <2>2
  <2>4. r.index \in DOMAIN list /\ list[r.index].id = t
    BY <1>2, <2>1 DEF Pending
  <2>5. t \in rows
    BY <2>3, <2>4 DEF Shows
  <2>6. rows' = rows \ {t} /\ name' = name
        /\ Reply(s, Granted(r))
    BY <1>12, <2>5 DEF ServeDelete, RemoveTeam, Granted
  <2>7. rows' \cup {t} = rows /\ t \notin rows'
    BY <2>5, <2>6
  <2>8. Shows(list, rows, name, t)
    BY <1>6, <2>3, RenamedShows
  <2>9. PICK q \in Requests : /\ q.stage = "ok" /\ q.op = r.op /\ q.here = r.here
                              /\ q.team = t /\ q.index = r.index /\ Reply(s, q)
    BY <1>1, <2>6, AnswerSays DEF Answers
  <2>10. Pending(q)'
    BY <1>4, <1>5, <2>1, <2>4, <2>6, <2>7, <2>8, <2>9 DEF Pending
  <2>11. ~Harmless(q)
    BY <2>1, <2>9 DEF Harmless
  <2> QED
    BY <1>1, <1>3, <1>4, <2>6, <2>9, <2>10, <2>11, ReplyClean
<1>13. CASE UpdateTeamMembers(s)
  <2> DEFINE x == name[r.team]
             y == Cardinality(StaffAfter(r))
  <2>1. r.op = "save"
    BY <1>13 DEF UpdateTeamMembers, Sent
  <2>2. CASE Refuse(s)
    BY <1>7, <2>1, <2>2
  <2>3. CASE /\ r.team \in rows /\ UNCHANGED <<rows, name>>
             /\ Reply(s, Counted(r, x, y))
    <3>1. x \in Names
      BY <2>3 DEF TypeInv
    <3>2. StaffAfter(r) \in SUBSET Users
      BY <1>6, <2>3 DEF StaffAfter
    <3>3. y \in Nat
      BY <3>2, RowTypes
    <3> HIDE DEF x, y
    <3>4. PICK q \in Requests : /\ q.stage = "ok" /\ q.op = r.op /\ q.here = r.here
                                /\ q.team = r.team /\ q.name = x /\ Reply(s, q)
      BY <1>1, <2>3, <3>1, <3>3, AnswerSays DEF Answers
    <3>5. Pending(q)'
      BY <1>4, <1>5, <2>1, <2>3, <3>4 DEF Pending, x
    <3>6. Harmless(r)
      BY <2>1 DEF Harmless
    <3> QED
      BY <1>1, <1>2, <1>3, <1>4, <2>3, <3>4, <3>5, <3>6, ReplyClean
  <2> QED
    BY <1>13, <2>2, <2>3 DEF UpdateTeamMembers, Counted
<1> QED
  BY <1>8, <1>9, <1>10, <1>11, <1>12, <1>13 DEF Serve

\* The callback of the one request.
LEMMA LandClean ==
  ASSUME TypeInv, CleanInv, NEW s \in Alive, Done(s), clean' = clean, open' = open,
         open /\ clean =>
            ~overlay' /\ (loaded' => Shows(list', rows', name', NoTeam))
  PROVE  CleanInv'
<1> SUFFICES ASSUME open, clean PROVE Calm'
  BY DEF CleanInv
<1>1. s \in Busy
  BY BusyIsRequest DEF TypeInv
<1>2. Busy' = {}
  BY <1>1, OneAtATime, DoneFacts DEF TypeInv
<1> QED
  BY <1>2 DEF Calm

LEMMA AnswerClean ==
  ASSUME TypeInv, PageInv, CleanInv, NEW s \in Slots, Answer(s)
  PROVE  CleanInv'
<1> DEFINE r == flight[s]
<1>1. ASSUME Close({s}) PROVE CleanInv'
  BY <1>1 DEF Close, CleanInv
<1>2. ASSUME open, clean, s \in Busy
      PROVE  /\ Pending(r) /\ r \in Requests
             /\ loaded /\ Harmless(r) => Shows(list, rows, name, NoTeam)
             /\ Succeeded(s) => r.stage = "ok"
             /\ r.stage \in {"sent", "ok", "error"}
  <2>1. r \in Requests
    BY <1>2, OneAtATime
  <2> QED
    BY <1>2, <2>1, OneAtATime DEF Requests, Succeeded
<1>3. /\ Alive \subseteq Busy /\ list \in Seq(Rows)
      /\ NoTeam \notin rows
  BY BusyIsRequest, RowTypes DEF TypeInv, TypeOK, NoTeam, Teams
<1>4. CASE OnLoad(s)
  <2>1. s \in Alive /\ r.op = "load" /\ r.stage # "sent" /\ Done(s)
        /\ UNCHANGED <<server, open, clean>>
    BY <1>4 DEF OnLoad, Answered, excuse
  <2>2. ASSUME open, clean
        PROVE  ~overlay' /\ Shows(list', rows', name', NoTeam)
    <3>1. r.stage = "ok" /\ Shows(r.listing, rows, name, NoTeam)
      BY <1>2, <1>3, <2>1, <2>2 DEF Pending
    <3>2. list' = r.listing /\ ~overlay'
      BY <1>4, <3>1 DEF OnLoad, Succeeded, Uncover
    <3> QED
      BY <2>1, <3>1, <3>2 DEF server
  <2> QED
    BY <2>1, <2>2, LandClean
<1>5. CASE OnMembersFetched(s) \/ OnTeamSelected(s)
  <2>1. /\ s \in Alive /\ r.op \in {"fetch", "select"} /\ Done(s) /\ ~overlay'
        /\ UNCHANGED <<server, open, loaded, list, clean>>
    BY <1>5 DEF OnMembersFetched, OnTeamSelected, Answered, Uncover, view, excuse
  <2>2. open /\ clean /\ loaded => Shows(list, rows, name, NoTeam)
    BY <1>2, <1>3, <2>1 DEF Harmless
  <2> QED
    BY <2>1, <2>2, LandClean DEF server
<1>6. CASE OnTeamAdded(s)
  <2>1. /\ s \in Alive /\ r.op = "add" /\ r.stage # "sent" /\ Done(s) /\ ~overlay'
        /\ UNCHANGED <<server, open, loaded, clean>>
    BY <1>6 DEF OnTeamAdded, Answered, Uncover, view, excuse
  <2>2. ASSUME open, clean PROVE Shows(list', rows', name', NoTeam)
    <3>1. /\ r.stage = "ok" /\ Shows(list, rows \ {r.team}, name, NoTeam)
          /\ r.team \in rows /\ r.name = name[r.team]
      BY <1>2, <1>3, <2>1, <2>2 DEF Pending
    <3>2. list' = Append(list, NewRow(r, r.name))
      BY <1>6, <2>2, <3>1 DEF OnTeamAdded, Succeeded
    <3>3. NewRow(r, r.name).id = r.team /\ NewRow(r, r.name).name = r.name
      BY DEF NewRow
    <3> QED
      BY <1>3, <2>1, <3>1, <3>2, <3>3, AppendShows DEF server
  <2> QED
    BY <2>1, <2>2, LandClean
<1>7. CASE OnEditSaved(s)
  <2>1. /\ s \in Alive /\ r.op = "edit" /\ r.stage # "sent" /\ Done(s)
        /\ UNCHANGED <<server, open, loaded, clean>>
    BY <1>7 DEF OnEditSaved, Answered, view
  <2>2. ASSUME open, clean
        PROVE  ~overlay' /\ Shows(list', rows', name', NoTeam)
    <3>1. /\ r.stage = "ok" /\ Shows(list, rows, name, r.team)
          /\ r.name = name[r.team] /\ edit.id = r.team /\ edit.name = r.name
      BY <1>2, <1>3, <2>1, <2>2 DEF Pending
    <3>2. CASE \A i \in DOMAIN list : list[i].id # edit.id
      <4>1. list' = list /\ ~overlay'
        BY <1>7, <3>1, <3>2 DEF OnEditSaved, Succeeded, Uncover
      <4> QED
        BY <2>1, <3>1, <3>2, <4>1, SameIdsShow DEF server
    <3>3. CASE \E i \in DOMAIN list : list[i].id = edit.id
      <4>1. PICK i \in DOMAIN list : list[i].id = edit.id /\ list' = [list EXCEPT ![i] = edit]
        BY <1>7, <3>1, <3>3 DEF OnEditSaved, Succeeded
      <4>2. ~overlay'
        BY <1>7, <3>1 DEF OnEditSaved, Succeeded, Uncover
      <4>3. /\ DOMAIN list' = DOMAIN list /\ list'[i] = edit
            /\ \A j \in DOMAIN list : j # i => list'[j] = list[j]
        BY <1>3, <4>1
      <4>4. \A j \in DOMAIN list : list[j].id = r.team => j = i
        BY <3>1, <4>1 DEF Shows
      <4>5. \A j \in DOMAIN list :
               /\ list'[j].id = list[j].id
               /\ list'[j].name = list[j].name \/ list'[j].name = name[list'[j].id]
        BY <3>1, <4>1, <4>3
      <4>6. \A j \in DOMAIN list : list[j].id = r.team => list'[j].name = name[r.team]
        BY <3>1, <4>3, <4>4
      <4> HIDE <4>1
      <4> QED
        BY <2>1, <3>1, <4>2, <4>3, <4>5, <4>6, SameIdsShow DEF server
    <3> QED
      BY <3>2, <3>3
  <2> QED
    BY <2>1, <2>2, LandClean
<1>8. CASE OnTeamDeleted(s)
  <2>1. /\ s \in Alive /\ r.op = "delete" /\ r.stage # "sent" /\ Done(s) /\ ~overlay'
        /\ UNCHANGED <<server, open, loaded, clean>>
    BY <1>8 DEF OnTeamDeleted, Answered, Uncover, view, excuse
  <2>2. ASSUME open, clean PROVE Shows(list', rows', name', NoTeam)
    <3>1. /\ r.stage = "ok" /\ Shows(list, rows \cup {r.team}, name, r.team)
          /\ r.team \notin rows /\ r.index \in DOMAIN list /\ list[r.index].id = r.team
      BY <1>2, <1>3, <2>1, <2>2 DEF Pending
    <3>2. r.index <= Len(list)
      BY <1>3, <3>1
    <3>3. list' = Without(list, r.index)
      BY <1>8, <3>1, <3>2 DEF OnTeamDeleted, Succeeded
    <3> QED
      BY <1>3, <2>1, <3>1, <3>3, WithoutShows DEF server
  <2> QED
    BY <2>1, <2>2, LandClean
<1>9. CASE OnMembersSaved(s)
  <2>1. /\ s \in Alive /\ r.op = "save" /\ Done(s) /\ ~overlay' /\ Succeeded(s)
        /\ UNCHANGED <<server, open, loaded, clean>>
        /\ list' = [i \in DOMAIN list |->
                       IF list[i].id = r.team /\ ~list[i].fresh
                       THEN Renewed(list[i], r) ELSE list[i]]
    BY <1>9 DEF OnMembersSaved, Answered, Uncover, view
  <2>2. ASSUME open, clean, loaded PROVE Shows(list', rows', name', NoTeam)
    <3>1. Shows(list, rows, name, NoTeam) /\ r \in Requests
      BY <1>2, <1>3, <2>1, <2>2 DEF Harmless
    <3>2. r.name = name[r.team]
      BY <1>2, <1>3, <2>1, <2>2 DEF Pending
    <3>3. \A row \in Rows : Renewed(row, r).id = row.id /\ Renewed(row, r).name = r.name
      BY DEF Renewed, Rows
    <3>4. \A i \in DOMAIN list : list[i] \in Rows
      BY <1>3
    <3>5. DOMAIN list' = DOMAIN list /\ \A i \in DOMAIN list :
             /\ list'[i].id = list[i].id
             /\ list'[i].name = list[i].name \/ list'[i].name = name[list'[i].id]
      BY <2>1, <3>2, <3>3, <3>4
    <3>6. \A i \in DOMAIN list : list[i].id # NoTeam
      BY <1>3, <3>1 DEF Shows
    <3> QED
      BY <2>1, <3>1, <3>5, <3>6, SameIdsShow DEF server
  <2> QED
    BY <2>1, <2>2, LandClean
<1>10. CASE OnSaveRefused(s)
  BY <1>1, <1>10 DEF OnSaveRefused
<1>11. CASE OnLate(s)
  <2>1. s \in Busy /\ s \notin Alive
    BY <1>11 DEF OnLate
  <2>2. ~(open /\ clean)
    BY <2>1, OneAtATime
  <2>3. CASE Close({s})
    BY <1>1, <2>3
  <2>4. CASE UNCHANGED <<view, excuse>>
    BY <2>2, <2>4 DEF view, excuse, CleanInv
  <2> QED
    BY <1>11, <2>3, <2>4 DEF OnLate
<1> QED
  BY <1>4, <1>5, <1>6, <1>7, <1>8, <1>9, <1>10, <1>11 DEF Answer

LEMMA CleanInvStep == TypeInv /\ PageInv /\ CleanInv /\ [Next]_vars => CleanInv'
<1> SUFFICES ASSUME TypeInv, PageInv, CleanInv, [Next]_vars PROVE CleanInv'
  OBVIOUS
<1>1. CASE UNCHANGED vars
  BY <1>1, QuietClean DEF Busy, vars, view, server, excuse
<1>2. Fault => CleanInv'
  BY DEF Fault, CleanInv
<1>3. /\ \A s \in Slots : Lose(s) => CleanInv'
      /\ \A t \in Teams : OthersDelete(t) => CleanInv'
      /\ \A t \in Teams, u \in Users : OthersMove(t, u) => CleanInv'
  BY <1>2 DEF Lose, OthersDelete, OthersMove
<1> QED
  BY <1>1, <1>3, ClickClean, ServerClean, AnswerClean DEF Next

LEMMA AlwaysCleanInv == Spec => [](TypeInv /\ PageInv /\ CleanInv)
  BY TypeInvInit, TypeInvStep, PageInvInit, PageInvStep, CleanInvInit, CleanInvStep,
     PTL DEF Spec

\* With nobody else at work, no lost call and one request at a time, the list of
\* the page is the table of the teams, for any number of clicks.
THEOREM ListShowsTheTable == Spec => []ListIsTrue
<1>1. TypeInv /\ PageInv /\ CleanInv => ListIsTrue
  <2> SUFFICES ASSUME TypeInv, PageInv, CleanInv, clean, loaded, Busy = {} PROVE ListIsTrue
    BY DEF ListIsTrue
  <2>1. Shows(list, rows, name, NoTeam)
    BY DEF PageInv, CleanInv, Calm
  <2>2. NoTeam \notin rows
    BY RowTypes DEF NoTeam, Teams
  <2> QED
    BY <2>1, <2>2 DEF ListIsTrue, Shows
<1> QED
  BY <1>1, AlwaysCleanInv, PTL

\* A page stays covered only after a load or an edit that failed.
THEOREM OnlyFaultsBlock == Spec => []BlockedOnlyByFault
<1>1. TypeInv /\ PageInv /\ CleanInv => BlockedOnlyByFault
  <2> SUFFICES ASSUME TypeInv, PageInv, CleanInv, overlay, Alive = {}
               PROVE  open /\ ~clean /\ (~loaded \/ edit # NoRow)
    BY DEF BlockedOnlyByFault
  <2>1. open /\ (~loaded \/ edit # NoRow)
    BY DEF PageInv
  <2>2. ~clean
    BY <2>1 DEF CleanInv, Calm, Alive
  <2> QED
    BY <2>1, <2>2
<1> QED
  BY <1>1, AlwaysCleanInv, PTL

-----------------------------------------------------------------------------
(* The member tab.                                                         *)

\* Each employee is in a list from which it can be moved.
Seen ==
    \A u \in Users : IF u \in staff[serviced]
                     THEN boxes["members"][u] + boxes["removes"][u] > 0
                     ELSE boxes["others"][u] + boxes["adds"][u] > 0

\* The request leaves the lists as true as they were.
Settled(r) == r.op # "select" /\ ~(r.op = "save" /\ r.stage = "ok")

\* A selection is of a team that is there, and its answer is the staff.
Selects(r) ==
    r.op = "select" => /\ r.team = serviced /\ r.team \in rows /\ r.stage # "error"
                       /\ r.stage = "ok" => r.users = staff[r.team]

TabInv ==
    /\ ~open => serviced = NoTeam
    /\ open /\ clean =>
        /\ serviced <= made
        /\ \A s \in Busy : Selects(flight[s])
        /\ serviced \in rows /\ (\A s \in Busy : Settled(flight[s])) => Seen

LEMMA TabInvInit == Init => TabInv
  BY DEF Init, TabInv

\* A pick goes from one list to the other of a pair.
LEMMA MoveSums ==
  ASSUME TypeOK, NEW u \in Users, NEW from \in Boxes, NEW to \in Boxes, Move(u, from, to),
         <<from, to>> \in {<<"members", "removes">>, <<"removes", "members">>,
                           <<"others", "adds">>, <<"adds", "others">>}
  PROVE  \A v \in Users :
            /\ boxes'["members"][v] + boxes'["removes"][v]
                 = boxes["members"][v] + boxes["removes"][v]
            /\ boxes'["others"][v] + boxes'["adds"][v]
                 = boxes["others"][v] + boxes["adds"][v]
<1>1. PICK k \in 1 .. boxes[from][u] :
        boxes' = [boxes EXCEPT ![from][u] = @ - k, ![to][u] = @ + k]
  BY DEF Move
<1>2. /\ \A b \in Boxes, v \in Users : boxes[b][v] \in Nat
      /\ boxes[from] \in [Users -> 0 .. MaxCopies] /\ boxes[to] \in [Users -> 0 .. MaxCopies]
  BY TeamsAssumption DEF TypeOK
<1>3. k \in Nat
  BY <1>2
<1>4. from # to
  OBVIOUS
<1>5. boxes' = [boxes EXCEPT ![from] = [boxes[from] EXCEPT ![u] = @ - k],
                             ![to] = [boxes[to] EXCEPT ![u] = @ + k]]
  BY <1>1, <1>2, <1>4 DEF TypeOK
<1>6. /\ boxes'[from] = [boxes[from] EXCEPT ![u] = @ - k]
      /\ boxes'[to] = [boxes[to] EXCEPT ![u] = @ + k]
      /\ \A b \in Boxes : b \notin {from, to} => boxes'[b] = boxes[b]
  BY <1>4, <1>5 DEF TypeOK
<1>7. \A v \in Users : /\ boxes'[from][v] + boxes'[to][v] = boxes[from][v] + boxes[to][v]
                       /\ boxes'[to][v] + boxes'[from][v] = boxes[to][v] + boxes[from][v]
  <2> SUFFICES ASSUME NEW v \in Users
               PROVE  /\ boxes'[from][v] + boxes'[to][v] = boxes[from][v] + boxes[to][v]
                      /\ boxes'[to][v] + boxes'[from][v] = boxes[to][v] + boxes[from][v]
    OBVIOUS
  <2>1. CASE v = u
    <3>1. boxes'[from][v] = boxes[from][v] - k /\ boxes'[to][v] = boxes[to][v] + k
      BY <1>2, <1>6, <2>1
    <3> QED
      BY <1>2, <1>3, <3>1
  <2>2. CASE v # u
    BY <1>2, <1>6, <2>2
  <2> QED
    BY <2>1, <2>2
<1> QED
  BY <1>6, <1>7 DEF Boxes

\* Nothing but the clicks that send, the server and the callbacks matters.
LEMMA QuietTab ==
  ASSUME TabInv, open' = open, clean' = clean, rows' = rows, made' = made,
         staff' = staff, serviced' = serviced, Busy' = Busy,
         \A u \in Users :
            /\ boxes'["members"][u] + boxes'["removes"][u]
                 = boxes["members"][u] + boxes["removes"][u]
            /\ boxes'["others"][u] + boxes'["adds"][u]
                 = boxes["others"][u] + boxes["adds"][u],
         \A q \in Busy :
            /\ flight'[q].op = flight[q].op /\ flight'[q].stage = flight[q].stage
            /\ flight'[q].team = flight[q].team /\ flight'[q].users = flight[q].users
  PROVE  TabInv'
<1>1. Seen => Seen'
  BY DEF Seen
<1>2. (\A q \in Busy : Settled(flight[q]))' => \A q \in Busy : Settled(flight[q])
  BY DEF Settled
<1>3. (\A q \in Busy : Selects(flight[q])) => (\A q \in Busy : Selects(flight[q]))'
  BY DEF Selects
<1> QED
  BY <1>1, <1>2, <1>3 DEF TabInv

\* A page that sends has nothing on its way, if nothing is to cross.
LEMMA AloneSent ==
  ASSUME TypeInv, CleanInv, open, clean, Alive = {},
         NEW r \in Requests, r.here, Send(r)
  PROVE  /\ Busy = {} /\ \E s \in Slots : Busy' = {s} /\ flight'[s] = r
         /\ loaded => Shows(list, rows, name, NoTeam)
<1>1. Calm
  BY DEF CleanInv
<1>2. Busy = {}
  BY <1>1 DEF Calm, Alive
<1>3. Deletes = {}
  BY DEF Deletes
<1>4. \E s \in Slots : Busy' = {s} /\ flight'[s] = r
  BY <1>2, <1>3, SendFacts DEF TypeInv
<1> QED
  BY <1>1, <1>2, <1>4 DEF Calm

\* A click that sends something else than a selection.
LEMMA SendTab ==
  ASSUME TypeInv, CleanInv, TabInv, NEW r \in Requests, NEW t, IsNew(r, r.op, t), Send(r),
         r.op # "select", open, open' = open, clean' = (clean /\ Alive = {}),
         rows' = rows, made' = made, staff' = staff, serviced' = serviced, boxes' = boxes
  PROVE  TabInv'
<1> SUFFICES ASSUME clean, Alive = {} PROVE TabInv'
  BY DEF TabInv
<1>1. r.here /\ r.stage = "sent"
  BY DEF IsNew
<1>2. PICK s \in Slots : Busy' = {s} /\ flight'[s] = r
  BY <1>1, AloneSent
<1>3. Busy = {}
  BY <1>1, AloneSent
<1>4. serviced \in rows => Seen
  BY <1>3 DEF TabInv
<1>5. Seen => Seen'
  BY DEF Seen
<1>6. (\A q \in Busy : Selects(flight[q]))'
  BY <1>2 DEF Selects
<1> QED
  BY <1>4, <1>5, <1>6 DEF TabInv

LEMMA ClickTab == TypeInv /\ PageInv /\ CleanInv /\ TabInv /\ Click => TabInv'
<1> SUFFICES ASSUME TypeInv, PageInv, CleanInv, TabInv, Click PROVE TabInv'
  OBVIOUS
<1>1. ASSUME NEW done, Close(done) PROVE TabInv'
  BY <1>1 DEF Close, BlankPage, TabInv
<1>2. ASSUME NEW u \in Users, NEW from \in Boxes, NEW to \in Boxes, Move(u, from, to),
             <<from, to>> \in {<<"members", "removes">>, <<"removes", "members">>,
                               <<"others", "adds">>, <<"adds", "others">>}
      PROVE TabInv'
  <2>1. TypeOK
    BY DEF TypeInv
  <2>2. from # to
    BY <1>2
  <2>3. Busy' = Busy /\ \A s \in Busy : flight'[s] = IF flight[s].op = "save"
                                        THEN Late(flight[s]) ELSE flight[s]
    BY <1>2, <2>1, <2>2, MoveFacts
  <2>4. \A s \in Busy : flight[s] \in Requests
    BY <2>1, BusyIsRequest
  <2>5. \A r \in Requests : /\ Late(r).op = r.op /\ Late(r).stage = r.stage
                            /\ Late(r).team = r.team /\ Late(r).users = r.users
    BY DEF Late, Requests
  <2>6. UNCHANGED <<server, view, serviced, excuse>>
    BY <1>2 DEF Move
  <2>7. \A v \in Users :
            /\ boxes'["members"][v] + boxes'["removes"][v]
                 = boxes["members"][v] + boxes["removes"][v]
            /\ boxes'["others"][v] + boxes'["adds"][v]
                 = boxes["others"][v] + boxes["adds"][v]
    BY <1>2, <2>1, MoveSums
  <2>8. \A q \in Busy :
            /\ flight'[q].op = flight[q].op /\ flight'[q].stage = flight[q].stage
            /\ flight'[q].team = flight[q].team /\ flight'[q].users = flight[q].users
    BY <2>3, <2>4, <2>5
  <2> QED
    BY <2>3, <2>6, <2>7, <2>8, QuietTab DEF server, view, excuse
<1>3. CASE OpenPage
  <2> DEFINE r == Request("load", NoTeam)
  <2>1. IsNew(r, "load", NoTeam)
    BY NewRequests DEF Ops
  <2>2. /\ Send(r) /\ ~open /\ clean' = (Busy = {})
        /\ UNCHANGED <<rows, made, staff, serviced>>
    BY <1>3 DEF OpenPage, server, tab
  <2> HIDE DEF r
  <2>3. r \in Requests /\ r.op = "load" /\ r.here
    BY <2>1 DEF IsNew
  <2>4. clean' => \E s \in Slots : Busy' = {s} /\ flight'[s] = r
    BY <2>2, <2>3, SendFacts DEF TypeInv
  <2>5. clean' => (\A q \in Busy : Selects(flight[q]))'
    BY <2>3, <2>4 DEF Selects
  <2>6. serviced = NoTeam /\ NoTeam \notin rows /\ NoTeam <= made /\ open'
    BY <1>3, <2>2, RowTypes DEF TabInv, OpenPage, NoTeam, Teams, TypeInv, TypeOK
  <2> QED
    BY <2>2, <2>5, <2>6 DEF TabInv
<1>4. ASSUME NEW n \in Names, SaveEdits(n) PROVE TabInv'
  <2> DEFINE r == Named(Request("edit", edit.id), n)
  <2>1. edit.id \in Teams
    BY <1>4, RowAt DEF SaveEdits, TypeInv
  <2>2. IsNew(r, "edit", edit.id)
    BY <2>1, NewRequests DEF Ops
  <2>3. /\ Send(r) /\ UNCHANGED <<open, rows, made, staff, serviced, boxes>> /\ open
        /\ clean' = (clean /\ Alive = {})
    BY <1>4 DEF SaveEdits, Named, view, tab, Usable, server, Crosses
  <2> HIDE DEF r
  <2>4. r \in Requests /\ r.op = "edit" /\ IsNew(r, r.op, edit.id)
    BY <2>2 DEF IsNew
  <2> QED
    BY <2>3, <2>4, SendTab
<1>5. ASSUME NEW n \in Names, SubmitNewTeam(n) PROVE TabInv'
  <2> DEFINE r == Named(Request("add", NoTeam), n)
  <2>1. IsNew(r, "add", NoTeam)
    BY NewRequests DEF Ops
  <2>2. /\ Send(r) /\ UNCHANGED <<open, rows, made, staff, serviced, boxes>> /\ open
        /\ clean' = (clean /\ Alive = {})
    BY <1>5 DEF SubmitNewTeam, Named, view, tab, Usable, server, Crosses
  <2> HIDE DEF r
  <2>3. r \in Requests /\ r.op = "add" /\ IsNew(r, r.op, NoTeam)
    BY <2>1 DEF IsNew
  <2> QED
    BY <2>2, <2>3, SendTab
<1>6. ASSUME NEW i \in DOMAIN list, NEW c \in DOMAIN list, DeleteTeam(c, i) PROVE TabInv'
  <2> DEFINE r == OfRow(Request("delete", list[i].id), i, list[c].id)
  <2>1. i \in Nat /\ list[i].id \in Teams /\ list[c].id \in Teams
    BY RowAt DEF TypeInv
  <2>2. IsNew(r, "delete", list[i].id)
    BY <2>1, NewRequests DEF Ops
  <2>3. /\ Send(r) /\ UNCHANGED <<open, rows, made, staff, serviced, boxes>> /\ open
        /\ clean' = (clean /\ Alive = {})
    BY <1>6 DEF DeleteTeam, OfRow, view, tab, Usable, server, Crosses
  <2> HIDE DEF r
  <2>4. r \in Requests /\ r.op = "delete" /\ IsNew(r, r.op, list[i].id)
    BY <2>2 DEF IsNew
  <2> QED
    BY <2>3, <2>4, SendTab
<1>7. ASSUME NEW i \in DOMAIN list, FetchMembers(i) PROVE TabInv'
  <2> DEFINE r == Request("fetch", list[i].id)
  <2>1. list[i].id \in Teams
    BY RowAt DEF TypeInv
  <2>2. IsNew(r, "fetch", list[i].id)
    BY <2>1, NewRequests DEF Ops
  <2>3. /\ Send(r) /\ UNCHANGED <<open, rows, made, staff, serviced, boxes>> /\ open
        /\ clean' = (clean /\ Alive = {})
    BY <1>7 DEF FetchMembers, view, tab, Usable, server
  <2> HIDE DEF r
  <2>4. r \in Requests /\ r.op = "fetch" /\ IsNew(r, r.op, list[i].id)
    BY <2>2 DEF IsNew
  <2> QED
    BY <2>3, <2>4, SendTab
<1>8. CASE SaveChanges
  <2> DEFINE r == WithPicks(Request("save", selected), boxes["adds"], RemovesSent)
  <2>1. /\ boxes["adds"] \in [Users -> 0 .. MaxCopies]
        /\ RemovesSent \in [Users -> 0 .. MaxCopies]
        /\ selected \in Teams \cup {NoTeam}
    BY DEF TypeInv, TypeOK, Boxes, RemovesSent
  <2>2. IsNew(r, "save", selected)
    BY <2>1, NewRequests DEF Ops
  <2>3. /\ Send(r) /\ UNCHANGED <<open, rows, made, staff, serviced, boxes>> /\ open
        /\ clean' = (clean /\ Alive = {})
    BY <1>8 DEF SaveChanges, WithPicks, view, tab, Usable, server, Crosses
  <2> HIDE DEF r
  <2>4. r \in Requests /\ r.op = "save" /\ IsNew(r, r.op, selected)
    BY <2>2 DEF IsNew
  <2> QED
    BY <2>3, <2>4, SendTab
<1>9. ASSUME NEW i \in DOMAIN list, SelectTeam(i) PROVE TabInv'
  <2> DEFINE r == Request("select", list[i].id)
  <2>1. list[i].id \in Teams
    BY RowAt DEF TypeInv
  <2>2. IsNew(r, "select", list[i].id)
    BY <2>1, NewRequests DEF Ops
  <2>3. /\ Send(r) /\ UNCHANGED <<open, rows, made, staff>> /\ open /\ loaded
        /\ serviced' = list[i].id /\ clean' = (clean /\ Alive = {})
    BY <1>9 DEF SelectTeam, view, Usable, server, Crosses
  <2> HIDE DEF r
  <2>4. r \in Requests /\ r.op = "select" /\ r.here /\ r.stage = "sent" /\ r.team = list[i].id
    BY <2>2 DEF IsNew
  <2> SUFFICES ASSUME clean, Alive = {} PROVE TabInv'
    BY <2>3 DEF TabInv
  <2>5. PICK s \in Slots : Busy' = {s} /\ flight'[s] = r
    BY <2>3, <2>4, AloneSent
  <2>6. list[i].id \in rows
    BY <2>3, <2>4, AloneSent DEF Shows
  <2>7. list[i].id <= made
    <3>1. \A t \in rows : t <= made
      BY DEF TypeInv, TypeOK
    <3> QED
      BY <2>6, <3>1
  <2>8. (\A q \in Busy : Selects(flight[q]) /\ ~Settled(flight[q]))' /\ Busy' # {}
    BY <2>3, <2>4, <2>5, <2>6 DEF Selects, Settled
  <2> QED
    BY <2>3, <2>7, <2>8 DEF TabInv
<1>10. ASSUME UNCHANGED <<server, view, serviced, boxes, flight, excuse>> PROVE TabInv'
  BY <1>10, QuietTab DEF Busy, view, server, excuse
<1>11. \A i \in DOMAIN list : EditTeamData(i) \/ SelectTeamAgain(i) => TabInv'
  BY <1>10 DEF EditTeamData, SelectTeamAgain, tab
<1>12. CancelEdits => TabInv'
  BY <1>10 DEF CancelEdits, tab
<1>13. LeavePage => TabInv'
  BY <1>1 DEF LeavePage
<1>14. \A u \in Users : RemoveFromTeam(u) \/ UndoRemoveFromTeam(u) \/ AddToTeam(u)
                        \/ UndoAddToTeam(u) => TabInv'
  BY <1>2 DEF RemoveFromTeam, UndoRemoveFromTeam, AddToTeam, UndoAddToTeam, Boxes
<1> QED
  BY <1>3, <1>4, <1>5, <1>6, <1>7, <1>8, <1>9, <1>11, <1>12, <1>13, <1>14 DEF Click

\* What the server has done when it answers q to r.
Works(r, q) ==
    /\ q.op = r.op /\ q.here = r.here /\ r.stage = "sent" /\ q.stage \in {"ok", "error"}
    /\ r.op # "add" => q.team = r.team /\ made' = made /\ rows' \subseteq rows
    /\ r.op \notin {"delete", "save"} => staff' = staff
    /\ r.op \notin {"add", "delete"} => rows' = rows
    /\ r.op = "load" =>
        \A i \in DOMAIN q.listing : q.listing[i].count = Cardinality(staff[q.listing[i].id])
    /\ r.op \in {"fetch", "select"} /\ r.team \in rows =>
        q.stage = "ok" /\ q.users = staff[r.team]
    /\ r.op = "add" => q.team = made + 1 /\ made' = made + 1 /\ rows' = rows \cup {made + 1}
    /\ r.op = "delete" => \A t \in rows' : staff'[t] = staff[t]
    /\ r.op = "save" =>
        /\ \A t \in rows : t # r.team => staff'[t] = staff[t]
        /\ q.stage = "error" => staff' = staff
        /\ q.stage = "ok" => r.team \in rows /\ q.count = Cardinality(staff'[r.team])

LEMMA ServerWorks ==
  ASSUME TypeInv, NEW s \in Slots, Serve(s)
  PROVE  /\ s \in Busy /\ flight[s] \in Requests
         /\ \E q \in Requests : Reply(s, q) /\ Works(flight[s], q)
<1> DEFINE r == flight[s]
<1>1. s \in Busy /\ r \in Requests
  BY ServeAnswers
<1> SUFFICES \E q \in Requests : Reply(s, q) /\ Works(r, q)
  BY <1>1
<1>2. \A t \in rows : t \in Teams /\ staff[t] \in SUBSET Users
  BY RowTypes DEF TypeInv, TypeOK
<1>3. staff \in [Teams -> SUBSET Users] /\ made \in Nat
  BY TeamsAssumption DEF TypeInv, TypeOK, Teams
<1>4. /\ Refused(r).team = r.team /\ Granted(r) \in Requests
      /\ \A x \in SUBSET Users : Found(r, x).team = r.team /\ Found(r, x).users = x
      /\ \A x, y : Counted(r, x, y).count = y
      /\ \A x : Listed(r, x).team = r.team
  BY <1>1 DEF Requests, Refused, Found, Counted, Listed, Granted
<1>5. ASSUME Refuse(s), r.stage = "sent",
             r.op \in {"fetch", "select"} => r.team \notin rows, r.op \notin {"load", "add"}
      PROVE  \E q \in Requests : Reply(s, q) /\ Works(r, q)
  <2> DEFINE q == Refused(r)
  <2>1. /\ q \in Requests /\ q.stage = "error" /\ q.op = r.op /\ q.here = r.here
        /\ q.team = r.team
    BY <1>1, <1>4, AnswerSays
  <2>2. Reply(s, q) /\ UNCHANGED server
    BY <1>5 DEF Refuse, Refused
  <2> HIDE DEF q
  <2>3. Works(r, q)
    BY <1>5, <2>1, <2>2 DEF Works, server
  <2> QED
    BY <2>1, <2>2, <2>3
<1>6. CASE GetTeams(s)
  <2>1. PICK f \in Listings(rows) :
           Reply(s, [r EXCEPT !.stage = "ok", !.listing = [i \in DOMAIN f |-> RowOf(f[i])]])
    BY <1>6 DEF GetTeams
  <2> DEFINE x == [i \in DOMAIN f |-> RowOf(f[i])]
  <2>2. UNCHANGED server /\ r.op = "load" /\ r.stage = "sent"
    BY <1>6 DEF GetTeams, Sent
  <2>3. \A t : RowOf(t).id = t /\ RowOf(t).count = Cardinality(staff[t])
    BY DEF RowOf
  <2>4. \A i \in DOMAIN x : x[i].count = Cardinality(staff[x[i].id])
    BY <2>3
  <2>5. Reply(s, Listed(r, x))
    BY <2>1 DEF Listed
  <2> HIDE DEF x
  <2> DEFINE q == Listed(r, x)
  <2>6. flight'[s] = q /\ flight' \in [Slots -> Requests \cup {NoRequest}]
    BY <1>1, <2>5, ServeTypes DEF Reply, TypeInv, TypeOK
  <2>7. /\ q.stage = "ok" /\ q.op = r.op /\ q.here = r.here /\ q.listing = x
        /\ q.team = r.team
    BY <1>1 DEF Listed, Requests
  <2>8. q \in Requests
    BY <2>2, <2>6, <2>7 DEF NoRequest
  <2> HIDE DEF q
  <2>9. Works(r, q)
    BY <2>2, <2>4, <2>7 DEF Works, server
  <2> QED
    BY <2>5, <2>8, <2>9 DEF q
<1>7. CASE GetTeamMembers(s)
  <2>1. r.op \in {"fetch", "select"} /\ r.stage = "sent"
    BY <1>7 DEF GetTeamMembers, Sent
  <2>2. ASSUME r.team \in rows PROVE \E q \in Requests : Reply(s, q) /\ Works(r, q)
    <3> DEFINE u == staff[r.team]
               q == Found(r, u)
    <3>1. u \in SUBSET Users
      BY <1>2, <2>2
    <3>2. Reply(s, q) /\ UNCHANGED server
      BY <1>7, <2>2 DEF GetTeamMembers, Found
    <3>3. /\ q \in Requests /\ q.stage = "ok" /\ q.op = r.op /\ q.here = r.here
          /\ q.team = r.team /\ q.users = u
      BY <1>1, <1>4, <3>1, AnswerSays DEF Answers
    <3> HIDE DEF q
    <3>4. Works(r, q)
      BY <2>1, <3>2, <3>3 DEF Works, server
    <3> QED
      BY <3>2, <3>3, <3>4
  <2>3. CASE r.team \notin rows
    BY <1>5, <1>7, <2>1, <2>3 DEF GetTeamMembers
  <2> QED
    BY <2>2, <2>3
<1>8. CASE AddTeam(s)
  <2> DEFINE q == Numbered(r, made + 1)
  <2>1. /\ r.op = "add" /\ r.stage = "sent" /\ rows' = rows \cup {made + 1}
        /\ made' = made + 1 /\ staff' = staff /\ Reply(s, q)
    BY <1>8 DEF AddTeam, Sent, Numbered
  <2>2. made + 1 \in Teams
    BY <1>3, <1>8, TeamsAssumption DEF AddTeam, Teams
  <2>3. /\ q \in Requests /\ q.stage = "ok" /\ q.op = r.op /\ q.here = r.here
        /\ q.team = made + 1
    BY <1>1, <2>2, AnswerSays DEF Answers
  <2> HIDE DEF q
  <2>4. Works(r, q)
    BY <2>1, <2>3 DEF Works
  <2> QED
    BY <2>1, <2>3, <2>4
<1>9. CASE UpdateTeam(s)
  <2>1. r.op = "edit" /\ r.stage = "sent"
    BY <1>9 DEF UpdateTeam, Sent
  <2>2. ASSUME r.team \in rows PROVE \E q \in Requests : Reply(s, q) /\ Works(r, q)
    <3> DEFINE q == Granted(r)
    <3>1. Reply(s, q) /\ UNCHANGED <<rows, made, staff>>
      BY <1>9, <2>2 DEF UpdateTeam, Granted
    <3>2. /\ q \in Requests /\ q.stage = "ok" /\ q.op = r.op /\ q.here = r.here
          /\ q.team = r.team
      BY <1>1, AnswerSays DEF Answers
    <3> HIDE DEF q
    <3>3. Works(r, q)
      BY <2>1, <3>1, <3>2 DEF Works
    <3> QED
      BY <3>1, <3>2, <3>3
  <2>3. CASE r.team \notin rows
    BY <1>5, <1>9, <2>1, <2>3 DEF UpdateTeam
  <2> QED
    BY <2>2, <2>3
<1>10. CASE ServeDelete(s)
  <2>1. r.op = "delete" /\ r.stage = "sent"
    BY <1>10 DEF ServeDelete, Sent
  <2>2. ASSUME r.team \in rows PROVE \E q \in Requests : Reply(s, q) /\ Works(r, q)
    <3> DEFINE q == Granted(r)
    <3>1. /\ Reply(s, q) /\ rows' = rows \ {r.team} /\ made' = made
          /\ staff' = [staff EXCEPT ![r.team] = {}]
      BY <1>10, <2>2 DEF ServeDelete, RemoveTeam, Granted
    <3>2. /\ q \in Requests /\ q.stage = "ok" /\ q.op = r.op /\ q.here = r.here
          /\ q.team = r.team
      BY <1>1, AnswerSays DEF Answers
    <3>3. \A t \in rows' : staff'[t] = staff[t]
      BY <1>2, <1>3, <3>1
    <3> HIDE DEF q
    <3>4. Works(r, q)
      BY <2>1, <3>1, <3>2, <3>3 DEF Works
    <3> QED
      BY <3>1, <3>2, <3>4
  <2>3. CASE r.team \notin rows
    BY <1>5, <1>10, <2>1, <2>3 DEF ServeDelete
  <2> QED
    BY <2>2, <2>3
<1>11. CASE UpdateTeamMembers(s)
  <2>1. r.op = "save" /\ r.stage = "sent"
    BY <1>11 DEF UpdateTeamMembers, Sent
  <2>2. ASSUME r.team \in rows, Unambiguous(r)
        PROVE  \E q \in Requests : Reply(s, q) /\ Works(r, q)
    <3> DEFINE x == name[r.team]
               S == StaffAfter(r)
               q == Counted(r, x, Cardinality(S))
    <3>1. x \in Names /\ r.team \in Teams
      BY <2>2, RowTypes DEF TypeInv
    <3>2. S \in SUBSET Users
      BY <1>2, <2>2 DEF StaffAfter
    <3>3. Cardinality(S) \in Nat
      BY <3>2, RowTypes
    <3>4. /\ Reply(s, q) /\ UNCHANGED <<rows, made>>
          /\ staff' = [staff EXCEPT ![r.team] = S]
      BY <1>11, <2>2 DEF UpdateTeamMembers, Counted
    <3> HIDE DEF S, x
    <3>5. /\ q \in Requests /\ q.stage = "ok" /\ q.op = r.op /\ q.here = r.here
          /\ q.team = r.team /\ q.count = Cardinality(S)
      BY <1>1, <1>4, <3>1, <3>3, AnswerSays DEF Answers
    <3>6. staff'[r.team] = S /\ \A t \in rows : t # r.team => staff'[t] = staff[t]
      BY <1>2, <1>3, <3>1, <3>4
    <3> HIDE DEF q
    <3>7. Works(r, q)
      BY <2>1, <2>2, <3>4, <3>5, <3>6 DEF Works
    <3> QED
      BY <3>4, <3>5, <3>7
  <2>3. CASE ~(r.team \in rows /\ Unambiguous(r))
    BY <1>5, <1>11, <2>1, <2>3 DEF UpdateTeamMembers
  <2> QED
    BY <2>2, <2>3
<1> QED
  BY <1>1, <1>6, <1>7, <1>8, <1>9, <1>10, <1>11 DEF Serve

LEMMA ServerTab ==
  ASSUME TypeInv, CleanInv, TabInv, NEW s \in Slots, Serve(s)
  PROVE  TabInv'
<1>1. UNCHANGED <<open, clean, serviced, boxes>>
  BY DEF Serve, view, tab, excuse
<1> SUFFICES ASSUME open, clean PROVE TabInv'
  BY <1>1 DEF TabInv
<1>2. s \in Busy /\ flight[s] \in Requests
  BY ServerWorks
<1>3. PICK q \in Requests : Reply(s, q) /\ Works(flight[s], q)
  BY ServerWorks
<1>4. Busy = {s} /\ Busy' = {s} /\ flight'[s] = q
  BY <1>2, <1>3, OneAtATime, ReplyFacts DEF TypeInv
<1>5. /\ made \in Nat /\ serviced \in Nat /\ serviced <= made
      /\ Selects(flight[s]) /\ (serviced \in rows /\ Settled(flight[s]) => Seen)
  BY <1>4, TeamsAssumption DEF TypeInv, TypeOK, Teams, NoTeam, TabInv
<1>6. made' \in Nat /\ made <= made'
  BY <1>3, <1>5 DEF Works
<1>7. CASE flight[s].op = "select"
  <2>1. /\ q.op = "select" /\ q.team = serviced /\ serviced \in rows /\ q.stage = "ok"
        /\ q.users = staff[serviced] /\ rows' = rows /\ staff' = staff
    BY <1>3, <1>5, <1>7 DEF Works, Selects
  <2>2. (\A p \in Busy : Selects(flight[p]))' /\ ~(\A p \in Busy : Settled(flight[p]))'
    BY <1>1, <1>4, <2>1 DEF Selects, Settled
  <2> QED
    BY <1>1, <1>5, <1>6, <2>2 DEF TabInv
<1>8. CASE flight[s].op # "select"
  <2>1. q.op # "select" /\ q.op = flight[s].op /\ flight[s].stage = "sent"
    BY <1>3, <1>8 DEF Works
  <2>2. (\A p \in Busy : Selects(flight[p]))'
    BY <1>4, <2>1 DEF Selects
  <2>3. Settled(flight[s])
    BY <1>8, <2>1 DEF Settled
  <2>4. ASSUME serviced \in rows', Settled(q) PROVE Seen'
    <3>1. serviced \in rows
      BY <1>3, <1>5, <2>4 DEF Works
    <3>2. staff'[serviced] = staff[serviced]
      BY <1>3, <2>4, <3>1 DEF Works, Settled
    <3> QED
      BY <1>1, <1>5, <2>3, <3>1, <3>2 DEF Seen
  <2>5. (\A p \in Busy : Settled(flight[p]))' => Settled(q)
    BY <1>4 DEF Settled
  <2> QED
    BY <1>1, <1>5, <1>6, <2>2, <2>4, <2>5 DEF TabInv
<1> QED
  BY <1>7, <1>8

LEMMA AnswerTab ==
  ASSUME TypeInv, CleanInv, TabInv, NEW s \in Slots, Answer(s)
  PROVE  TabInv'
<1> DEFINE r == flight[s]
<1>1. Close({s}) => TabInv'
  BY DEF Close, BlankPage, TabInv
<1>2. ASSUME s \in Busy, Done(s), UNCHANGED <<server, clean>>, open' = open,
             ~open => serviced' = serviced,
             open /\ clean => serviced' \in {serviced, NoTeam},
             open /\ clean /\ serviced' \in rows => Seen'
      PROVE  TabInv'
  <2>1. Busy' = Busy \ {s}
    BY <1>2, DoneFacts DEF TypeInv
  <2>2. open /\ clean => Busy' = {}
    BY <1>2, <2>1, OneAtATime
  <2>3. NoTeam <= made
    BY TeamsAssumption DEF TypeInv, TypeOK, Teams, NoTeam
  <2>4. open /\ clean => (\A p \in Busy : Selects(flight[p]))'
    BY <2>2
  <2> QED
    BY <1>2, <2>3, <2>4 DEF TabInv, server
<1>3. ASSUME s \in Busy, Done(s), UNCHANGED <<server, clean, serviced, boxes>>,
             open' = open, r.op \notin {"select", "save"}
      PROVE  TabInv'
  <2>1. ASSUME open, clean, serviced \in rows PROVE Seen'
    <3>1. Seen
      BY <1>3, <2>1, OneAtATime DEF TabInv, Settled
    <3> QED
      BY <1>3, <3>1 DEF Seen, server
  <2> QED
    BY <1>2, <1>3, <2>1
<1>4. Alive \subseteq Busy
  BY BusyIsRequest DEF TypeInv
<1>5. CASE OnLoad(s) \/ OnMembersFetched(s) \/ OnTeamAdded(s) \/ OnEditSaved(s)
           \/ OnTeamDeleted(s)
  <2>1. s \in Busy /\ r.op \notin {"select", "save"}
    BY <1>4, <1>5 DEF OnLoad, OnMembersFetched, OnTeamAdded, OnEditSaved, OnTeamDeleted,
                      Answered
  <2>2. Done(s) /\ UNCHANGED <<server, clean, serviced, boxes>> /\ open' = open
    BY <1>5 DEF OnLoad, OnMembersFetched, OnTeamAdded, OnEditSaved, OnTeamDeleted,
                view, tab, excuse
  <2> QED
    BY <1>3, <2>1, <2>2
<1>6. CASE OnTeamSelected(s)
  <2>1. /\ s \in Busy /\ r.op = "select" /\ r.stage # "sent" /\ Done(s)
        /\ UNCHANGED <<server, clean, serviced>> /\ open' = open
    BY <1>4, <1>6 DEF OnTeamSelected, Answered, view, excuse
  <2>2. ASSUME open, clean PROVE Seen'
    <3>1. r \in Requests /\ Selects(r)
      BY <2>1, <2>2, OneAtATime DEF TabInv
    <3>2. r.stage = "ok" /\ r.users = staff[serviced]
      BY <2>1, <3>1 DEF Selects, Requests
    <3>3. boxes' = [boxes EXCEPT !["members"] = Copies(r.users),
                                 !["others"] = Copies(Users \ r.users)]
      BY <1>6, <3>2 DEF OnTeamSelected, Succeeded
    <3>4. boxes \in [Boxes -> [Users -> 0 .. MaxCopies]]
      BY DEF TypeInv, TypeOK
    <3>5. /\ boxes'["members"] = Copies(r.users) /\ boxes'["others"] = Copies(Users \ r.users)
          /\ boxes'["removes"] = boxes["removes"] /\ boxes'["adds"] = boxes["adds"]
      BY <3>3, <3>4 DEF Boxes
    <3>6. \A u \in Users : boxes["removes"][u] \in Nat /\ boxes["adds"][u] \in Nat
      BY <3>4, TeamsAssumption DEF Boxes
    <3>7. staff'[serviced'] = r.users
      BY <2>1, <3>2 DEF server
    <3> QED
      BY <3>5, <3>6, <3>7 DEF Seen, Copies
  <2> QED
    BY <1>2, <2>1, <2>2
<1>7. CASE OnMembersSaved(s)
  <2>1. /\ s \in Alive /\ Done(s) /\ UNCHANGED <<server, clean>> /\ open' = open
        /\ serviced' = NoTeam
    BY <1>7 DEF OnMembersSaved, Answered, view
  <2>2. NoTeam \notin rows
    BY RowTypes DEF NoTeam, Teams
  <2>3. ~open => serviced = NoTeam
    BY DEF TabInv
  <2> QED
    BY <1>2, <1>4, <2>1, <2>2, <2>3
<1>8. CASE OnSaveRefused(s)
  BY <1>1, <1>8 DEF OnSaveRefused
<1>9. CASE OnLate(s)
  <2>1. s \in Busy /\ s \notin Alive
    BY <1>9 DEF OnLate
  <2>2. ~(open /\ clean)
    BY <2>1, OneAtATime
  <2>3. CASE UNCHANGED <<view, tab, excuse>>
    BY <2>2, <2>3 DEF view, tab, excuse, TabInv
  <2> QED
    BY <1>1, <1>9, <2>3 DEF OnLate
<1> QED
  BY <1>5, <1>6, <1>7, <1>8, <1>9 DEF Answer

LEMMA TabInvStep == TypeInv /\ PageInv /\ CleanInv /\ TabInv /\ [Next]_vars => TabInv'
<1> SUFFICES ASSUME TypeInv, PageInv, CleanInv, TabInv, [Next]_vars PROVE TabInv'
  OBVIOUS
<1>1. CASE UNCHANGED vars
  BY <1>1, QuietTab DEF Busy, vars, server, view, tab, excuse
<1>2. ASSUME Fault, open' = open PROVE TabInv'
  BY <1>2 DEF Fault, TabInv, tab, view
<1>3. /\ \A s \in Slots : Lose(s) => TabInv'
      /\ \A t \in Teams : OthersDelete(t) => TabInv'
      /\ \A t \in Teams, u \in Users : OthersMove(t, u) => TabInv'
  BY <1>2 DEF Lose, OthersDelete, OthersMove, Fault, view
<1> QED
  BY <1>1, <1>3, ClickTab, ServerTab, AnswerTab DEF Next

\* With nobody else at work, no lost call and one request at a time, each
\* employee can be moved on the member tab, whatever was picked for the teams
\* that were selected before.
THEOREM NobodyIsHidden == Spec => []NobodyHidden
<1>1. TypeInv /\ PageInv /\ CleanInv /\ TabInv => NobodyHidden
  <2> SUFFICES ASSUME TypeInv, TabInv, clean, Busy = {}, serviced \in rows PROVE Seen
    BY DEF NobodyHidden, Seen
  <2>1. NoTeam \notin rows
    BY RowTypes DEF NoTeam, Teams
  <2> QED
    BY <2>1 DEF TabInv
<1>2. Spec => [](TypeInv /\ PageInv /\ CleanInv /\ TabInv)
  BY TypeInvInit, TypeInvStep, PageInvInit, PageInvStep, CleanInvInit, CleanInvStep,
     TabInvInit, TabInvStep, PTL DEF Spec
<1> QED
  BY <1>1, <1>2, PTL

-----------------------------------------------------------------------------
(* The numbers in the list and the drop-down.                              *)

\* The answer to the request will renew what is shown of team t.
Renewing(r, t) == r.op = "save" /\ r.stage = "ok" /\ r.team = t

RowTrue(row) ==
    row.id \in rows => \/ row.count = Cardinality(staff[row.id])
                       \/ row.fresh \/ row.id \in overtaken
                       \/ \E s \in Busy : Renewing(flight[s], row.id)

MenuTrue ==
    /\ menu.of \in rows /\ NoTeam \notin overtaken
    /\ \A s \in Busy : flight[s].op # "fetch" /\ ~Renewing(flight[s], menu.of)
    => menu.users = staff[menu.of]

\* What the answer to the request brings is true.
Tells(r) ==
    /\ r.op = "load" /\ r.stage = "ok" =>
        \A i \in DOMAIN r.listing : r.listing[i].count = Cardinality(staff[r.listing[i].id])
    /\ r.op = "add" /\ r.stage = "ok" => edit.id # r.team
    /\ r.op = "fetch" => /\ r.team = menu.of /\ r.team \in rows /\ r.stage # "error"
                         /\ r.stage = "ok" => r.users = staff[r.team]
    /\ r.op = "save" /\ r.stage = "ok" =>
        r.team # NoTeam /\ r.count = Cardinality(staff[r.team])

\* The row being edited, if the list L shows it.
EditMatches(L, row) == \A i \in DOMAIN L : L[i].id = row.id => L[i].fresh = row.fresh

CountInv ==
    /\ ~open => menu.of = NoTeam
    /\ ~loaded => edit = NoRow
    /\ open /\ clean =>
        /\ menu.of <= made /\ edit.id <= made
        /\ \A s \in Busy : Tells(flight[s])
        /\ loaded => (\A i \in DOMAIN list : RowTrue(list[i])) /\ EditMatches(list, edit)
        /\ MenuTrue

LEMMA CountInvInit == Init => CountInv
  BY DEF Init, CountInv

\* What stays of a request when it is only marked.
SameTold(q, r) ==
    /\ q.op = r.op /\ q.stage = r.stage /\ q.team = r.team /\ q.users = r.users
    /\ q.listing = r.listing /\ q.count = r.count

\* A click that sends nothing.
LEMMA QuietCount ==
  ASSUME CountInv, open' = open, loaded' = loaded, clean' = clean, rows' = rows,
         made' = made, staff' = staff, list' = list, menu' = menu, overtaken' = overtaken,
         Busy' = Busy, \A q \in Busy : SameTold(flight'[q], flight[q]),
         edit' = edit \/ ( /\ loaded
                           /\ open /\ clean =>
                                /\ edit'.id <= made /\ EditMatches(list, edit')
                                /\ \A q \in Busy : flight[q].op # "add" )
  PROVE  CountInv'
<1>1. \A q \in Busy : \A t : Renewing(flight'[q], t) <=> Renewing(flight[q], t)
  BY DEF Renewing, SameTold
<1>2. \A row : RowTrue(row) => RowTrue(row)'
  BY <1>1 DEF RowTrue
<1>3. MenuTrue => MenuTrue'
  BY <1>1 DEF MenuTrue, SameTold
<1>4. ASSUME open, clean, NEW q \in Busy PROVE Tells(flight[q])'
  <2>1. Tells(flight[q])
    BY <1>4 DEF CountInv
  <2>2. edit' = edit \/ flight[q].op # "add"
    BY <1>4
  <2> QED
    BY <2>1, <2>2 DEF Tells, SameTold
<1>5. (\A i \in DOMAIN list : RowTrue(list[i])) => (\A i \in DOMAIN list : RowTrue(list[i]))'
  BY <1>2 DEF RowTrue
<1> QED
  BY <1>3, <1>4, <1>5 DEF CountInv

\* A click that sends.
LEMMA SendCount ==
  ASSUME TypeInv, CleanInv, CountInv, NEW r \in Requests, NEW t, IsNew(r, r.op, t), Send(r),
         open, loaded, open' = open, loaded' = loaded, list' = list,
         rows' = rows, made' = made, staff' = staff, clean' = (clean /\ Alive = {}),
         edit' = edit \/ (edit'.id = edit.id /\ edit'.fresh = edit.fresh),
         r.op # "fetch" => menu' = menu /\ overtaken' = overtaken,
         r.op = "fetch" => /\ menu'.of = t /\ overtaken' = overtaken \ {NoTeam}
                           /\ \E i \in DOMAIN list : list[i].id = t
  PROVE  CountInv'
<1> SUFFICES ASSUME clean, Alive = {} PROVE CountInv'
  BY DEF CountInv
<1>1. r.here /\ r.stage = "sent" /\ r.team = t
  BY DEF IsNew
<1>2. PICK s \in Slots : Busy' = {s} /\ flight'[s] = r
  BY <1>1, AloneSent
<1>3. Busy = {} /\ Shows(list, rows, name, NoTeam)
  BY <1>1, AloneSent
<1>4. edit'.id <= made /\ EditMatches(list, edit')
  BY DEF CountInv, EditMatches
<1>5. ASSUME NEW i \in DOMAIN list PROVE RowTrue(list[i])'
  <2>1. RowTrue(list[i])
    BY DEF CountInv
  <2>2. list[i].id # NoTeam
    BY RowAt DEF TypeInv, Teams, NoTeam
  <2>3. list[i].id \in overtaken => list[i].id \in overtaken'
    BY <2>2
  <2> QED
    BY <1>3, <2>1, <2>3 DEF RowTrue
<1>6. r.op = "fetch" => t \in rows
  BY <1>3 DEF Shows
<1>7. menu'.of <= made
  <2>1. \A u \in rows : u <= made
    BY DEF TypeInv, TypeOK
  <2> QED
    BY <1>6, <2>1 DEF CountInv
<1>8. MenuTrue'
  <2>1. CASE r.op = "fetch"
    BY <1>2, <2>1 DEF MenuTrue
  <2>2. CASE r.op # "fetch"
    <3>1. MenuTrue
      BY DEF CountInv
    <3> QED
      BY <1>3, <2>2, <3>1 DEF MenuTrue
  <2> QED
    BY <2>1, <2>2
<1>9. (\A q \in Busy : Tells(flight[q]))'
  BY <1>1, <1>2, <1>6 DEF Tells
<1> QED
  BY <1>4, <1>5, <1>7, <1>8, <1>9 DEF CountInv

LEMMA ClickCount == TypeInv /\ PageInv /\ CleanInv /\ CountInv /\ Click => CountInv'
<1> SUFFICES ASSUME TypeInv, PageInv, CleanInv, CountInv, Click PROVE CountInv'
  OBVIOUS
<1>1. ASSUME NEW done, Close(done) PROVE CountInv'
  BY <1>1 DEF Close, BlankPage, CountInv
<1>2. ASSUME NEW u \in Users, NEW from \in Boxes, NEW to \in Boxes,
             from # to, Move(u, from, to)
      PROVE CountInv'
  <2>1. Busy' = Busy /\ \A s \in Busy : flight'[s] = IF flight[s].op = "save"
                                        THEN Late(flight[s]) ELSE flight[s]
    BY <1>2, MoveFacts DEF TypeInv
  <2>2. \A s \in Busy : flight[s] \in Requests
    BY BusyIsRequest DEF TypeInv
  <2>3. \A r \in Requests : SameTold(Late(r), r) /\ SameTold(r, r)
    BY DEF Late, Requests, SameTold
  <2>4. UNCHANGED <<server, view, list, edit, menu, excuse>>
    BY <1>2 DEF Move
  <2>5. \A q \in Busy : SameTold(flight'[q], flight[q])
    BY <2>1, <2>2, <2>3
  <2> QED
    BY <2>1, <2>4, <2>5, QuietCount DEF server, view, excuse
<1>3. CASE OpenPage
  <2> DEFINE r == Request("load", NoTeam)
  <2>1. IsNew(r, "load", NoTeam)
    BY NewRequests DEF Ops
  <2>2. /\ Send(r) /\ ~open /\ open' /\ clean' = (Busy = {})
        /\ UNCHANGED <<rows, made, staff, menu, edit, loaded>>
    BY <1>3 DEF OpenPage, server
  <2>3. ~loaded
    BY <2>2 DEF PageInv
  <2> HIDE DEF r
  <2>4. r \in Requests /\ r.op = "load" /\ r.here /\ r.stage = "sent"
    BY <2>1 DEF IsNew
  <2>5. clean' => \E s \in Slots : Busy' = {s} /\ flight'[s] = r
    BY <2>2, <2>4, SendFacts DEF TypeInv
  <2>6. clean' => (\A q \in Busy : Tells(flight[q]))'
    BY <2>4, <2>5 DEF Tells
  <2>7. menu.of = NoTeam /\ edit = NoRow
    BY <2>2, <2>3 DEF CountInv
  <2>8. NoTeam \notin rows /\ NoTeam <= made /\ NoRow.id = NoTeam
    BY RowTypes DEF NoTeam, Teams, TypeInv, TypeOK, NoRow
  <2>9. MenuTrue'
    BY <2>2, <2>7, <2>8 DEF MenuTrue
  <2> QED
    BY <2>2, <2>3, <2>6, <2>7, <2>8, <2>9 DEF CountInv
<1>4. ASSUME NEW n \in Names, SaveEdits(n) PROVE CountInv'
  <2> DEFINE r == Named(Request("edit", edit.id), n)
  <2>1. edit \in Rows /\ edit.id \in Teams
    BY <1>4, RowAt DEF SaveEdits, TypeInv
  <2>2. IsNew(r, "edit", edit.id)
    BY <2>1, NewRequests DEF Ops
  <2>3. /\ Send(r) /\ UNCHANGED <<open, loaded, list, rows, made, staff, menu, overtaken>>
        /\ open /\ loaded /\ clean' = (clean /\ Alive = {})
    BY <1>4 DEF SaveEdits, Named, view, Usable, server, Crosses
  <2>4. edit'.id = edit.id /\ edit'.fresh = edit.fresh
    BY <1>4, <2>1 DEF SaveEdits, Rows
  <2> HIDE DEF r
  <2>5. r \in Requests /\ r.op = "edit" /\ IsNew(r, r.op, edit.id)
    BY <2>2 DEF IsNew
  <2> QED
    BY <2>3, <2>4, <2>5, SendCount
<1>5. ASSUME NEW n \in Names, SubmitNewTeam(n) PROVE CountInv'
  <2> DEFINE r == Named(Request("add", NoTeam), n)
  <2>1. IsNew(r, "add", NoTeam)
    BY NewRequests DEF Ops
  <2>2. /\ Send(r) /\ UNCHANGED <<open, loaded, list, edit, rows, made, staff, menu, overtaken>>
        /\ open /\ loaded /\ clean' = (clean /\ Alive = {})
    BY <1>5 DEF SubmitNewTeam, Named, view, Usable, server, Crosses
  <2> HIDE DEF r
  <2>3. r \in Requests /\ r.op = "add" /\ IsNew(r, r.op, NoTeam)
    BY <2>1 DEF IsNew
  <2> QED
    BY <2>2, <2>3, SendCount
<1>6. ASSUME NEW i \in DOMAIN list, NEW c \in DOMAIN list, DeleteTeam(c, i) PROVE CountInv'
  <2> DEFINE r == OfRow(Request("delete", list[i].id), i, list[c].id)
  <2>1. i \in Nat /\ list[i].id \in Teams /\ list[c].id \in Teams
    BY RowAt DEF TypeInv
  <2>2. IsNew(r, "delete", list[i].id)
    BY <2>1, NewRequests DEF Ops
  <2>3. /\ Send(r) /\ UNCHANGED <<open, loaded, list, edit, rows, made, staff, menu, overtaken>>
        /\ open /\ loaded /\ clean' = (clean /\ Alive = {})
    BY <1>6 DEF DeleteTeam, OfRow, view, Usable, server, Crosses
  <2> HIDE DEF r
  <2>4. r \in Requests /\ r.op = "delete" /\ IsNew(r, r.op, list[i].id)
    BY <2>2 DEF IsNew
  <2> QED
    BY <2>3, <2>4, SendCount
<1>7. ASSUME NEW i \in DOMAIN list, FetchMembers(i) PROVE CountInv'
  <2> DEFINE r == Request("fetch", list[i].id)
  <2>1. list[i].id \in Teams
    BY RowAt DEF TypeInv
  <2>2. IsNew(r, "fetch", list[i].id)
    BY <2>1, NewRequests DEF Ops
  <2>3. /\ Send(r) /\ UNCHANGED <<open, loaded, list, edit, rows, made, staff>>
        /\ open /\ loaded /\ clean' = (clean /\ Alive = {})
        /\ menu'.of = list[i].id /\ overtaken' = overtaken \ {NoTeam}
    BY <1>7 DEF FetchMembers, view, Usable, server
  <2> HIDE DEF r
  <2>4. r \in Requests /\ r.op = "fetch" /\ IsNew(r, r.op, list[i].id)
    BY <2>2 DEF IsNew
  <2> QED
    BY <2>3, <2>4, SendCount
<1>8. CASE SaveChanges
  <2> DEFINE r == WithPicks(Request("save", selected), boxes["adds"], RemovesSent)
  <2>1. /\ boxes["adds"] \in [Users -> 0 .. MaxCopies]
        /\ RemovesSent \in [Users -> 0 .. MaxCopies]
        /\ selected \in Teams \cup {NoTeam}
    BY DEF TypeInv, TypeOK, Boxes, RemovesSent
  <2>2. IsNew(r, "save", selected)
    BY <2>1, NewRequests DEF Ops
  <2>3. /\ Send(r) /\ UNCHANGED <<open, loaded, list, edit, rows, made, staff, menu, overtaken>>
        /\ open /\ loaded /\ clean' = (clean /\ Alive = {})
    BY <1>8 DEF SaveChanges, WithPicks, view, Usable, server, Crosses
  <2> HIDE DEF r
  <2>4. r \in Requests /\ r.op = "save" /\ IsNew(r, r.op, selected)
    BY <2>2 DEF IsNew
  <2> QED
    BY <2>3, <2>4, SendCount
<1>9. ASSUME NEW i \in DOMAIN list, SelectTeam(i) PROVE CountInv'
  <2> DEFINE r == Request("select", list[i].id)
  <2>1. list[i].id \in Teams
    BY RowAt DEF TypeInv
  <2>2. IsNew(r, "select", list[i].id)
    BY <2>1, NewRequests DEF Ops
  <2>3. /\ Send(r) /\ UNCHANGED <<open, loaded, list, edit, rows, made, staff, menu, overtaken>>
        /\ open /\ loaded /\ clean' = (clean /\ Alive = {})
    BY <1>9 DEF SelectTeam, view, Usable, server, Crosses
  <2> HIDE DEF r
  <2>4. r \in Requests /\ r.op = "select" /\ IsNew(r, r.op, list[i].id)
    BY <2>2 DEF IsNew
  <2> QED
    BY <2>3, <2>4, SendCount
<1>10. \A q \in Busy : SameTold(flight[q], flight[q])
  BY DEF SameTold
<1>11. ASSUME UNCHANGED <<server, view, list, menu, flight, excuse>>,
              edit' = edit \/ ( /\ loaded
                                /\ open /\ clean =>
                                     /\ edit'.id <= made /\ EditMatches(list, edit')
                                     /\ \A q \in Busy : flight[q].op # "add" )
       PROVE CountInv'
  <2>1. Busy' = Busy /\ \A q \in Busy : SameTold(flight'[q], flight[q])
    BY <1>10, <1>11 DEF Busy
  <2> QED
    BY <1>11, <2>1, QuietCount DEF view, server, excuse
<1>12. ASSUME open, clean, loaded, ~overlay
       PROVE  Shows(list, rows, name, NoTeam) /\ \A q \in Busy : flight[q].op # "add"
  <2>1. \A q \in Busy : flight[q].op = "save"
    BY <1>12 DEF CleanInv, Calm, Pending
  <2> QED
    BY <1>12, <2>1 DEF CleanInv, Calm, Harmless
<1>13. ASSUME NEW i \in DOMAIN list, EditTeamData(i) PROVE CountInv'
  <2>1. /\ UNCHANGED <<server, view, list, menu, flight, excuse>> /\ edit' = list[i]
        /\ open /\ loaded /\ ~overlay
    BY <1>13 DEF EditTeamData, Usable
  <2>2. \A t \in rows : t <= made
    BY DEF TypeInv, TypeOK
  <2>3. clean => list[i].id <= made /\ EditMatches(list, list[i])
    BY <1>12, <2>1, <2>2 DEF Shows, EditMatches
  <2> QED
    BY <1>11, <1>12, <2>1, <2>3
<1>14. CASE CancelEdits
  <2>1. /\ UNCHANGED <<server, view, list, menu, flight, excuse>> /\ edit' = NoRow
        /\ open /\ loaded /\ ~overlay
    BY <1>14 DEF CancelEdits, Usable
  <2>2. NoRow.id = NoTeam /\ NoTeam <= made /\ NoTeam \notin Teams
    BY DEF TypeInv, TypeOK, NoRow, NoTeam, Teams
  <2>3. EditMatches(list, NoRow)
    BY <2>2, RowAt DEF EditMatches, TypeInv
  <2> QED
    BY <1>11, <1>12, <2>1, <2>2, <2>3
<1>15. \A i \in DOMAIN list : SelectTeamAgain(i) => CountInv'
  BY <1>11 DEF SelectTeamAgain
<1>16. LeavePage => CountInv'
  BY <1>1 DEF LeavePage
<1>17. \A u \in Users : RemoveFromTeam(u) \/ UndoRemoveFromTeam(u) \/ AddToTeam(u)
                        \/ UndoAddToTeam(u) => CountInv'
  BY <1>2 DEF RemoveFromTeam, UndoRemoveFromTeam, AddToTeam, UndoAddToTeam, Boxes
<1> QED
  BY <1>3, <1>4, <1>5, <1>6, <1>7, <1>8, <1>9, <1>13, <1>14, <1>15, <1>16, <1>17 DEF Click

LEMMA ServerCount ==
  ASSUME TypeInv, CleanInv, CountInv, NEW s \in Slots, Serve(s)
  PROVE  CountInv'
<1>1. UNCHANGED <<view, list, edit, menu, clean, overtaken>>
  BY DEF Serve, excuse
<1> SUFFICES ASSUME open, clean PROVE CountInv'
  BY <1>1 DEF CountInv, view
<1> DEFINE r == flight[s]
<1>2. s \in Busy /\ r \in Requests
  BY ServerWorks
<1>3. PICK q \in Requests : Reply(s, q) /\ Works(r, q)
  BY ServerWorks
<1>4. Busy = {s} /\ Busy' = {s} /\ flight'[s] = q
  BY <1>2, <1>3, OneAtATime, ReplyFacts DEF TypeInv
<1>5. /\ q.op = r.op /\ r.stage = "sent" /\ Tells(r)
      /\ menu.of <= made /\ edit.id <= made /\ MenuTrue
  BY <1>3, <1>4 DEF Works, CountInv
<1>6. made \in Nat /\ menu.of \in Nat /\ edit.id \in Nat
  BY TeamsAssumption DEF TypeInv, TypeOK, Teams, NoTeam, Rows, NoRow
<1>7. made' \in Nat /\ made <= made'
  BY <1>3, <1>6 DEF Works
<1>8. menu.of <= made' /\ edit.id <= made'
  BY <1>5, <1>6, <1>7
<1>9. made + 1 \notin rows /\ \A t \in rows : t <= made /\ t # NoTeam
  BY <1>6 DEF TypeInv, TypeOK, NoTeam
<1>10. Tells(q)'
  <2>1. r.op = "load" => staff' = staff
    BY <1>3 DEF Works
  <2>2. r.op = "add" => edit.id # q.team
    BY <1>3, <1>5, <1>6 DEF Works
  <2>3. r.op = "fetch" => /\ q.team = menu.of /\ q.team \in rows /\ q.stage = "ok"
                          /\ q.users = staff[q.team] /\ rows' = rows /\ staff' = staff
    BY <1>3, <1>5 DEF Works, Tells
  <2>4. r.op = "save" /\ q.stage = "ok" =>
           q.team # NoTeam /\ q.count = Cardinality(staff'[q.team])
    BY <1>3, <1>9 DEF Works
  <2>5. r.op = "load" =>
        \A i \in DOMAIN q.listing : q.listing[i].count = Cardinality(staff[q.listing[i].id])
    BY <1>3 DEF Works
  <2> QED
    BY <1>1, <1>5, <2>1, <2>2, <2>3, <2>4, <2>5 DEF Tells
<1>11. ASSUME NEW t \in rows', t # made + 1
       PROVE  t \in rows /\ (staff'[t] = staff[t] \/ Renewing(q, t))
  <2>1. t \in rows
    BY <1>3, <1>11 DEF Works
  <2> QED
    BY <1>3, <2>1 DEF Works, Renewing
<1>12. ASSUME loaded, NEW i \in DOMAIN list PROVE RowTrue(list[i])'
  <2>1. RowTrue(list[i])
    BY <1>12 DEF CountInv
  <2>2. r.op = "add" => list[i].id \in rows
    BY <1>2, <1>5, <1>12, OneAtATime DEF Harmless, Shows
  <2>3. ASSUME list[i].id \in rows' PROVE list[i].id # made + 1
    BY <1>3, <1>9, <2>2, <2>3 DEF Works
  <2>4. ~Renewing(r, list[i].id)
    BY <1>5 DEF Renewing
  <2>5. list[i].id \in rows' => list[i].id \in rows
                                /\ (staff'[list[i].id] = staff[list[i].id] \/ Renewing(q, list[i].id))
    BY <1>11, <2>3
  <2> QED
    BY <1>1, <1>4, <2>1, <2>4, <2>5 DEF RowTrue, Renewing
<1>13. MenuTrue'
  <2>1. ASSUME menu.of \in rows', NoTeam \notin overtaken, q.op # "fetch",
               ~Renewing(q, menu.of)
        PROVE  menu.users = staff'[menu.of]
    <3>1. menu.of \in rows /\ staff'[menu.of] = staff[menu.of]
      BY <1>5, <1>6, <1>11, <2>1
    <3>2. r.op # "fetch" /\ ~Renewing(r, menu.of)
      BY <1>5, <2>1 DEF Renewing
    <3> QED
      BY <1>4, <1>5, <2>1, <3>1, <3>2 DEF MenuTrue
  <2> QED
    BY <1>1, <1>4, <2>1 DEF MenuTrue, Renewing
<1>14. (\A p \in Busy : Tells(flight[p]))'
  BY <1>4, <1>10 DEF Tells
<1> QED
  BY <1>1, <1>8, <1>12, <1>13, <1>14 DEF CountInv, view, EditMatches

\* The answer to the one request is taken.
LEMMA LandCount ==
  ASSUME TypeInv, PageInv, CleanInv, CountInv, NEW s \in Alive, Done(s),
         UNCHANGED <<server, clean>>, open' = open, loaded \/ edit' = edit,
         loaded' = loaded \/ loaded',
         open /\ clean /\ Tells(flight[s]) =>
            /\ menu'.of = menu.of /\ edit' \in {edit, NoRow}
            /\ loaded' =>
                /\ EditMatches(list', edit')
                /\ \A i \in DOMAIN list' :
                     list'[i].id \in rows => \/ list'[i].count = Cardinality(staff[list'[i].id])
                                             \/ list'[i].fresh \/ list'[i].id \in overtaken'
            /\ menu.of \in rows /\ NoTeam \notin overtaken' => menu'.users = staff[menu.of]
  PROVE  CountInv'
<1>1. s \in Busy
  BY BusyIsRequest DEF TypeInv
<1>2. open /\ loaded \in BOOLEAN
  BY DEF PageInv, TypeInv, TypeOK
<1>3. ~loaded' => edit' = NoRow
  BY <1>2 DEF CountInv
<1> SUFFICES ASSUME clean PROVE CountInv'
  BY <1>2, <1>3 DEF CountInv
<1>4. Busy = {s} /\ Busy' = {}
  BY <1>1, <1>2, OneAtATime, DoneFacts DEF TypeInv
<1>5. Tells(flight[s])
  BY <1>2, <1>4 DEF CountInv
<1>6. NoRow.id <= made /\ edit.id <= made /\ menu.of <= made
  BY <1>2 DEF CountInv, NoRow, NoTeam, TypeInv, TypeOK, Teams
<1>7. loaded' => (\A i \in DOMAIN list : RowTrue(list[i]))'
  BY <1>2, <1>5 DEF RowTrue, server
<1>8. MenuTrue'
  BY <1>2, <1>5 DEF MenuTrue, server
<1> QED
  BY <1>2, <1>3, <1>4, <1>5, <1>6, <1>7, <1>8 DEF CountInv, server

LEMMA AnswerCount ==
  ASSUME TypeInv, PageInv, CleanInv, CountInv, NEW s \in Slots, Answer(s)
  PROVE  CountInv'
<1> DEFINE r == flight[s]
<1>1. Close({s}) => CountInv'
  BY DEF Close, BlankPage, CountInv
<1>2. Alive \subseteq Busy
  BY BusyIsRequest DEF TypeInv
<1>3. ASSUME open, clean, s \in Busy
      PROVE  /\ Pending(r) /\ r \in Requests /\ Busy = {s}
             /\ EditMatches(list, edit) \/ ~loaded
  BY <1>3, OneAtATime DEF CountInv
<1>4. ASSUME open, clean, s \in Busy, loaded, NEW i \in DOMAIN list,
             list[i].id \in rows, ~Renewing(r, list[i].id)
      PROVE  \/ list[i].count = Cardinality(staff[list[i].id])
             \/ list[i].fresh \/ list[i].id \in overtaken
  BY <1>3, <1>4 DEF CountInv, RowTrue
<1>5. ASSUME open, clean, s \in Busy, r.op # "fetch", ~Renewing(r, menu.of),
             menu.of \in rows, NoTeam \notin overtaken
      PROVE  menu.users = staff[menu.of]
  BY <1>3, <1>5 DEF CountInv, MenuTrue
<1>6. list \in Seq(Rows) /\ NoTeam \notin Teams
  BY DEF TypeInv, TypeOK, NoTeam, Teams
<1>7. CASE OnLoad(s)
  <2>1. /\ s \in Alive /\ r.op = "load" /\ r.stage # "sent" /\ Done(s)
        /\ UNCHANGED <<server, open, edit, menu, clean, overtaken>>
        /\ loaded' = loaded \/ loaded'
    BY <1>7 DEF OnLoad, Answered, excuse
  <2>2. ~loaded /\ edit = NoRow
    BY <2>1 DEF PageInv, CountInv
  <2>3. ASSUME open, clean, Tells(r)
        PROVE  /\ EditMatches(list', edit)
               /\ \A i \in DOMAIN list' : list'[i].count = Cardinality(staff[list'[i].id])
    <3>1. r.stage = "ok" /\ r.listing \in Seq(Rows)
      BY <1>2, <1>3, <2>1, <2>3 DEF Pending, Requests
    <3>2. list' = r.listing
      BY <1>7, <3>1 DEF OnLoad, Succeeded
    <3>3. \A i \in DOMAIN list' : list'[i].id # NoRow.id
      <4>1. \A row \in Rows : row.id # NoRow.id
        BY <1>6 DEF Rows, NoRow
      <4>2. \A i \in DOMAIN r.listing : r.listing[i] \in Rows
        BY <3>1
      <4> QED
        BY <3>2, <4>1, <4>2
    <3> QED
      BY <2>1, <2>2, <2>3, <3>1, <3>2, <3>3 DEF Tells, EditMatches
  <2>4. ~Renewing(r, menu.of) /\ r.op # "fetch"
    BY <2>1 DEF Renewing
  <2> QED
    BY <1>2, <1>5, <2>1, <2>2, <2>3, <2>4, LandCount
<1>8. CASE OnMembersFetched(s)
  <2>1. /\ s \in Alive /\ r.op = "fetch" /\ r.stage # "sent" /\ Done(s)
        /\ UNCHANGED <<server, open, loaded, list, edit, clean, overtaken>>
    BY <1>8 DEF OnMembersFetched, Answered, excuse, view
  <2>2. ASSUME open, clean, Tells(r)
        PROVE  menu'.of = menu.of /\ menu'.users = staff[menu.of]
    <3>1. r.stage = "ok" /\ r.users = staff[menu.of]
      BY <1>2, <1>3, <2>1, <2>2 DEF Tells, Requests
    <3>2. menu' = [menu EXCEPT !.users = r.users]
      BY <1>8, <3>1 DEF OnMembersFetched, Succeeded
    <3>3. menu \in [of : Teams \cup {NoTeam}, users : SUBSET Users]
      BY DEF TypeInv, TypeOK
    <3> QED
      BY <3>1, <3>2, <3>3
  <2>3. \A t : ~Renewing(r, t)
    BY <2>1 DEF Renewing
  <2> QED
    BY <1>2, <1>3, <1>4, <2>1, <2>2, <2>3, LandCount
<1>9. CASE OnTeamSelected(s)
  <2>1. /\ s \in Alive /\ r.op = "select" /\ Done(s)
        /\ UNCHANGED <<server, open, loaded, list, edit, menu, clean, overtaken>>
    BY <1>9 DEF OnTeamSelected, Answered, excuse, view
  <2>2. \A t : ~Renewing(r, t)
    BY <2>1 DEF Renewing
  <2> QED
    BY <1>2, <1>3, <1>4, <1>5, <2>1, <2>2, LandCount
<1>10. CASE OnTeamAdded(s)
  <2>1. /\ s \in Alive /\ r.op = "add" /\ r.stage # "sent" /\ Done(s)
        /\ UNCHANGED <<server, open, loaded, edit, menu, clean, overtaken>>
    BY <1>10 DEF OnTeamAdded, Answered, excuse, view
  <2>2. \A t : ~Renewing(r, t)
    BY <2>1 DEF Renewing
  <2>3. ASSUME open, clean, loaded, Tells(r)
        PROVE  /\ EditMatches(list', edit)
               /\ \A i \in DOMAIN list' :
                     list'[i].id \in rows => \/ list'[i].count = Cardinality(staff[list'[i].id])
                                             \/ list'[i].fresh \/ list'[i].id \in overtaken
    <3>1. r.stage = "ok"
      BY <1>2, <1>3, <2>1, <2>3 DEF Pending, Requests
    <3>2. PICK n : list' = Append(list, NewRow(r, n))
      BY <1>10, <3>1 DEF OnTeamAdded, Succeeded
    <3>3. NewRow(r, n).id # edit.id /\ NewRow(r, n).fresh
      BY <2>1, <2>3, <3>1 DEF Tells, NewRow
    <3>4. \A i \in DOMAIN list' : \/ list'[i] = NewRow(r, n)
                                  \/ i \in DOMAIN list /\ list'[i] = list[i]
      <4> HIDE DEF NewRow
      <4> QED
        BY <1>6, <3>2
    <3>5. EditMatches(list, edit)
      BY <1>2, <1>3, <2>1, <2>3
    <3>6. EditMatches(list', edit)
      BY <3>3, <3>4, <3>5 DEF EditMatches
    <3> QED
      BY <1>2, <1>4, <2>1, <2>2, <2>3, <3>3, <3>4, <3>6
  <2> QED
    BY <1>2, <1>5, <2>1, <2>2, <2>3, LandCount
<1>11. CASE OnTeamDeleted(s)
  <2>1. /\ s \in Alive /\ r.op = "delete" /\ Done(s)
        /\ UNCHANGED <<server, open, loaded, edit, menu, clean, overtaken>>
    BY <1>11 DEF OnTeamDeleted, Answered, excuse, view
  <2>2. \A t : ~Renewing(r, t)
    BY <2>1 DEF Renewing
  <2>3. r.index \in Nat
    BY <1>2, <2>1, BusyIsRequest DEF TypeInv, Requests
  <2>4. \A i \in DOMAIN list' : \E j \in DOMAIN list : list'[i] = list[j]
    <3>1. CASE list' = list
      BY <3>1
    <3>2. CASE list' = Without(list, r.index)
      <4>1. DOMAIN list = 1 .. Len(list) /\ Len(list) \in Nat
        BY <1>6
      <4>2. DOMAIN list' = 1 .. Len(list) - 1
        BY <3>2 DEF Without
      <4>3. \A i \in DOMAIN list' : /\ i \in DOMAIN list /\ i + 1 \in DOMAIN list
                                    /\ list'[i] = list[i] \/ list'[i] = list[i + 1]
        BY <3>2, <4>1, <4>2 DEF Without
      <4> QED
        BY <4>3
    <3> QED
      BY <1>11, <3>1, <3>2 DEF OnTeamDeleted
  <2>5. ASSUME open, clean, loaded
        PROVE  /\ EditMatches(list', edit)
               /\ \A i \in DOMAIN list' :
                     list'[i].id \in rows => \/ list'[i].count = Cardinality(staff[list'[i].id])
                                             \/ list'[i].fresh \/ list'[i].id \in overtaken
    <3>1. EditMatches(list', edit)
      BY <1>2, <1>3, <2>1, <2>4, <2>5 DEF EditMatches
    <3> QED
      BY <1>2, <1>4, <2>1, <2>2, <2>4, <2>5, <3>1
  <2> QED
    BY <1>2, <1>5, <2>1, <2>2, <2>5, LandCount
<1>12. CASE OnEditSaved(s)
  <2>1. /\ s \in Alive /\ r.op = "edit" /\ Done(s)
        /\ UNCHANGED <<server, open, loaded, menu, clean>>
    BY <1>12 DEF OnEditSaved, Answered, view
  <2>2. \A t : ~Renewing(r, t)
    BY <2>1 DEF Renewing
  <2>3. CASE UNCHANGED <<list, edit, overtaken>>
    BY <1>2, <1>3, <1>4, <1>5, <2>1, <2>2, <2>3, LandCount
  <2>4. ASSUME NEW i \in DOMAIN list,
               /\ list[i].id = edit.id
               /\ list' = [list EXCEPT ![i] = edit]
               /\ edit' = NoRow
               /\ overtaken' = IF edit.count # list[i].count
                               THEN overtaken \cup {edit.id} ELSE overtaken
        PROVE  CountInv'
    <3>1. list[i].id # NoTeam /\ \A j \in DOMAIN list : list[j].id # NoRow.id
      BY RowAt DEF TypeInv, NoTeam, Teams, NoRow
    <3>2. /\ DOMAIN list' = DOMAIN list /\ list'[i] = edit
          /\ \A j \in DOMAIN list : j # i => list'[j] = list[j]
      BY <1>6, <2>4
    <3>3. EditMatches(list', edit')
      BY <2>4, <3>1, <3>2 DEF EditMatches
    <3>4. loaded
      <4>1. edit # NoRow
        BY <2>4, <3>1
      <4> QED
        BY <4>1 DEF CountInv
    <3>5. NoTeam \notin overtaken' => NoTeam \notin overtaken
      BY <2>4
    <3>6. ASSUME open, clean, NEW j \in DOMAIN list', list'[j].id \in rows
          PROVE  \/ list'[j].count = Cardinality(staff[list'[j].id])
                 \/ list'[j].fresh \/ list'[j].id \in overtaken'
      <4>1. \/ list[j].count = Cardinality(staff[list[j].id])
            \/ list[j].fresh \/ list[j].id \in overtaken
        BY <1>2, <1>4, <2>1, <2>2, <2>4, <3>2, <3>4, <3>6
      <4>2. CASE j # i
        BY <2>4, <3>2, <4>1, <4>2
      <4>3. CASE j = i
        <5>1. list[i].fresh = edit.fresh
          BY <1>2, <1>3, <2>1, <2>4, <3>4, <3>6 DEF EditMatches
        <5> QED
          BY <2>4, <3>2, <4>1, <4>3, <5>1
      <4> QED
        BY <4>2, <4>3
    <3> HIDE <2>4
    <3>7. edit' = NoRow
      BY <2>4
    <3> QED
      BY <1>2, <1>5, <2>1, <2>2, <3>3, <3>4, <3>5, <3>6, <3>7, LandCount
  <2> QED
    BY <1>12, <2>3, <2>4 DEF OnEditSaved
<1>13. CASE OnMembersSaved(s)
  <2> DEFINE t == r.team
             Replaced(i) == list[i].id = t /\ ~list[i].fresh
  <2>1. /\ s \in Alive /\ r.op = "save" /\ r.stage = "ok" /\ Done(s)
        /\ UNCHANGED <<server, open, loaded, edit, menu, clean>>
        /\ list' = [i \in DOMAIN list |->
                      IF Replaced(i) THEN Renewed(list[i], r) ELSE list[i]]
        /\ overtaken' = (overtaken \ {t}) \cup (IF menu.of = t THEN {NoTeam} ELSE {})
    BY <1>13 DEF OnMembersSaved, Answered, view, Succeeded
  <2>2. /\ DOMAIN list' = DOMAIN list
        /\ \A i \in DOMAIN list : list'[i] = IF Replaced(i) THEN Renewed(list[i], r) ELSE list[i]
    BY <2>1
  <2>3. \A row \in Rows : /\ Renewed(row, r).id = row.id /\ Renewed(row, r).fresh = row.fresh
                          /\ Renewed(row, r).count = r.count
    BY DEF Renewed, Rows
  <2>4. \A i \in DOMAIN list : /\ list'[i].id = list[i].id /\ list'[i].fresh = list[i].fresh
                               /\ Replaced(i) => list'[i].count = r.count
                               /\ ~Replaced(i) => list'[i].count = list[i].count
    BY <1>6, <2>2, <2>3
  <2>5. ASSUME open, clean, Tells(r)
        PROVE  t # NoTeam /\ r.count = Cardinality(staff[t])
    BY <2>1, <2>5 DEF Tells
  <2>6. open /\ clean /\ loaded => EditMatches(list', edit)
    BY <1>2, <1>3, <2>1, <2>2, <2>4 DEF EditMatches
  <2>7. ASSUME open, clean, loaded, Tells(r), NEW i \in DOMAIN list', list'[i].id \in rows
        PROVE  \/ list'[i].count = Cardinality(staff[list'[i].id])
               \/ list'[i].fresh \/ list'[i].id \in overtaken'
    <3>1. CASE list[i].id = t
      BY <2>2, <2>4, <2>5, <2>7, <3>1
    <3>2. CASE list[i].id # t
      <4>1. ~Renewing(r, list[i].id)
        BY <3>2 DEF Renewing
      <4>2. \/ list[i].count = Cardinality(staff[list[i].id])
            \/ list[i].fresh \/ list[i].id \in overtaken
        BY <1>2, <1>4, <2>1, <2>2, <2>4, <2>7, <4>1
      <4> QED
        BY <2>1, <2>2, <2>4, <2>7, <3>2, <4>2
    <3> QED
      BY <3>1, <3>2
  <2>8. ASSUME open, clean, Tells(r), menu.of \in rows, NoTeam \notin overtaken'
        PROVE  menu.users = staff[menu.of]
    <3>1. menu.of # t /\ NoTeam \notin overtaken
      BY <2>1, <2>5, <2>8
    <3>2. ~Renewing(r, menu.of) /\ r.op # "fetch"
      BY <2>1, <3>1 DEF Renewing
    <3> QED
      BY <1>2, <1>5, <2>1, <2>8, <3>1, <3>2
  <2> QED
    BY <2>1, <2>6, <2>7, <2>8, LandCount
<1>14. CASE OnSaveRefused(s)
  BY <1>1, <1>14 DEF OnSaveRefused
<1>15. CASE OnLate(s)
  <2>1. s \in Busy /\ s \notin Alive
    BY <1>15 DEF OnLate
  <2>2. ~(open /\ clean)
    BY <2>1, OneAtATime
  <2>3. CASE UNCHANGED <<view, edit, menu, excuse>>
    BY <2>2, <2>3 DEF view, excuse, CountInv
  <2> QED
    BY <1>1, <1>15, <2>3 DEF OnLate
<1> QED
  BY <1>7, <1>8, <1>9, <1>10, <1>11, <1>12, <1>13, <1>14, <1>15 DEF Answer

LEMMA CountInvStep == TypeInv /\ PageInv /\ CleanInv /\ CountInv /\ [Next]_vars => CountInv'
<1> SUFFICES ASSUME TypeInv, PageInv, CleanInv, CountInv, [Next]_vars PROVE CountInv'
  OBVIOUS
<1>1. CASE UNCHANGED vars
  BY <1>1, QuietCount DEF SameTold, Busy, vars, server, view, excuse
<1>2. Fault => CountInv'
  BY DEF Fault, CountInv, view
<1>3. /\ \A s \in Slots : Lose(s) => CountInv'
      /\ \A t \in Teams : OthersDelete(t) => CountInv'
      /\ \A t \in Teams, u \in Users : OthersMove(t, u) => CountInv'
  BY <1>2 DEF Lose, OthersDelete, OthersMove
<1> QED
  BY <1>1, <1>3, ClickCount, ServerCount, AnswerCount DEF Next

\* And the numbers and names of members the page shows are those of the table,
\* but for the three copies that are never renewed.
THEOREM MembersShown == Spec => []MembersAreTrue
<1>1. TypeInv /\ PageInv /\ CleanInv /\ CountInv => MembersAreTrue
  <2> SUFFICES ASSUME TypeInv, PageInv, CleanInv, CountInv, clean, loaded, Busy = {}
               PROVE  MembersAreTrue
    BY DEF MembersAreTrue
  <2>1. open /\ Shows(list, rows, name, NoTeam)
    BY DEF PageInv, CleanInv, Calm
  <2>2. \A i \in DOMAIN list : list[i].id \in rows
    BY <2>1 DEF Shows
  <2>3. (\A i \in DOMAIN list : RowTrue(list[i])) /\ MenuTrue
    BY <2>1 DEF CountInv
  <2> QED
    BY <2>2, <2>3 DEF MembersAreTrue, RowTrue, MenuTrue
<1>2. Spec => [](TypeInv /\ PageInv /\ CleanInv /\ CountInv)
  BY TypeInvInit, TypeInvStep, PageInvInit, PageInvStep, CleanInvInit, CleanInvStep,
     CountInvInit, CountInvStep, PTL DEF Spec
<1> QED
  BY <1>1, <1>2, PTL
=============================================================================
