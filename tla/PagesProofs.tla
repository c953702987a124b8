----------------------------- MODULE PagesProofs -----------------------------
(***************************************************************************)
(* What holds of the device list and the device form for any number of      *)
(* pages, calls, values, devices, changes and moves.                         *)
(***************************************************************************)
EXTENDS DevicePages, TLAPS

-----------------------------------------------------------------------------
\* Types

\* TypeOK without its last part.
Types ==
  /\ devices \in [Ids -> Device]
  /\ created \in Gens /\ changes \in Times /\ moves \in 0 .. MaxMoves
  /\ table \in [Pages -> List \cup {Null}]
  /\ form \in [Pages -> Form \cup {Null}]
  /\ calls \in [Slots -> Call \cup {Null}]
  /\ wrote \in [Pages -> Times]
  /\ crossed \in [Pages -> BOOLEAN]

\* A call names a device, or no device, as its kind has it; its time is past; a
\* handler at work on a row has read one.
CallFits(k, t) ==
  /\ k.at <= t
  /\ k.op = "create" => k.form.id = 0
  /\ k.op \in {"patch", "delete"} => k.form.id \in Ids
  /\ k.op \in {"patch", "delete"} /\ k.st = "checked" => k.copy.gen # 0

CallsFit == \A c \in Slots : calls[c] # Null => CallFits(calls[c], changes)

\* There were no more devices than changes, but for the first.
Counted == created <= changes + 1

TypeInv == Types /\ CallsFit /\ Counted

\* Values built by the page are of their types.
LEMMA Blanks ==
  /\ Gone \in Device /\ NewForm \in Form /\ NoList \in List
  /\ \A p \in Pages, op \in {"list", "create", "patch", "delete"}, f \in Form :
       NewCall(p, op, f) \in Call
<1>1. 0 \in Gens /\ 0 \in Times /\ 0 \in 0 .. MaxId /\ Blank \in Value
  BY PageAssumption DEF Gens, Times, Blank, Value
<1>2. Gone \in Device /\ NewForm \in Form /\ NoList \in List
  BY <1>1 DEF Gone, Device, NewForm, Form, NoList, List
<1>3. \A p \in Pages, op \in {"list", "create", "patch", "delete"}, f \in Form :
        NewCall(p, op, f) \in Call
  BY <1>1, <1>2 DEF NewCall, Call
<1> QED BY <1>2, <1>3

\* What list_devices answers is a list.
LEMMA ListingIsList ==
  ASSUME devices \in [Ids -> Device], changes \in Times
  PROVE  Listing \in List
<1>1. ASSUME NEW d \in Ids PROVE Shown(d) \in [id : Ids, val : Value]
  <2>1. devices[d] \in Device
    OBVIOUS
  <2>2. devices[d].val \in Value
    BY <2>1 DEF Device
  <2>3. [f \in Fields |-> IF f \in Listed THEN devices[d].val[f] ELSE Default] \in Value
    BY <2>2, PageAssumption DEF Value
  <2> QED BY <2>2, <2>3 DEF Shown
<1> QED BY <1>1 DEF Listing, List, Live

\* A row of a list makes a form.
LEMMA PickedIsForm ==
  ASSUME NEW L \in List, NEW r \in L.rows
  PROVE  Picked(r, L.at) \in Form /\ Picked(r, L.at).id \in Ids
<1>1. r \in [id : Ids, val : Value] /\ L.at \in Times
  BY DEF List
<1>2. Ids \subseteq 0 .. MaxId
  BY PageAssumption DEF Ids
<1> QED BY <1>1, <1>2 DEF Picked, Form

\* The form that shows it differs only in what it cannot show.
LEMMA FilledIsForm ==
  ASSUME NEW L \in List, NEW r \in L.rows, NEW f \in Filled(r, L.at)
  PROVE  /\ f \in Form /\ f.id = r.id /\ f.at = L.at /\ f.typed = {}
         /\ \A x \in Fields : f.val[x] = r.val[x] \/ (x = "platform" /\ r.val[x] \notin Options)
<1>1. PICK v \in Value : /\ \A x \in Fields : v[x] \in ShownAs(x, r.val[x])
                        /\ f = [Picked(r, L.at) EXCEPT !.val = v]
  BY DEF Filled
<1>2. f \in Form /\ f.val = v
  BY <1>1, PickedIsForm DEF Form
<1>3. f.id = r.id /\ f.at = L.at /\ f.typed = {}
  BY <1>1 DEF Picked
<1> QED BY <1>1, <1>2, <1>3 DEF ShownAs

\* The types of the calls: k is what a step makes of one of them.
LEMMA OneCall ==
  ASSUME calls \in [Slots -> Call \cup {Null}], CallsFit,
         changes \in Times, changes' \in Times, changes <= changes',
         NEW c \in Slots, NEW k \in Call \cup {Null}, k # Null => CallFits(k, changes'),
         calls' = [calls EXCEPT ![c] = k]
  PROVE  calls' \in [Slots -> Call \cup {Null}] /\ CallsFit'
<1>1. calls' \in [Slots -> Call \cup {Null}] /\ calls'[c] = k
      /\ \A x \in Slots \ {c} : calls'[x] = calls[x]
  OBVIOUS
<1>2. ASSUME NEW x \in Slots, calls'[x] # Null PROVE CallFits(calls'[x], changes')
  <2>1. CASE x = c
    BY <2>1, <1>1, <1>2
  <2>2. CASE x # c
    <3>1. calls'[x] = calls[x] /\ calls[x] \in Call /\ CallFits(calls[x], changes)
      BY <2>2, <1>1, <1>2 DEF CallsFit
    <3>2. calls[x].at \in Nat /\ changes \in Nat /\ changes' \in Nat
      BY <3>1, PageAssumption DEF Call, Times
    <3> QED BY <3>1, <3>2 DEF CallFits
  <2> QED BY <2>1, <2>2
<1> QED BY <1>1, <1>2 DEF CallsFit

\* A call that failed.
LEMMA FailedCall ==
  ASSUME Types, CallsFit, NEW c \in Slots, calls[c] # Null, Fails(c), UNCHANGED changes
  PROVE  calls' \in [Slots -> Call \cup {Null}] /\ CallsFit'
<1> DEFINE k == [calls[c] EXCEPT !.st = "error"]
<1>1. calls[c] \in Call /\ CallFits(calls[c], changes)
  BY DEF Types, CallsFit
<1>2. k \in Call /\ (k # Null => CallFits(k, changes'))
  BY <1>1 DEF Call, CallFits
<1>3. calls' = [calls EXCEPT ![c] = k]
  BY DEF Fails, Types
<1>4. changes \in Times /\ changes <= changes /\ changes' = changes
  BY PageAssumption DEF Types, Times
<1> HIDE DEF k
<1> QED BY <1>2, <1>3, <1>4, OneCall DEF Types

\* A call whose handler committed.
LEMMA CommittedCall ==
  ASSUME Types, CallsFit, NEW c \in Slots, calls[c] # Null,
         changes' \in Times, changes <= changes', Committed(c, changes')
  PROVE  calls' \in [Slots -> Call \cup {Null}] /\ CallsFit'
<1>1. PICK st \in {"ok", "error"} :
        calls' = [calls EXCEPT ![c].st = st, ![c].copy = Gone, ![c].at = changes']
  BY DEF Committed
<1> DEFINE k == [calls[c] EXCEPT !.st = st, !.copy = Gone, !.at = changes']
<1>2. calls[c] \in Call /\ CallFits(calls[c], changes)
  BY DEF Types, CallsFit
<1>3. changes' \in Nat
  BY PageAssumption DEF Times
<1>4. k \in Call
  BY <1>2, Blanks DEF Call
<1>5. k.at = changes' /\ k.op = calls[c].op /\ k.form = calls[c].form /\ k.st # "checked"
  BY <1>2 DEF Call
<1>6. CallFits(k, changes')
  BY <1>2, <1>3, <1>5 DEF CallFits
<1>7. calls' = [calls EXCEPT ![c] = k]
  BY <1>1 DEF Types
<1> HIDE DEF k
<1> QED BY <1>4, <1>6, <1>7, OneCall DEF Types

\* The list is asked for.
LEMMA LoadTypes ==
  ASSUME Types, CallsFit, NEW p \in Pages, NEW c \in Slots, LoadDevices(p, c), UNCHANGED changes
  PROVE  /\ table' \in [Pages -> List \cup {Null}]
         /\ crossed' \in [Pages -> BOOLEAN]
         /\ calls' \in [Slots -> Call \cup {Null}] /\ CallsFit'
<1> DEFINE k == NewCall(p, "list", NewForm)
<1>1. k \in Call
  BY Blanks
<1>2. k # Null => CallFits(k, changes')
  BY PageAssumption DEF Types, Times, NewCall, CallFits
<1>3. changes \in Times /\ changes <= changes /\ changes' = changes
  BY PageAssumption DEF Types, Times
<1>4. calls' = [calls EXCEPT ![c] = k]
  BY DEF LoadDevices
<1> HIDE DEF k
<1>5. calls' \in [Slots -> Call \cup {Null}] /\ CallsFit'
  BY <1>1, <1>2, <1>3, <1>4, OneCall DEF Types
<1>6. table' \in [Pages -> List \cup {Null}] /\ crossed' \in [Pages -> BOOLEAN]
  BY DEF Types, LoadDevices
<1> QED BY <1>5, <1>6

\* What the users do.
LEMMA UserTypes == TypeInv /\ (\E p \in Pages : User(p)) => TypeInv'
<1> SUFFICES ASSUME TypeInv, NEW p \in Pages, User(p) PROVE TypeInv'
  OBVIOUS
<1> USE DEF TypeInv
<1>1. moves' \in 0 .. MaxMoves
  BY PageAssumption DEF Types, User
<1>2. UNCHANGED <<devices, created, changes, wrote>>
  BY DEF User, Add, Edit, Cancel, Visit, Submit, DeleteRow
<1>3. changes \in Times /\ changes <= changes /\ changes' = changes /\ 0 <= changes
  BY <1>2, PageAssumption DEF Types, Times
<1>4. Counted'
  BY <1>2 DEF Counted
<1>5. CASE Add(p) \/ Cancel(p)
  <2>1. form' \in [Pages -> Form \cup {Null}] /\ UNCHANGED <<table, calls, crossed>>
    BY <1>5, Blanks DEF Types, Add, Cancel
  <2>2. CallsFit'
    BY <2>1, <1>2 DEF CallsFit, CallFits
  <2> QED BY <1>1, <1>2, <1>4, <2>1, <2>2 DEF Types
<1>6. CASE Edit(p)
  <2>1. UNCHANGED <<table, calls, crossed>>
    BY <1>6 DEF Edit
  <2>r. PICK r \in table[p].rows : \E f \in Filled(r, table[p].at) : form' = [form EXCEPT ![p] = f]
    BY <1>6 DEF Edit
  <2>2. PICK f \in Filled(r, table[p].at) : form' = [form EXCEPT ![p] = f]
    BY <2>r
  <2>3. table[p] \in List
    BY <1>6 DEF Types, Edit
  <2>4. f \in Form
    BY <2>3, FilledIsForm
  <2>5. form' \in [Pages -> Form \cup {Null}]
    BY <2>2, <2>4 DEF Types
  <2>6. CallsFit'
    BY <2>1, <1>2 DEF CallsFit, CallFits
  <2> QED BY <1>1, <1>2, <1>4, <2>1, <2>5, <2>6 DEF Types
<1>7. ASSUME NEW c \in Slots, Visit(p, c) PROVE TypeInv'
  <2>1. LoadDevices(p, c) /\ form' = form
    BY <1>7 DEF Visit
  <2>2. /\ table' \in [Pages -> List \cup {Null}]
        /\ crossed' \in [Pages -> BOOLEAN]
        /\ calls' \in [Slots -> Call \cup {Null}] /\ CallsFit'
    BY <2>1, <1>2, LoadTypes
  <2> QED BY <1>1, <1>2, <1>4, <2>1, <2>2 DEF Types
<1>8. ASSUME NEW c \in Slots, Submit(p, c) PROVE TypeInv'
  <2>1. form[p] \in Form
    BY <1>8 DEF Types, Submit
  <2>2. form[p].val \in Value
    BY <2>1 DEF Form
  <2>3. PICK v \in Value :
          LET f == [form[p] EXCEPT !.val = v,
                                   !.typed = @ \cup {x \in Fields : v[x] # form[p].val[x]}]
          IN /\ form' = [form EXCEPT ![p] = f]
             /\ calls' = [calls EXCEPT ![c] = NewCall(p, IF f.id = 0 THEN "create" ELSE "patch", f)]
    BY <1>8, <2>2 DEF Submit, Typed
  <2> DEFINE f == [form[p] EXCEPT !.val = v,
                                  !.typed = @ \cup {x \in Fields : v[x] # form[p].val[x]}]
             op == IF f.id = 0 THEN "create" ELSE "patch"
             k == NewCall(p, op, f)
  <2>4. f \in Form
    BY <2>1 DEF Form
  <2>5a. op = (IF f.id = 0 THEN "create" ELSE "patch")
    OBVIOUS
  <2>5b. form' = [form EXCEPT ![p] = f] /\ calls' = [calls EXCEPT ![c] = k]
    BY <2>3
  <2> HIDE DEF f, op
  <2>5. f.id \in 0 .. MaxId /\ (f.id # 0 => f.id \in Ids)
    BY <2>4, PageAssumption DEF Form, Ids
  <2>6. op \in {"create", "patch"} /\ (op = "create" => f.id = 0) /\ (op = "patch" => f.id \in Ids)
    BY <2>5, <2>5a
  <2>8. k \in Call
    BY <2>4, <2>6, Blanks
  <2>9. CallFits(k, changes')
    BY <1>3, <2>6 DEF NewCall, CallFits
  <2> HIDE DEF k
  <2>10. calls' \in [Slots -> Call \cup {Null}] /\ CallsFit'
    BY <1>3, <2>5b, <2>8, <2>9, OneCall DEF Types
  <2>11. form' \in [Pages -> Form \cup {Null}] /\ UNCHANGED <<table, crossed>>
    BY <1>8, <2>4, <2>5b DEF Types, Submit
  <2> QED BY <1>1, <1>2, <1>4, <2>10, <2>11 DEF Types
<1>9. ASSUME NEW c \in Slots, DeleteRow(p, c) PROVE TypeInv'
  <2>1. table[p] \in List /\ UNCHANGED <<table, form, crossed>>
    BY <1>9 DEF Types, DeleteRow
  <2>2. PICK r \in table[p].rows :
          calls' = [calls EXCEPT ![c] = NewCall(p, "delete", Picked(r, table[p].at))]
    BY <1>9 DEF DeleteRow
  <2> DEFINE f == Picked(r, table[p].at)
             k == NewCall(p, "delete", f)
  <2>3. f \in Form /\ f.id \in Ids
    BY <2>1, PickedIsForm
  <2> HIDE DEF f
  <2>4. k \in Call
    BY <2>3, Blanks
  <2>5. CallFits(k, changes')
    BY <1>3, <2>3 DEF NewCall, CallFits
  <2>6. calls' = [calls EXCEPT ![c] = k]
    BY <2>2 DEF f
  <2> HIDE DEF k
  <2>7. calls' \in [Slots -> Call \cup {Null}] /\ CallsFit'
    BY <1>3, <2>4, <2>5, <2>6, OneCall DEF Types
  <2> QED BY <1>1, <1>2, <1>4, <2>1, <2>7 DEF Types
<1> QED BY <1>5, <1>6, <1>7, <1>8, <1>9 DEF User

\* What a page does with an answer.
LEMMA AnswerTypes == TypeInv /\ (\E c \in Slots : Answered(c)) => TypeInv'
<1> SUFFICES ASSUME TypeInv, NEW c \in Slots, Answered(c) PROVE TypeInv'
  OBVIOUS
<1> USE DEF TypeInv
<1>1. UNCHANGED <<devices, created, changes, moves>> /\ calls[c] # Null
  BY DEF Answered, Draw, Changed, Failed
<1>2. changes \in Times /\ changes <= changes /\ changes' = changes
  BY <1>1, PageAssumption DEF Types, Times
<1>3. Counted'
  BY <1>1 DEF Counted
<1>4. calls[c] \in Call /\ CallFits(calls[c], changes)
  BY <1>1 DEF Types, CallsFit
<1>5. CASE Draw(c)
  <2>1. calls' \in [Slots -> Call \cup {Null}] /\ CallsFit'
    <3>1. calls' = [calls EXCEPT ![c] = Null]
      BY <1>5 DEF Draw
    <3> QED BY <1>2, <3>1, OneCall DEF Types
  <2>2. table' \in [Pages -> List \cup {Null}] /\ UNCHANGED <<form, wrote, crossed>>
    BY <1>4, <1>5 DEF Types, Call, Draw
  <2> QED BY <1>1, <1>3, <2>1, <2>2 DEF Types
<1>6. CASE Failed(c)
  <2>1. calls' = [calls EXCEPT ![c] = Null] /\ UNCHANGED <<table, form, wrote, crossed>>
    BY <1>6 DEF Failed
  <2>2. calls' \in [Slots -> Call \cup {Null}] /\ CallsFit'
    BY <1>2, <2>1, OneCall DEF Types
  <2> QED BY <1>1, <1>3, <2>1, <2>2 DEF Types
<1>7. CASE Changed(c)
  <2> DEFINE p == calls[c].page
  <2>1. p \in Pages /\ calls[c].at \in Times
    BY <1>4 DEF Call
  <2>2. LoadDevices(p, c)
    BY <1>7 DEF Changed, Reload
  <2>3. form' \in [Pages -> Form \cup {Null}]
    BY <1>7 DEF Types, Changed
  <2>4. wrote' \in [Pages -> Times]
    BY <1>7, <2>1 DEF Types, Changed
  <2> HIDE DEF p
  <2>5. /\ table' \in [Pages -> List \cup {Null}]
        /\ crossed' \in [Pages -> BOOLEAN]
        /\ calls' \in [Slots -> Call \cup {Null}] /\ CallsFit'
    BY <1>1, <2>1, <2>2, LoadTypes
  <2> QED BY <1>1, <1>3, <2>3, <2>4, <2>5 DEF Types
<1> QED BY <1>5, <1>6, <1>7 DEF Answered

\* What a step of a handler that commits makes of the time.
LEMMA NextTime ==
  ASSUME changes \in Times, changes < MaxChanges
  PROVE  changes + 1 \in Times /\ changes <= changes + 1
BY PageAssumption DEF Times

\* What the handlers do.
LEMMA HandlerTypes == TypeInv /\ (\E c \in Slots : Handler(c)) => TypeInv'
<1> SUFFICES ASSUME TypeInv, NEW c \in Slots, Handler(c) PROVE TypeInv'
  OBVIOUS
<1> USE DEF TypeInv
<1>1. UNCHANGED <<table, form, wrote, crossed, moves>> /\ calls[c] # Null
  BY DEF Handler, ListDevices, CreateCheck, CreateCommit, ReadRow, PatchCommit, DeleteCommit, Break, At
<1>2. calls[c] \in Call /\ CallFits(calls[c], changes)
  BY <1>1 DEF Types, CallsFit
<1>3. changes \in Times /\ changes <= changes /\ changes \in Nat
  BY PageAssumption DEF Types, Times
<1>4. ASSUME UNCHANGED <<devices, created, changes>>,
             calls' \in [Slots -> Call \cup {Null}], CallsFit'
      PROVE  TypeInv'
  BY <1>1, <1>4 DEF Types, Counted
<1>5. ASSUME UNCHANGED <<devices, created, changes>>, Fails(c) PROVE TypeInv'
  <2>1. calls' \in [Slots -> Call \cup {Null}] /\ CallsFit'
    BY <1>1, <1>5, FailedCall
  <2> QED BY <1>4, <1>5, <2>1
<1>6. ASSUME UNCHANGED <<devices, created, changes>>, NEW k \in Call, CallFits(k, changes),
             calls' = [calls EXCEPT ![c] = k]
      PROVE  TypeInv'
  <2>1. calls' \in [Slots -> Call \cup {Null}] /\ CallsFit'
    BY <1>3, <1>6, OneCall DEF Types
  <2> QED BY <1>4, <1>6, <2>1
<1>7. CASE ListDevices(c)
  <2> DEFINE k == [calls[c] EXCEPT !.st = "ok", !.list = Listing]
  <2>1. Listing \in List
    BY ListingIsList DEF Types
  <2>2. k \in Call /\ CallFits(k, changes)
    BY <1>2, <2>1 DEF Call, CallFits
  <2>3. calls' = [calls EXCEPT ![c] = k] /\ UNCHANGED <<devices, created, changes>>
    BY <1>7 DEF ListDevices, Types
  <2> HIDE DEF k
  <2> QED BY <1>6, <2>2, <2>3
<1>8. CASE CreateCheck(c)
  <2> DEFINE k == [calls[c] EXCEPT !.st = "checked"]
  <2>1. calls[c].op = "create" /\ UNCHANGED <<devices, created, changes>>
    BY <1>8 DEF CreateCheck, At
  <2>2. k \in Call /\ CallFits(k, changes)
    BY <1>2, <2>1 DEF Call, CallFits
  <2>3. Fails(c) \/ calls' = [calls EXCEPT ![c] = k]
    BY <1>8 DEF CreateCheck, Types
  <2> HIDE DEF k
  <2> QED BY <1>5, <1>6, <2>1, <2>2, <2>3
<1>9. CASE ReadRow(c)
  <2> DEFINE d == calls[c].form.id
             k == [calls[c] EXCEPT !.st = "checked", !.copy = devices[d]]
  <2>1. UNCHANGED <<devices, created, changes>> /\ calls[c].op \in {"patch", "delete"}
    BY <1>9 DEF ReadRow, At
  <2>2. d \in Ids
    BY <1>2, <2>1 DEF CallFits
  <2>3. CASE Missing(d)
    BY <1>5, <1>9, <2>1, <2>3 DEF ReadRow
  <2>4. CASE ~Missing(d)
    <3>1. devices[d] \in Device /\ devices[d].gen # 0
      BY <2>2, <2>4 DEF Types, Missing, Live
    <3>2. k \in Call /\ CallFits(k, changes)
      BY <1>2, <3>1 DEF Call, CallFits
    <3>3. calls' = [calls EXCEPT ![c] = k]
      BY <1>9, <2>4 DEF ReadRow, Types
    <3> HIDE DEF k
    <3> QED BY <1>6, <2>1, <3>2, <3>3
  <2> QED BY <2>3, <2>4
<1>10. CASE Break(c)
  BY <1>5, <1>10 DEF Break
<1>11. CASE CreateCommit(c)
  <2>1. CASE Fails(c) /\ Unchanged
    BY <1>5, <2>1 DEF Unchanged
  <2>2. CASE /\ changes < MaxChanges /\ NextId \in Ids
             /\ devices' = [devices EXCEPT ![NextId] =
                  [gen |-> created + 1, ver |-> changes + 1, val |-> calls[c].form.val]]
             /\ created' = created + 1 /\ changes' = changes + 1
             /\ Committed(c, changes + 1)
    <3>1. changes + 1 \in Times /\ changes <= changes + 1
      BY <1>3, <2>2, NextTime
    <3>2. created + 1 \in Gens /\ Counted'
      BY <1>3, <2>2, PageAssumption DEF Types, Times, Gens, Counted
    <3>3. calls[c].form.val \in Value
      BY <1>2 DEF Call, Form
    <3>4. devices' \in [Ids -> Device]
      <4> DEFINE row == [gen |-> created + 1, ver |-> changes + 1, val |-> calls[c].form.val]
      <4>1. row \in Device
        BY <3>1, <3>2, <3>3 DEF Device
      <4>2. devices' = [devices EXCEPT ![NextId] = row]
        BY <2>2
      <4> HIDE DEF row
      <4> QED BY <4>1, <4>2 DEF Types
    <3>5. calls' \in [Slots -> Call \cup {Null}] /\ CallsFit'
      BY <1>1, <2>2, <3>1, CommittedCall
    <3> QED BY <1>1, <2>2, <3>1, <3>2, <3>4, <3>5 DEF Types
  <2> QED BY <1>11, <2>1, <2>2 DEF CreateCommit
<1>12. CASE PatchCommit(c)
  <2> DEFINE d == calls[c].form.id
  <2>1. CASE Fails(c) /\ Unchanged
    BY <1>5, <2>1 DEF Unchanged
  <2>2. CASE Committed(c, changes) /\ Unchanged
    <3>1. changes' = changes /\ Committed(c, changes')
      BY <2>2 DEF Unchanged
    <3>2. calls' \in [Slots -> Call \cup {Null}] /\ CallsFit'
      BY <1>1, <1>3, <3>1, CommittedCall
    <3> QED BY <1>4, <2>2, <3>2 DEF Unchanged
  <2>3. CASE /\ d \in Live /\ changes < MaxChanges
             /\ devices' = [devices EXCEPT ![d].val = Updated(c), ![d].ver = changes + 1]
             /\ changes' = changes + 1
             /\ Committed(c, changes + 1)
             /\ UNCHANGED created
    <3>1. changes + 1 \in Times /\ changes <= changes + 1
      BY <1>3, <2>3, NextTime
    <3>2. d \in Ids /\ devices[d] \in Device
      BY <2>3 DEF Types, Live
    <3>3. Updated(c) \in Value
      BY <1>2, <3>2 DEF Updated, Value, Call, Form, Device
    <3>4. devices' \in [Ids -> Device]
      <4> DEFINE row == [devices[d] EXCEPT !.val = Updated(c), !.ver = changes + 1]
      <4>1. row \in Device
        BY <3>1, <3>2, <3>3 DEF Device
      <4>2. devices' = [devices EXCEPT ![d] = row]
        BY <2>3, <3>2 DEF Types
      <4> HIDE DEF row
      <4> QED BY <3>2, <4>1, <4>2 DEF Types
    <3>5. calls' \in [Slots -> Call \cup {Null}] /\ CallsFit'
      BY <1>1, <2>3, <3>1, CommittedCall
    <3>6. Counted'
      BY <1>3, <2>3, PageAssumption DEF Types, Gens, Counted
    <3> QED BY <1>1, <2>3, <3>1, <3>4, <3>5, <3>6 DEF Types
  <2> QED BY <1>12, <2>1, <2>2, <2>3 DEF PatchCommit
<1>13. CASE DeleteCommit(c)
  <2>1. /\ changes < MaxChanges /\ changes' = changes + 1 /\ created' = created
        /\ devices' = [devices EXCEPT ![calls[c].form.id] = Gone]
        /\ Committed(c, changes + 1)
    BY <1>13 DEF DeleteCommit
  <2>2. changes + 1 \in Times /\ changes <= changes + 1
    BY <1>3, <2>1, NextTime
  <2>3. devices' \in [Ids -> Device]
    BY <2>1, Blanks DEF Types
  <2>4. calls' \in [Slots -> Call \cup {Null}] /\ CallsFit'
    BY <1>1, <2>1, <2>2, CommittedCall
  <2>5. Counted'
    BY <1>3, <2>1, PageAssumption DEF Types, Gens, Counted
  <2> QED BY <1>1, <2>1, <2>2, <2>3, <2>4, <2>5 DEF Types
<1> QED
  BY <1>7, <1>8, <1>9, <1>10, <1>11, <1>12, <1>13 DEF Handler

\* The types of all steps.
LEMMA StepTypes == TypeInv /\ [Next]_vars => TypeInv'
<1> SUFFICES ASSUME TypeInv, [Next]_vars PROVE TypeInv'
  OBVIOUS
<1>1. CASE Next
  BY <1>1, UserTypes, AnswerTypes, HandlerTypes DEF Next
<1>2. CASE UNCHANGED vars
  BY <1>2 DEF vars, TypeInv, Types, CallsFit, CallFits, Counted
<1> QED BY <1>1, <1>2

\* The first states.
LEMMA InitTypes == Init => TypeInv
<1> SUFFICES ASSUME Init PROVE TypeInv
  OBVIOUS
<1>1. 0 \in Times /\ 1 \in Gens /\ 0 \in Gens /\ 0 \in 0 .. MaxMoves
  BY PageAssumption DEF Times, Gens
<1>2. devices \in [Ids -> Device]
  <2>1. PICK v \in Value :
          devices = [d \in Ids |-> IF d = 1 THEN [gen |-> 1, ver |-> 0, val |-> v] ELSE Gone]
    BY DEF Init
  <2>2. [gen |-> 1, ver |-> 0, val |-> v] \in Device
    BY <1>1 DEF Device
  <2> QED BY <2>1, <2>2, Blanks
<1>3. Listing \in List
  BY <1>1, <1>2, ListingIsList DEF Init
<1>4. Types
  BY <1>1, <1>2, <1>3 DEF Init, Types
<1> QED BY <1>4 DEF Init, TypeInv, CallsFit, Counted

\* Every variable has its type, and a handler goes past its first query only with a
\* row, for any number of pages, calls and devices (app.js, routers/devices.py).
THEOREM PagesTyped == Spec => []TypeOK
<1>1. TypeInv => TypeOK
  BY DEF TypeInv, Types, TypeOK, CallsFit, CallFits, At
<1> QED BY <1>1, InitTypes, StepTypes, PTL DEF Spec

-----------------------------------------------------------------------------
\* Names

\* Steps that are not commits leave the devices alone.
LEMMA OnlyCommits ==
  ASSUME [Next]_vars
  PROVE  \/ UNCHANGED <<devices, created, changes>>
         \/ \E c \in Slots : CreateCommit(c) \/ PatchCommit(c) \/ DeleteCommit(c)
<1>1. CASE UNCHANGED vars
  BY <1>1 DEF vars
<1>2. ASSUME NEW p \in Pages, User(p) PROVE UNCHANGED <<devices, created, changes>>
  BY <1>2 DEF User, Add, Edit, Cancel, Visit, Submit, DeleteRow
<1>3. ASSUME NEW c \in Slots, Answered(c) PROVE UNCHANGED <<devices, created, changes>>
  BY <1>3 DEF Answered, Draw, Changed, Failed
<1>4. ASSUME NEW c \in Slots, Handler(c)
      PROVE  \/ UNCHANGED <<devices, created, changes>>
             \/ CreateCommit(c) \/ PatchCommit(c) \/ DeleteCommit(c)
  BY <1>4 DEF Handler, ListDevices, CreateCheck, ReadRow, Break
<1> QED BY <1>1, <1>2, <1>3, <1>4 DEF Next

\* The names stay apart in each step.
LEMMA StepTwins == TypeInv /\ NoTwins /\ [Next]_vars => NoTwins'
<1> SUFFICES ASSUME TypeInv, NoTwins, [Next]_vars PROVE NoTwins'
  OBVIOUS
<1>1. devices \in [Ids -> Device]
  BY DEF TypeInv, Types
<1>2. CASE UNCHANGED devices
  BY <1>2 DEF NoTwins, Live
<1>3. ASSUME NEW i \in Ids, NEW row, devices' = [devices EXCEPT ![i] = row],
             row.gen = 0 \/ ~\E e \in Live \ {i} : devices[e].val["name"] = row.val["name"]
      PROVE  NoTwins'
  <2>1. devices'[i] = row /\ \A d \in Ids \ {i} : devices'[d] = devices[d]
    BY <1>1, <1>3
  <2> SUFFICES ASSUME NEW d \in Live', NEW e \in Live',
                      devices'[d].val["name"] = devices'[e].val["name"]
               PROVE  d = e
    BY DEF NoTwins
  <2>2. d \in Ids /\ e \in Ids /\ devices'[d].gen # 0 /\ devices'[e].gen # 0
    BY DEF Live
  <2> QED BY <1>3, <2>1, <2>2 DEF NoTwins, Live
<1>4. ASSUME NEW c \in Slots, CreateCommit(c), ~UNCHANGED devices PROVE NoTwins'
  <2> DEFINE row == [gen |-> created + 1, ver |-> changes + 1, val |-> calls[c].form.val]
  <2>1. /\ ~Clashes(0, calls[c].form.val["name"]) /\ NextId \in Ids
        /\ devices' = [devices EXCEPT ![NextId] = row]
    BY <1>4 DEF CreateCommit, Unchanged
  <2>2. row.val = calls[c].form.val
    OBVIOUS
  <2> HIDE DEF row
  <2>3. 0 \notin Live
    BY PageAssumption DEF Live, Ids
  <2>4. ~\E e \in Live \ {NextId} : devices[e].val["name"] = row.val["name"]
    BY <2>1, <2>2, <2>3 DEF Clashes
  <2> QED BY <1>3, <2>1, <2>4
<1>5. ASSUME NEW c \in Slots, PatchCommit(c), ~UNCHANGED devices PROVE NoTwins'
  <2> DEFINE d == calls[c].form.id
             row == [devices[d] EXCEPT !.val = Updated(c), !.ver = changes + 1]
  <2>1. /\ d \in Live /\ ~Clashes(d, Updated(c)["name"])
        /\ devices' = [devices EXCEPT ![d].val = Updated(c), ![d].ver = changes + 1]
    BY <1>5 DEF PatchCommit, Unchanged
  <2>2. d \in Ids /\ devices[d] \in Device
    BY <1>1, <2>1 DEF Live
  <2>3. row.val = Updated(c)
    BY <2>2 DEF Device
  <2>4. devices' = [devices EXCEPT ![d] = row]
    BY <1>1, <2>1, <2>2
  <2> HIDE DEF d, row
  <2>5. ~\E e \in Live \ {d} : devices[e].val["name"] = row.val["name"]
    BY <2>1, <2>3 DEF Clashes
  <2> QED BY <1>3, <2>2, <2>4, <2>5
<1>6. ASSUME NEW c \in Slots, DeleteCommit(c) PROVE NoTwins'
  <2> DEFINE i == calls[c].form.id
  <2>1. calls[c] # Null /\ calls[c].op = "delete" /\ devices' = [devices EXCEPT ![i] = Gone]
    BY <1>6 DEF DeleteCommit, At
  <2>2. i \in Ids
    BY <2>1 DEF TypeInv, CallsFit, CallFits
  <2>3. Gone.gen = 0
    BY DEF Gone
  <2> HIDE DEF i
  <2> QED BY <1>3, <2>1, <2>2, <2>3
<1> QED BY <1>2, <1>4, <1>5, <1>6, OnlyCommits

\* No two devices have one name, however many forms are submitted and however the
\* checks and insertions of create_device and the renames of update_device meet.
THEOREM NamesStayApart == Spec => []NoTwins
<1>1. Init => NoTwins
  BY DEF Init, NoTwins, Live, Gone
<1> QED BY <1>1, InitTypes, StepTypes, StepTwins, PTL DEF Spec

-----------------------------------------------------------------------------
\* Copies of devices: in lists, in forms and in calls

\* What a form says of its device, against the table D at time t: it is from the
\* past, and what the user left alone is as it was listed, if the form can show it
\* and the device was not changed since.
FormFits(f, D, t) ==
  /\ f.at <= t
  /\ f.id # 0 =>
       /\ f.id \in Ids
       /\ \A x \in Fields \ f.typed :
            IF x \in Listed
            THEN D[f.id].gen # 0 /\ D[f.id].ver <= f.at =>
                   f.val[x] = D[f.id].val[x] \/ (x = "platform" /\ D[f.id].val[x] \notin Options)
            ELSE f.val[x] = Default

ListFits(L, D, t) == L.at <= t /\ \A r \in L.rows : FormFits(Picked(r, L.at), D, t)

CopiesFit ==
  /\ \A p \in Pages : table[p] # Null => ListFits(table[p], devices, changes)
  /\ \A p \in Pages : form[p] # Null => FormFits(form[p], devices, changes)
  /\ \A c \in Slots : calls[c] # Null =>
       FormFits(calls[c].form, devices, changes) /\ ListFits(calls[c].list, devices, changes)

\* The rows themselves.
RowsFit == \A d \in Ids : devices[d].ver <= changes

CopyInv == TypeInv /\ CopiesFit /\ RowsFit

\* What a step may do to the table: a row that is not as before is newer than every
\* copy, or gone.
Aged ==
  /\ changes <= changes'
  /\ \A d \in Ids :
       devices'[d] = devices[d] \/ devices'[d].ver > changes \/ devices'[d].gen = 0

LEMMA FormsAge ==
  ASSUME changes \in Nat, changes' \in Nat, Aged, NEW f, f.at \in Nat,
         \A d \in Ids : devices'[d].ver \in Nat,
         FormFits(f, devices, changes)
  PROVE  FormFits(f, devices', changes')
<1>1. f.at <= changes'
  BY DEF Aged, FormFits
<1>2. ASSUME f.id # 0 PROVE
        \A x \in Fields \ f.typed :
          IF x \in Listed
          THEN devices'[f.id].gen # 0 /\ devices'[f.id].ver <= f.at =>
                 f.val[x] = devices'[f.id].val[x] \/ (x = "platform" /\ devices'[f.id].val[x] \notin Options)
          ELSE f.val[x] = Default
  <2>1. f.id \in Ids /\ f.at <= changes
    BY <1>2 DEF FormFits
  <2>2. CASE devices'[f.id] = devices[f.id]
    BY <1>2, <2>2 DEF FormFits
  <2>3. CASE devices'[f.id].ver > changes
    <3>1. ~(devices'[f.id].ver <= f.at)
      BY <2>1, <2>3
    <3> QED BY <1>2, <3>1 DEF FormFits
  <2>4. CASE devices'[f.id].gen = 0
    BY <1>2, <2>1, <2>4 DEF FormFits
  <2> QED BY <2>1, <2>2, <2>3, <2>4 DEF Aged
<1> QED BY <1>1, <1>2 DEF FormFits

LEMMA ListsAge ==
  ASSUME changes \in Nat, changes' \in Nat, Aged, NEW L \in List,
         \A d \in Ids : devices'[d].ver \in Nat,
         ListFits(L, devices, changes)
  PROVE  ListFits(L, devices', changes')
<1>1. L.at \in Nat
  BY PageAssumption DEF List, Times
<1>2. ASSUME NEW r \in L.rows PROVE FormFits(Picked(r, L.at), devices', changes')
  <2>1. Picked(r, L.at).at = L.at /\ FormFits(Picked(r, L.at), devices, changes)
    BY DEF Picked, ListFits
  <2> QED BY <1>1, <2>1, FormsAge
<1> QED BY <1>1, <1>2 DEF ListFits, Aged

\* A list that is queried now is right now.
LEMMA ListingFits ==
  ASSUME CopyInv PROVE ListFits(Listing, devices, changes)
<1>1. changes \in Nat /\ Listing.at = changes /\ Listing.rows = {Shown(d) : d \in Live}
  BY PageAssumption DEF CopyInv, TypeInv, Types, Times, Listing
<1>2. ASSUME NEW d \in Live PROVE FormFits(Picked(Shown(d), changes), devices, changes)
  <2>1. d \in Ids /\ d # 0 /\ devices[d].gen # 0
    BY PageAssumption DEF Live, Ids
  <2> DEFINE f == Picked(Shown(d), changes)
  <2>2. /\ f.id = d /\ f.at = changes /\ f.typed = {}
        /\ f.val = [x \in Fields |-> IF x \in Listed THEN devices[d].val[x] ELSE Default]
    BY DEF Picked, Shown
  <2> HIDE DEF f
  <2>4. \A x \in Fields : f.val[x] = IF x \in Listed THEN devices[d].val[x] ELSE Default
    BY <2>2
  <2>5. FormFits(f, devices, changes)
    BY <1>1, <2>1, <2>2, <2>4 DEF FormFits
  <2> QED BY <2>5 DEF f
<1> QED BY <1>1, <1>2 DEF ListFits

\* The step of a commit, on the table.
LEMMA StepRows == CopyInv /\ [Next]_vars => RowsFit' /\ Aged
<1> SUFFICES ASSUME CopyInv, [Next]_vars PROVE RowsFit' /\ Aged
  OBVIOUS
<1>1. devices \in [Ids -> Device] /\ changes \in Nat /\ created \in Nat
  BY PageAssumption DEF CopyInv, TypeInv, Types, Times, Gens
<1>2. \A d \in Ids : devices[d].ver \in Nat
  BY <1>1, PageAssumption DEF Device, Times
<1>3. CASE UNCHANGED <<devices, changes>>
  BY <1>1, <1>3 DEF CopyInv, RowsFit, Aged
<1>4. ASSUME NEW i \in Ids, NEW row, devices' = [devices EXCEPT ![i] = row], changes' = changes + 1,
             row.ver = changes + 1 \/ row = Gone
      PROVE  RowsFit' /\ Aged
  <2>1. devices'[i] = row /\ \A d \in Ids \ {i} : devices'[d] = devices[d]
    BY <1>1, <1>4
  <2>2. row = Gone => row.ver = 0 /\ row.gen = 0
    BY DEF Gone
  <2>3. Aged
    BY <1>1, <1>4, <2>1, <2>2 DEF Aged
  <2>4. RowsFit'
    BY <1>1, <1>2, <1>4, <2>1, <2>2 DEF CopyInv, RowsFit
  <2> QED BY <2>3, <2>4
<1>5. ASSUME NEW c \in Slots, CreateCommit(c), ~UNCHANGED <<devices, changes>> PROVE RowsFit' /\ Aged
  <2> DEFINE row == [gen |-> created + 1, ver |-> changes + 1, val |-> calls[c].form.val]
  <2>1. /\ NextId \in Ids /\ changes' = changes + 1
        /\ devices' = [devices EXCEPT ![NextId] = row]
    BY <1>5 DEF CreateCommit, Unchanged
  <2>2. row.ver = changes + 1
    OBVIOUS
  <2> HIDE DEF row
  <2> QED BY <1>4, <2>1, <2>2
<1>6. ASSUME NEW c \in Slots, PatchCommit(c), ~UNCHANGED <<devices, changes>> PROVE RowsFit' /\ Aged
  <2> DEFINE d == calls[c].form.id
             row == [devices[d] EXCEPT !.val = Updated(c), !.ver = changes + 1]
  <2>1. /\ d \in Live /\ changes' = changes + 1
        /\ devices' = [devices EXCEPT ![d].val = Updated(c), ![d].ver = changes + 1]
    BY <1>6 DEF PatchCommit, Unchanged
  <2>2. d \in Ids /\ devices[d] \in Device /\ devices[d].gen # 0
    BY <1>1, <2>1 DEF Live
  <2>3. row.ver = changes + 1
    BY <2>2 DEF Device
  <2>4. devices' = [devices EXCEPT ![d] = row]
    BY <1>1, <2>1, <2>2
  <2> HIDE DEF d, row
  <2> QED BY <1>4, <2>1, <2>2, <2>3, <2>4
<1>7. ASSUME NEW c \in Slots, DeleteCommit(c) PROVE RowsFit' /\ Aged
  <2> DEFINE i == calls[c].form.id
  <2>1. calls[c] # Null /\ calls[c].op = "delete" /\ devices' = [devices EXCEPT ![i] = Gone]
        /\ changes' = changes + 1
    BY <1>7 DEF DeleteCommit, At
  <2>2. i \in Ids
    BY <2>1 DEF CopyInv, TypeInv, CallsFit, CallFits
  <2> HIDE DEF i
  <2> QED BY <1>4, <2>1, <2>2
<1> QED BY <1>3, <1>5, <1>6, <1>7, OnlyCommits

\* The lists, forms and calls after a step, against the table before it.
CallCopies(k) == FormFits(k.form, devices, changes) /\ ListFits(k.list, devices, changes)

NewCopies ==
  /\ \A p \in Pages : table'[p] # Null => ListFits(table'[p], devices, changes)
  /\ \A p \in Pages : form'[p] # Null => FormFits(form'[p], devices, changes)
  /\ \A c \in Slots : calls'[c] # Null => CallCopies(calls'[c])

LEMMA OldCopies ==
  ASSUME CopyInv
  PROVE  /\ \A p \in Pages : table[p] # Null => ListFits(table[p], devices, changes)
         /\ \A p \in Pages : form[p] # Null => FormFits(form[p], devices, changes)
         /\ \A c \in Slots : calls[c] # Null => CallCopies(calls[c])
BY DEF CopyInv, CopiesFit, CallCopies

\* A call that was just made.
LEMMA FirstCopies ==
  ASSUME CopyInv, NEW p, NEW op, NEW f, FormFits(f, devices, changes)
  PROVE  CallCopies(NewCall(p, op, f))
<1>1. changes \in Nat
  BY PageAssumption DEF CopyInv, TypeInv, Types, Times
<1>2. ListFits(NoList, devices, changes)
  BY <1>1 DEF ListFits, NoList
<1> QED BY <1>2 DEF CallCopies, NewCall

LEMMA NewFormFits == ASSUME CopyInv PROVE FormFits(NewForm, devices, changes)
<1>1. changes \in Nat
  BY PageAssumption DEF CopyInv, TypeInv, Types, Times
<1> QED BY <1>1 DEF FormFits, NewForm

\* Steps of the users copy from what they see, and type.
LEMMA UserCopies ==
  ASSUME CopyInv, NEW p \in Pages, User(p)
  PROVE  NewCopies
<1> USE OldCopies DEF NewCopies
<1>1. CASE Add(p)
  BY <1>1, NewFormFits DEF CopyInv, TypeInv, Types, Add
<1>2. CASE Cancel(p)
  BY <1>2 DEF CopyInv, TypeInv, Types, Cancel
<1>3. CASE Edit(p)
  <2>r. PICK r \in table[p].rows : \E f \in Filled(r, table[p].at) : form' = [form EXCEPT ![p] = f]
    BY <1>3 DEF Edit
  <2>1. PICK f \in Filled(r, table[p].at) : form' = [form EXCEPT ![p] = f]
    BY <2>r
  <2>2. table[p] \in List /\ FormFits(Picked(r, table[p].at), devices, changes)
    BY <1>3, <2>1 DEF Edit, ListFits, CopyInv, TypeInv, Types
  <2>3. /\ f.id = r.id /\ f.at = table[p].at /\ f.typed = {}
        /\ \A x \in Fields : f.val[x] = r.val[x] \/ (x = "platform" /\ r.val[x] \notin Options)
    BY <2>2, FilledIsForm
  <2>4. \A x \in Fields : x = "platform" => x \in Listed
    BY DEF Listed
  <2>5. FormFits(f, devices, changes)
    BY <2>2, <2>3, <2>4 DEF FormFits, Picked
  <2> QED BY <1>3, <2>1, <2>5 DEF CopyInv, TypeInv, Types, Edit
<1>4. ASSUME NEW c \in Slots, Visit(p, c) PROVE NewCopies
  <2>1. CallCopies(NewCall(p, "list", NewForm))
    BY NewFormFits, FirstCopies
  <2> QED BY <1>4, <2>1 DEF CopyInv, TypeInv, Types, Visit, LoadDevices
<1>5. ASSUME NEW c \in Slots, Submit(p, c) PROVE NewCopies
  <2>1. form[p] \in Form /\ form[p] # Null /\ form \in [Pages -> Form \cup {Null}]
        /\ calls \in [Slots -> Call \cup {Null}]
    BY <1>5 DEF CopyInv, TypeInv, Types, Submit
  <2>2. form[p].val \in Value
    BY <2>1 DEF Form
  <2>3. PICK v \in Value :
          LET f == [form[p] EXCEPT !.val = v,
                                   !.typed = @ \cup {x \in Fields : v[x] # form[p].val[x]}]
          IN /\ form' = [form EXCEPT ![p] = f]
             /\ calls' = [calls EXCEPT ![c] = NewCall(p, IF f.id = 0 THEN "create" ELSE "patch", f)]
    BY <1>5, <2>2 DEF Submit, Typed
  <2> DEFINE f == [form[p] EXCEPT !.val = v,
                                  !.typed = @ \cup {x \in Fields : v[x] # form[p].val[x]}]
             op == IF f.id = 0 THEN "create" ELSE "patch"
             k == NewCall(p, op, f)
  <2>4. form' = [form EXCEPT ![p] = f] /\ calls' = [calls EXCEPT ![c] = k] /\ table' = table
    BY <1>5, <2>3 DEF Submit
  <2>5. /\ f.id = form[p].id /\ f.at = form[p].at /\ f.val = v
        /\ f.typed = form[p].typed \cup {x \in Fields : v[x] # form[p].val[x]}
    BY <2>1 DEF Form
  <2> HIDE DEF f, op
  <2>6. \A x \in Fields \ f.typed : x \in Fields \ form[p].typed /\ f.val[x] = form[p].val[x]
    BY <2>5
  <2>7. FormFits(f, devices, changes)
    BY <2>1, <2>5, <2>6 DEF FormFits
  <2>8. CallCopies(k)
    BY <2>7, FirstCopies
  <2> HIDE DEF k
  <2> QED BY <2>1, <2>4, <2>7, <2>8
<1>6. ASSUME NEW c \in Slots, DeleteRow(p, c) PROVE NewCopies
  <2>1. PICK r \in table[p].rows :
          calls' = [calls EXCEPT ![c] = NewCall(p, "delete", Picked(r, table[p].at))]
    BY <1>6 DEF DeleteRow
  <2>2. FormFits(Picked(r, table[p].at), devices, changes)
    BY <1>6, <2>1 DEF DeleteRow, ListFits
  <2>3. CallCopies(NewCall(p, "delete", Picked(r, table[p].at)))
    BY <2>2, FirstCopies
  <2> QED BY <1>6, <2>1, <2>3 DEF CopyInv, TypeInv, Types, DeleteRow
<1> QED BY <1>1, <1>2, <1>3, <1>4, <1>5, <1>6 DEF User

\* A page copies from answers.
LEMMA AnswerCopies ==
  ASSUME CopyInv, NEW c \in Slots, Answered(c)
  PROVE  NewCopies
<1> USE OldCopies DEF NewCopies
<1>1. CASE Draw(c)
  BY <1>1 DEF CopyInv, TypeInv, Types, Draw, CallCopies
<1>2. CASE Failed(c)
  BY <1>2 DEF CopyInv, TypeInv, Types, Failed
<1>3. CASE Changed(c)
  <2>1. CallCopies(NewCall(calls[c].page, "list", NewForm))
    BY NewFormFits, FirstCopies
  <2> QED BY <1>3, <2>1 DEF CopyInv, TypeInv, Types, Changed, Reload, LoadDevices
<1> QED BY <1>1, <1>2, <1>3 DEF Answered

\* A handler reads the table into an answer.
LEMMA HandlerCopies ==
  ASSUME CopyInv, NEW c \in Slots, Handler(c)
  PROVE  NewCopies
<1>1. /\ calls \in [Slots -> Call \cup {Null}] /\ calls[c] # Null /\ calls[c] \in Call
      /\ UNCHANGED <<table, form>>
  BY DEF CopyInv, TypeInv, Types, Handler, ListDevices, CreateCheck, CreateCommit, ReadRow,
         PatchCommit, DeleteCommit, Break, At
<1>2. ASSUME NEW k, k.form = calls[c].form, k.list = calls[c].list \/ k.list = Listing,
             calls' = [calls EXCEPT ![c] = k]
      PROVE  NewCopies
  <2>1. CallCopies(calls[c])
    BY <1>1, OldCopies
  <2>2. CallCopies(k)
    BY <1>2, <2>1, ListingFits DEF CallCopies
  <2> QED BY <1>1, <1>2, <2>2, OldCopies DEF NewCopies
<1>3. CASE Fails(c)
  <2> DEFINE k == [calls[c] EXCEPT !.st = "error"]
  <2>1. k.form = calls[c].form /\ k.list = calls[c].list /\ calls' = [calls EXCEPT ![c] = k]
    BY <1>1, <1>3 DEF Fails, Call
  <2> HIDE DEF k
  <2> QED BY <1>2, <2>1
<1>4. ASSUME NEW t, Committed(c, t) PROVE NewCopies
  <2>1. PICK st \in {"ok", "error"} :
          calls' = [calls EXCEPT ![c].st = st, ![c].copy = Gone, ![c].at = t]
    BY <1>4 DEF Committed
  <2> DEFINE k == [calls[c] EXCEPT !.st = st, !.copy = Gone, !.at = t]
  <2>2. k.form = calls[c].form /\ k.list = calls[c].list /\ calls' = [calls EXCEPT ![c] = k]
    BY <1>1, <2>1 DEF Call
  <2> HIDE DEF k
  <2> QED BY <1>2, <2>2
<1>5. CASE ListDevices(c)
  <2> DEFINE k == [calls[c] EXCEPT !.st = "ok", !.list = Listing]
  <2>1. k.form = calls[c].form /\ k.list = Listing /\ calls' = [calls EXCEPT ![c] = k]
    BY <1>1, <1>5 DEF ListDevices, Call
  <2> HIDE DEF k
  <2> QED BY <1>2, <2>1
<1>6. CASE CreateCheck(c)
  <2> DEFINE k == [calls[c] EXCEPT !.st = "checked"]
  <2>1. k.form = calls[c].form /\ k.list = calls[c].list
    BY <1>1 DEF Call
  <2>2. Fails(c) \/ calls' = [calls EXCEPT ![c] = k]
    BY <1>1, <1>6 DEF CreateCheck
  <2> HIDE DEF k
  <2> QED BY <1>2, <1>3, <2>1, <2>2
<1>7. CASE ReadRow(c)
  <2> DEFINE k == [calls[c] EXCEPT !.st = "checked", !.copy = devices[calls[c].form.id]]
  <2>1. k.form = calls[c].form /\ k.list = calls[c].list
    BY <1>1 DEF Call
  <2>2. Fails(c) \/ calls' = [calls EXCEPT ![c] = k]
    BY <1>1, <1>7 DEF ReadRow
  <2> HIDE DEF k
  <2> QED BY <1>2, <1>3, <2>1, <2>2
<1>8. CASE CreateCommit(c)
  BY <1>3, <1>4, <1>8 DEF CreateCommit
<1>9. CASE PatchCommit(c)
  BY <1>3, <1>4, <1>9 DEF PatchCommit
<1>10. CASE DeleteCommit(c)
  BY <1>4, <1>10 DEF DeleteCommit
<1>11. CASE Break(c)
  BY <1>3, <1>11 DEF Break
<1> QED BY <1>5, <1>6, <1>7, <1>8, <1>9, <1>10, <1>11 DEF Handler

\* The copies fit in every step ...
LEMMA StepCopies == CopyInv /\ [Next]_vars => CopyInv'
<1> SUFFICES ASSUME CopyInv, [Next]_vars PROVE CopyInv'
  OBVIOUS
<1>1. TypeInv'
  BY StepTypes DEF CopyInv
<1>2. RowsFit' /\ Aged
  BY StepRows
<1>3. NewCopies
  <2>1. CASE UNCHANGED vars
    BY <2>1, OldCopies DEF vars, NewCopies
  <2> QED BY <2>1, UserCopies, AnswerCopies, HandlerCopies DEF Next
<1>4. changes \in Nat /\ changes' \in Nat /\ \A d \in Ids : devices'[d].ver \in Nat
  BY <1>1, PageAssumption DEF CopyInv, TypeInv, Types, Times, Device
<1>5. ASSUME NEW p \in Pages, table'[p] # Null PROVE ListFits(table'[p], devices', changes')
  <2>1. table'[p] \in List /\ ListFits(table'[p], devices, changes)
    BY <1>1, <1>3, <1>5 DEF TypeInv, Types, NewCopies
  <2> QED BY <1>2, <1>4, <2>1, ListsAge
<1>6. ASSUME NEW f \in Form, FormFits(f, devices, changes) PROVE FormFits(f, devices', changes')
  <2>1. f.at \in Nat
    BY PageAssumption DEF Form, Times
  <2> QED BY <1>2, <1>4, <1>6, <2>1, FormsAge
<1>7. ASSUME NEW p \in Pages, form'[p] # Null PROVE FormFits(form'[p], devices', changes')
  <2>1. form'[p] \in Form /\ FormFits(form'[p], devices, changes)
    BY <1>1, <1>3, <1>7 DEF TypeInv, Types, NewCopies
  <2> QED BY <1>6, <2>1
<1>8. ASSUME NEW c \in Slots, calls'[c] # Null
      PROVE  FormFits(calls'[c].form, devices', changes') /\ ListFits(calls'[c].list, devices', changes')
  <2>1. calls'[c] \in Call /\ CallCopies(calls'[c])
    BY <1>1, <1>3, <1>8 DEF TypeInv, Types, NewCopies
  <2>2. calls'[c].form \in Form /\ calls'[c].list \in List
    BY <2>1 DEF Call
  <2>3. FormFits(calls'[c].form, devices, changes) /\ ListFits(calls'[c].list, devices, changes)
    BY <2>1 DEF CallCopies
  <2> QED BY <1>2, <1>4, <1>6, <2>2, <2>3, ListsAge
<1>9. CopiesFit'
  BY <1>5, <1>7, <1>8 DEF CopiesFit
<1> QED BY <1>1, <1>2, <1>9 DEF CopyInv

\* ... and at first.
LEMMA InitCopies == Init => CopyInv
<1> SUFFICES ASSUME Init PROVE CopyInv
  OBVIOUS
<1>1. TypeInv
  BY InitTypes
<1>2. RowsFit
  BY DEF Init, RowsFit, Gone
<1>3. changes = 0 /\ \A p \in Pages : table[p] = Listing /\ form[p] = Null
  BY DEF Init
<1>4. \A c \in Slots : calls[c] = Null
  BY DEF Init
<1>5. ListFits(Listing, devices, changes)
  <2>1. ASSUME NEW d \in Live PROVE FormFits(Picked(Shown(d), 0), devices, 0)
    <3>1. d \in Ids /\ d # 0 /\ devices[d].gen # 0
      BY PageAssumption DEF Live, Ids
    <3> DEFINE f == Picked(Shown(d), 0)
    <3>2. /\ f.id = d /\ f.at = 0 /\ f.typed = {}
          /\ f.val = [x \in Fields |-> IF x \in Listed THEN devices[d].val[x] ELSE Default]
      BY DEF Picked, Shown
    <3> HIDE DEF f
    <3>4. \A x \in Fields : f.val[x] = IF x \in Listed THEN devices[d].val[x] ELSE Default
      BY <3>2
    <3>5. FormFits(f, devices, 0)
      BY <3>1, <3>2, <3>4 DEF FormFits
    <3> QED BY <3>5 DEF f
  <2>2. Listing.at = 0 /\ Listing.rows = {Shown(d) : d \in Live}
    BY <1>3 DEF Listing
  <2> QED BY <1>3, <2>1, <2>2 DEF ListFits
<1>6. CopiesFit
  BY <1>3, <1>4, <1>5 DEF CopiesFit
<1> QED BY <1>1, <1>2, <1>6 DEF CopyInv

\* What its user did not type a save leaves alone, if the form could show it: what is
\* listed it sets back only on a device that changed since the list was read, and the
\* password never (saveDevice).
THEOREM SavesKeepTheRest == Spec => UntouchedKept
<1>1. CopyInv /\ [Next]_vars =>
        [\A c \in Slots : PatchCommit(c) =>
           \A d \in Live, f \in Fields \ {"community"} :
             devices'[d].val[f] # devices[d].val[f] =>
               \/ f \in calls[c].form.typed
               \/ f = "platform" /\ devices[d].val[f] \notin Options
               \/ f \in Listed /\ devices[d].ver > calls[c].form.at]_vars
  <2> SUFFICES ASSUME CopyInv, NEW c \in Slots, PatchCommit(c),
                      NEW d \in Live, NEW x \in Fields \ {"community"},
                      devices'[d].val[x] # devices[d].val[x],
                      x \notin calls[c].form.typed,
                      ~(x = "platform" /\ devices[d].val[x] \notin Options)
               PROVE  x \in Listed /\ devices[d].ver > calls[c].form.at
    OBVIOUS
  <2> DEFINE f == calls[c].form
  <2>1. calls[c] # Null /\ calls[c] \in Call /\ devices \in [Ids -> Device] /\ changes \in Times
    BY DEF PatchCommit, At, CopyInv, TypeInv, Types
  <2>2. FormFits(f, devices, changes) /\ f \in Form
    BY <2>1 DEF CopyInv, CopiesFit, Call
  <2>3. /\ f.id \in Live
        /\ devices' = [devices EXCEPT ![f.id].val = Updated(c), ![f.id].ver = changes + 1]
    BY DEF PatchCommit, Unchanged
  <2>4. f.id \in Ids /\ devices[f.id] \in Device /\ d \in Ids /\ devices[f.id].gen # 0
    BY <2>1, <2>3 DEF Live
  <2>5. f.id = d /\ devices'[d].val = Updated(c)
    BY <2>1, <2>3, <2>4 DEF Device
  <2>6. x \in Columns(c) /\ devices'[d].val[x] = f.val[x]
    BY <2>5 DEF Updated
  <2>7. x \in Sent(f)
    BY <2>6 DEF Columns
  <2> HIDE DEF f
  <2>8. f.id # 0
    BY <2>4, PageAssumption DEF Ids
  <2>9. x \in Listed
    <3> SUFFICES ASSUME x \notin Listed PROVE FALSE
      OBVIOUS
    <3>1. x = "password"
      BY PageAssumption DEF Listed
    <3>2. f.val[x] = Default
      BY <2>2, <2>8 DEF FormFits, f
    <3> QED BY <2>7, <3>1, <3>2 DEF Sent
  <2>10. ~(devices[d].ver <= f.at)
    BY <2>2, <2>4, <2>5, <2>6, <2>8, <2>9 DEF FormFits, f
  <2>11. devices[d].ver \in Nat /\ f.at \in Nat
    BY <2>2, <2>4, <2>5, PageAssumption DEF Device, Form, Times
  <2>12. devices[d].ver > f.at
    BY <2>10, <2>11
  <2> QED BY <2>9, <2>12 DEF f
<1> QED BY <1>1, InitCopies, StepCopies, PTL DEF Spec, UntouchedKept

-----------------------------------------------------------------------------
\* What a page shows of its own changes

\* Lists that are shown or about to be, unless they crossed, are no older than the
\* last change confirmed to their page.
Fresh ==
  \A p \in Pages :
    /\ wrote[p] <= changes
    /\ ~crossed[p] =>
         /\ table[p] # Null => table[p].at >= wrote[p]
         /\ \A c \in Slots :
              calls[c] # Null /\ calls[c].page = p /\ calls[c].op = "list" /\ calls[c].st = "ok" =>
                calls[c].list.at >= wrote[p]

\* A list that is asked for after a change.
LEMMA LoadFresh ==
  ASSUME TypeInv, Fresh, NEW p \in Pages, NEW c \in Slots, LoadDevices(p, c),
         wrote'[p] <= changes, \A q \in Pages \ {p} : wrote'[q] = wrote[q], UNCHANGED changes
  PROVE  Fresh'
<1>1. /\ table \in [Pages -> List \cup {Null}] /\ crossed \in [Pages -> BOOLEAN]
      /\ calls \in [Slots -> Call \cup {Null}]
  BY DEF TypeInv, Types
<1>2. /\ calls'[c] = NewCall(p, "list", NewForm)
      /\ \A x \in Slots \ {c} : calls'[x] = calls[x]
  BY <1>1 DEF LoadDevices
<1>3. calls'[c].page = p /\ calls'[c].st # "ok"
  BY <1>2 DEF NewCall
<1>4. ASSUME NEW q \in Pages PROVE
        /\ wrote'[q] <= changes'
        /\ ~crossed'[q] =>
             /\ table'[q] # Null => table'[q].at >= wrote'[q]
             /\ \A x \in Slots :
                  calls'[x] # Null /\ calls'[x].page = q /\ calls'[x].op = "list" /\ calls'[x].st = "ok" =>
                    calls'[x].list.at >= wrote'[q]
  <2>1. CASE q = p
    <3>1. table'[p] = Null
      BY <1>1 DEF LoadDevices
    <3>2. ASSUME ~crossed'[p], NEW x \in Slots, calls'[x] # Null, calls'[x].page = p,
                 calls'[x].op = "list", calls'[x].st = "ok"
          PROVE  FALSE
      <4>1. x # c
        BY <1>3, <3>2
      <4>2. calls[x] # Null /\ calls[x].page = p /\ calls[x].op = "list"
        BY <1>2, <3>2, <4>1
      <4> QED BY <1>1, <3>2, <4>1, <4>2 DEF LoadDevices
    <3> QED BY <2>1, <3>1, <3>2
  <2>2. CASE q # p
    <3>1. wrote'[q] = wrote[q] /\ table'[q] = table[q] /\ crossed'[q] = crossed[q]
      BY <1>1, <2>2 DEF LoadDevices
    <3>2. \A x \in Slots : calls'[x].page = q => calls'[x] = calls[x]
      BY <1>2, <1>3, <2>2
    <3> QED BY <3>1, <3>2 DEF Fresh
  <2> QED BY <2>1, <2>2
<1> QED BY <1>4 DEF Fresh

\* The other steps change one call, and no list but the one they answer.
LEMMA CallFresh ==
  ASSUME TypeInv, Fresh, UNCHANGED <<table, wrote, crossed>>, changes' \in Nat, changes <= changes',
         NEW c \in Slots, NEW k, calls' = [calls EXCEPT ![c] = k],
         k # Null /\ k.op = "list" /\ k.st = "ok" => k.list.at = changes /\ k.page \in Pages
  PROVE  Fresh'
<1>1. calls \in [Slots -> Call \cup {Null}] /\ changes \in Nat /\ wrote \in [Pages -> Nat]
  BY PageAssumption DEF TypeInv, Types, Times
<1>2. calls'[c] = k /\ \A x \in Slots \ {c} : calls'[x] = calls[x]
  BY <1>1
<1>3. \A p \in Pages : wrote[p] <= changes /\ wrote[p] <= changes'
  <2>1. ASSUME NEW p \in Pages PROVE wrote[p] <= changes /\ wrote[p] <= changes'
    BY <1>1 DEF Fresh
  <2> QED BY <2>1
<1> QED BY <1>1, <1>2, <1>3 DEF Fresh

LEMMA StepFresh == TypeInv /\ Fresh /\ [Next]_vars => Fresh'
<1> SUFFICES ASSUME TypeInv, Fresh, [Next]_vars PROVE Fresh'
  OBVIOUS
<1>1. /\ calls \in [Slots -> Call \cup {Null}] /\ changes \in Nat /\ changes' \in Nat
      /\ \A p \in Pages : wrote[p] \in Nat /\ wrote[p] <= changes
  BY StepTypes, PageAssumption DEF TypeInv, Types, Times, Fresh
<1>2. CASE UNCHANGED vars
  BY <1>2 DEF vars, Fresh
<1>3. ASSUME NEW p \in Pages, User(p) PROVE Fresh'
  <2>1. UNCHANGED <<changes, wrote>>
    BY <1>3 DEF User, Add, Edit, Cancel, Visit, Submit, DeleteRow
  <2>2. CASE Add(p) \/ Edit(p) \/ Cancel(p)
    BY <2>2 DEF Add, Edit, Cancel, Fresh
  <2>3. ASSUME NEW c \in Slots, Visit(p, c) PROVE Fresh'
    BY <1>1, <2>1, <2>3, LoadFresh DEF Visit
  <2>4. ASSUME NEW c \in Slots, NEW op \in {"create", "patch", "delete"}, NEW f,
               calls' = [calls EXCEPT ![c] = NewCall(p, op, f)], UNCHANGED <<table, wrote, crossed>>
        PROVE  Fresh'
    <3> DEFINE k == NewCall(p, op, f)
    <3>1. k.op # "list" /\ calls' = [calls EXCEPT ![c] = k]
      BY <2>4 DEF NewCall
    <3>2. changes' \in Nat /\ changes <= changes'
      BY <1>1, <2>1
    <3> HIDE DEF k
    <3> QED BY <2>4, <3>1, <3>2, CallFresh
  <2>5. ASSUME NEW c \in Slots, Submit(p, c) PROVE Fresh'
    <3>1. UNCHANGED <<table, wrote, crossed>>
      BY <2>5 DEF Submit
    <3>2. PICK v \in Value \cup {form[p].val} :
            LET f == [form[p] EXCEPT !.val = v,
                                     !.typed = @ \cup {x \in Fields : v[x] # form[p].val[x]}]
            IN calls' = [calls EXCEPT ![c] = NewCall(p, IF f.id = 0 THEN "create" ELSE "patch", f)]
      BY <2>5 DEF Submit, Typed
    <3> DEFINE f == [form[p] EXCEPT !.val = v,
                                    !.typed = @ \cup {x \in Fields : v[x] # form[p].val[x]}]
               op == IF f.id = 0 THEN "create" ELSE "patch"
    <3>3. op \in {"create", "patch", "delete"} /\ calls' = [calls EXCEPT ![c] = NewCall(p, op, f)]
      BY <3>2
    <3> HIDE DEF f, op
    <3> QED BY <2>4, <3>1, <3>3
  <2>6. ASSUME NEW c \in Slots, DeleteRow(p, c) PROVE Fresh'
    BY <2>4, <2>6 DEF DeleteRow
  <2> QED BY <1>3, <2>2, <2>3, <2>5, <2>6 DEF User
<1>4. ASSUME NEW c \in Slots, Draw(c) PROVE Fresh'
  <2>1. calls[c] # Null /\ calls[c] \in Call /\ calls[c].page \in Pages /\ calls[c].op = "list"
    BY <1>1, <1>4 DEF Draw, Call
  <2>2. calls' = [calls EXCEPT ![c] = Null] /\ UNCHANGED <<changes, wrote, crossed>>
        /\ table \in [Pages -> List \cup {Null}]
        /\ table' = [table EXCEPT ![calls[c].page] = IF calls[c].st = "ok" THEN calls[c].list ELSE Null]
    BY <1>4 DEF Draw, TypeInv, Types
  <2> QED BY <1>1, <2>1, <2>2 DEF Fresh
<1>5. ASSUME NEW c \in Slots, Changed(c) PROVE Fresh'
  <2> DEFINE p == calls[c].page
  <2>1. calls[c] # Null /\ calls[c] \in Call /\ CallFits(calls[c], changes)
    BY <1>5 DEF Changed, TypeInv, Types, CallsFit
  <2>2. p \in Pages /\ calls[c].at \in Nat /\ calls[c].at <= changes
    BY <2>1, PageAssumption DEF Call, Times, CallFits
  <2>3. LoadDevices(p, c) /\ UNCHANGED changes
        /\ wrote' = [wrote EXCEPT ![p] = IF calls[c].at > @ THEN calls[c].at ELSE @]
    BY <1>5 DEF Changed, Reload
  <2>4. wrote'[p] <= changes /\ \A q \in Pages \ {p} : wrote'[q] = wrote[q]
    BY <1>1, <2>2, <2>3 DEF TypeInv, Types
  <2> HIDE DEF p
  <2> QED BY <2>2, <2>3, <2>4, LoadFresh
<1>6. ASSUME NEW c \in Slots, Failed(c) PROVE Fresh'
  <2>1. calls' = [calls EXCEPT ![c] = Null] /\ UNCHANGED <<table, wrote, crossed>> /\ changes' = changes
    BY <1>6 DEF Failed
  <2>2. changes' \in Nat /\ changes <= changes'
    BY <1>1, <2>1
  <2> QED BY <2>1, <2>2, CallFresh
<1>7. ASSUME NEW c \in Slots, Handler(c) PROVE Fresh'
  <2>1. UNCHANGED <<table, wrote, crossed>> /\ calls[c] # Null /\ calls[c] \in Call
    BY <1>1, <1>7 DEF Handler, ListDevices, CreateCheck, CreateCommit, ReadRow, PatchCommit,
                      DeleteCommit, Break, At
  <2>2. changes <= changes'
    BY <1>1, <1>7 DEF Handler, ListDevices, CreateCheck, CreateCommit, ReadRow, PatchCommit,
                      DeleteCommit, Break, Unchanged
  <2>3. CASE ListDevices(c)
    <3> DEFINE k == [calls[c] EXCEPT !.st = "ok", !.list = Listing]
    <3>1. calls' = [calls EXCEPT ![c] = k]
      BY <1>1, <2>3 DEF ListDevices
    <3>2. k.list = Listing /\ k.page \in Pages
      BY <2>1 DEF Call
    <3>3. k.list.at = changes
      BY <3>2 DEF Listing
    <3> HIDE DEF k
    <3> QED BY <1>1, <2>1, <2>2, <3>1, <3>2, <3>3, CallFresh
  <2>4. ASSUME NEW k, k.op # "list" \/ k.st # "ok", calls' = [calls EXCEPT ![c] = k] PROVE Fresh'
    BY <1>1, <2>1, <2>2, <2>4, CallFresh
  <2>5. CASE Fails(c)
    <3> DEFINE k == [calls[c] EXCEPT !.st = "error"]
    <3>1. k.st # "ok" /\ calls' = [calls EXCEPT ![c] = k]
      BY <1>1, <2>1, <2>5 DEF Fails, Call
    <3> HIDE DEF k
    <3> QED BY <2>4, <3>1
  <2>6. ASSUME calls[c].op # "list", NEW t, Committed(c, t) PROVE Fresh'
    <3>1. PICK st \in {"ok", "error"} :
            calls' = [calls EXCEPT ![c].st = st, ![c].copy = Gone, ![c].at = t]
      BY <2>6 DEF Committed
    <3> DEFINE k == [calls[c] EXCEPT !.st = st, !.copy = Gone, !.at = t]
    <3>2. k.op # "list" /\ calls' = [calls EXCEPT ![c] = k]
      BY <1>1, <2>1, <2>6, <3>1 DEF Call
    <3> HIDE DEF k
    <3> QED BY <2>4, <3>2
  <2>7. CASE CreateCheck(c)
    <3> DEFINE k == [calls[c] EXCEPT !.st = "checked"]
    <3>1. k.st # "ok"
      BY <2>1 DEF Call
    <3>2. Fails(c) \/ calls' = [calls EXCEPT ![c] = k]
      BY <1>1, <2>7 DEF CreateCheck
    <3> HIDE DEF k
    <3> QED BY <2>4, <2>5, <3>1, <3>2
  <2>8. CASE ReadRow(c)
    <3> DEFINE k == [calls[c] EXCEPT !.st = "checked", !.copy = devices[calls[c].form.id]]
    <3>1. k.st # "ok"
      BY <2>1 DEF Call
    <3>2. Fails(c) \/ calls' = [calls EXCEPT ![c] = k]
      BY <1>1, <2>8 DEF ReadRow
    <3> HIDE DEF k
    <3> QED BY <2>4, <2>5, <3>1, <3>2
  <2>9. CASE CreateCommit(c)
    BY <2>5, <2>6, <2>9 DEF CreateCommit, At
  <2>10. CASE PatchCommit(c)
    BY <2>5, <2>6, <2>10 DEF PatchCommit, At
  <2>11. CASE DeleteCommit(c)
    BY <2>6, <2>11 DEF DeleteCommit, At
  <2>12. CASE Break(c)
    BY <2>5, <2>12 DEF Break
  <2> QED BY <1>7, <2>3, <2>7, <2>8, <2>9, <2>10, <2>11, <2>12 DEF Handler
<1> QED BY <1>2, <1>3, <1>4, <1>5, <1>6, <1>7 DEF Next, Answered

\* A page shows its own changes once they are confirmed to it, as long as its lists do
\* not cross (loadDevices after saveDevice and deleteDevice).
THEOREM OwnChangesShown == Spec => []ShowsOwnChanges
<1>1. Init => Fresh
  <2> SUFFICES ASSUME Init PROVE Fresh
    OBVIOUS
  <2>1. /\ changes = 0 /\ \A p \in Pages : wrote[p] = 0 /\ table[p] = Listing
        /\ \A c \in Slots : calls[c] = Null
    BY DEF Init
  <2>2. Listing.at = 0
    BY <2>1 DEF Listing
  <2>3. ASSUME NEW p \in Pages PROVE wrote[p] <= changes /\ table[p].at >= wrote[p]
    <3>1. wrote[p] = 0 /\ table[p] = Listing
      BY <2>1
    <3>2. table[p].at = 0
      BY <2>2, <3>1, Zenon
    <3> QED BY <2>1, <3>1, <3>2
  <2> QED BY <2>1, <2>3 DEF Fresh
<1>2. Fresh => ShowsOwnChanges
  BY DEF Fresh, ShowsOwnChanges
<1> QED BY <1>1, <1>2, InitTypes, StepTypes, StepFresh, PTL DEF Spec

=============================================================================
