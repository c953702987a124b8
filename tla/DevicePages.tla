---------------------------- MODULE DevicePages ----------------------------
(***************************************************************************)
(* The device list and the device form of the web page (app.js), in the     *)
(* browsers of several administrators, and the handlers their calls reach   *)
(* (routers/devices.py).                                                    *)
(*                                                                          *)
(* The fields of a device stand for five kinds: its name, which is unique;  *)
(* host, for what the list returns and the form shows as it is; platform,   *)
(* for what the form cannot always show, as a menu that lacks the value;    *)
(* password, which the form leaves empty; and community, which the list     *)
(* does not return either.  The inventory and the jobs are in Jobs, the key *)
(* of the page in Console.                                                  *)
(***************************************************************************)
EXTENDS Naturals

CONSTANTS
  Pages,       \* browsers
  Slots,       \* bound: calls under way at a time
  Fields,      \* bound: the kinds of fields
  Values,      \* values of a field
  Options,     \* those that the form can show in a field like platform
  Default,     \* what the form shows for a field that is missing: "" or "public"
  MaxId,       \* bound: device ids
  MaxChanges,  \* bound: changes of the table of devices
  MaxMoves,    \* bound: what the users do
  IsMySQL,     \* which database the deployment uses
  Null         \* none

ASSUME PageAssumption ==
  /\ MaxId \in Nat /\ MaxChanges \in Nat /\ MaxMoves \in Nat
  /\ "name" \in Fields /\ Fields \subseteq {"name", "host", "platform", "password", "community"}
  /\ Default \in Values /\ Options \subseteq Values
  /\ IsMySQL \in BOOLEAN

Ids == 1 .. MaxId
Times == 0 .. MaxChanges
Gens == 0 .. MaxChanges + 1

\* Those of DeviceResponse.
Listed == Fields \cap {"name", "host", "platform"}

Value == [Fields -> Values]
Blank == [f \in Fields |-> Default]

\* A row: gen numbers the devices as they are created (0: there is none), ver is the
\* time of the last change.
Device == [gen : Gens, ver : Times, val : Value]
Gone == [gen |-> 0, ver |-> 0, val |-> Blank]

\* The list as queried at a time.
List == [rows : SUBSET [id : Ids, val : Value], at : Times]
NoList == [rows |-> {}, at |-> 0]

\* The form; id 0 is for a new device.  typed: what the user changed in it.
Form == [id : 0 .. MaxId, at : Times, val : Value, typed : SUBSET Fields]
NewForm == [id |-> 0, at |-> 0, val |-> Blank, typed |-> {}]

\* A call: copy is the row its handler read, at when its handler committed.
Call == [page : Pages, op : {"list", "create", "patch", "delete"},
         st : {"sent", "checked", "ok", "error"},
         form : Form, copy : Device, list : List, at : Times]
NewCall(p, op, f) ==
  [page |-> p, op |-> op, st |-> "sent", form |-> f, copy |-> Gone, list |-> NoList, at |-> 0]

VARIABLES
  devices,  \* table devices
  created,  \* how many devices were ever created
  changes,  \* how often the table changed, the clock of the model
  table,    \* per page the list shown, Null while it loads or after an error
  form,     \* per page the form, Null while it is closed
  calls,    \* the calls under way
  \* The rest only observes.
  wrote,    \* per page the time of its last change that was confirmed to it
  crossed,  \* per page whether its last list was asked for while another was under way
  moves     \* bound: how often a user did something

vars == <<devices, created, changes, table, form, calls, wrote, crossed, moves>>

Live == {d \in Ids : devices[d].gen # 0}

\* A row of the list: what it leaves out is Default in the form.
Shown(d) == [id |-> d,
             val |-> [f \in Fields |-> IF f \in Listed THEN devices[d].val[f] ELSE Default]]

Listing == [rows |-> {Shown(d) : d \in Live}, at |-> changes]

\* One device is there, and listed by every page.
Init ==
  /\ \E v \in Value :
       devices = [d \in Ids |-> IF d = 1 THEN [gen |-> 1, ver |-> 0, val |-> v] ELSE Gone]
  /\ created = 1 /\ changes = 0 /\ moves = 0
  /\ table = [p \in Pages |-> Listing]
  /\ form = [p \in Pages |-> Null]
  /\ calls = [c \in Slots |-> Null]
  /\ wrote = [p \in Pages |-> 0]
  /\ crossed = [p \in Pages |-> FALSE]

-----------------------------------------------------------------------------
\* The page

\* loadDevices, up to its await; several may be under way.
LoadDevices(p, c) ==
  /\ table' = [table EXCEPT ![p] = Null]
  /\ calls' = [calls EXCEPT ![c] = NewCall(p, "list", NewForm)]
  /\ crossed' = [crossed EXCEPT ![p] =
       \E x \in Slots \ {c} : calls[x] # Null /\ calls[x].page = p /\ calls[x].op = "list"]

\* The user goes to the devices.
Visit(p, c) ==
  /\ form[p] = Null
  /\ calls[c] = Null
  /\ LoadDevices(p, c)
  /\ UNCHANGED <<devices, created, changes, form, wrote>>

Add(p) ==
  /\ form[p] = Null
  /\ form' = [form EXCEPT ![p] = NewForm]
  /\ UNCHANGED <<devices, created, changes, table, calls, wrote, crossed>>

\* A row of a list of time t as it is.
Picked(r, t) == [id |-> r.id, at |-> t, val |-> r.val, typed |-> {}]

\* What a field shows for a value v: an input takes it; a menu that lacks it turns to
\* nothing, which saveDevice may replace by the default, and so on.
ShownAs(f, v) == IF f = "platform" /\ v \notin Options THEN Values ELSE {v}

\* What openDeviceModal fills the form with.
Filled(r, t) ==
  {[Picked(r, t) EXCEPT !.val = v] :
     v \in {u \in Value : \A f \in Fields : u[f] \in ShownAs(f, r.val[f])}}

\* editDevice takes the device from the list that drew its button.
Edit(p) ==
  /\ form[p] = Null
  /\ table[p] # Null
  /\ \E r \in table[p].rows : \E f \in Filled(r, table[p].at) : form' = [form EXCEPT ![p] = f]
  /\ UNCHANGED <<devices, created, changes, table, calls, wrote, crossed>>

Cancel(p) ==
  /\ form[p] # Null
  /\ form' = [form EXCEPT ![p] = Null]
  /\ UNCHANGED <<devices, created, changes, table, calls, wrote, crossed>>

\* What the user can make of the values of a form.
Typed(val) == {v \in Value : \A f \in Fields : f = "platform" => v[f] \in Options \cup {val[f]}}

\* saveDevice up to its await: the user changed some fields; the form stays open and
\* may be submitted again as it is.
Submit(p, c) ==
  /\ form[p] # Null
  /\ calls[c] = Null
  /\ \E v \in IF form[p].typed = {} THEN Typed(form[p].val) ELSE {form[p].val} :
       LET f == [form[p] EXCEPT !.val = v,
                                !.typed = @ \cup {x \in Fields : v[x] # form[p].val[x]}]
       IN /\ form' = [form EXCEPT ![p] = f]
          /\ calls' = [calls EXCEPT ![c] = NewCall(p, IF f.id = 0 THEN "create" ELSE "patch", f)]
  /\ UNCHANGED <<devices, created, changes, table, wrote, crossed>>

\* deleteDevice up to its await; the row stays where it is.
DeleteRow(p, c) ==
  /\ form[p] = Null
  /\ table[p] # Null
  /\ calls[c] = Null
  /\ \E r \in table[p].rows :
       calls' = [calls EXCEPT ![c] = NewCall(p, "delete", Picked(r, table[p].at))]
  /\ UNCHANGED <<devices, created, changes, table, form, wrote, crossed>>

\* The answer of a list is drawn whenever it comes.
Draw(c) ==
  /\ calls[c] # Null
  /\ calls[c].op = "list"
  /\ calls[c].st \in {"ok", "error"}
  /\ table' = [table EXCEPT ![calls[c].page] = IF calls[c].st = "ok" THEN calls[c].list ELSE Null]
  /\ calls' = [calls EXCEPT ![c] = Null]
  /\ UNCHANGED <<devices, created, changes, form, wrote, crossed, moves>>

\* Mutant of Reload: the list is not asked for again.
ReloadNone(p, c) ==
  /\ calls' = [calls EXCEPT ![c] = Null]
  /\ UNCHANGED <<table, crossed>>

\* What follows a change.
Reload(p, c) == LoadDevices(p, c)

\* A save that was answered closes the form, be it for another device by now, and
\* like a deletion has the list read again.
Changed(c) ==
  LET p == calls[c].page
  IN /\ calls[c] # Null
     /\ calls[c].op # "list"
     /\ calls[c].st = "ok"
     /\ form' = IF calls[c].op = "delete" THEN form ELSE [form EXCEPT ![p] = Null]
     /\ wrote' = [wrote EXCEPT ![p] = IF calls[c].at > @ THEN calls[c].at ELSE @]
     /\ Reload(p, c)
     /\ UNCHANGED <<devices, created, changes, moves>>

\* An alert, or for a deletion nothing at all.
Failed(c) ==
  /\ calls[c] # Null
  /\ calls[c].op # "list"
  /\ calls[c].st = "error"
  /\ calls' = [calls EXCEPT ![c] = Null]
  /\ UNCHANGED <<devices, created, changes, table, form, wrote, crossed, moves>>

-----------------------------------------------------------------------------
\* The handlers

At(c, op, st) == calls[c] # Null /\ calls[c].op = op /\ calls[c].st = st

Fails(c) == calls' = [calls EXCEPT ![c].st = "error"]

Unchanged == UNCHANGED <<devices, created, changes>>

\* list_devices
ListDevices(c) ==
  /\ At(c, "list", "sent")
  /\ calls' = [calls EXCEPT ![c].st = "ok", ![c].list = Listing]
  /\ UNCHANGED <<devices, created, changes, table, form, wrote, crossed, moves>>

\* Mutant of Clashes: name is not unique in the table.
NeverClashes(d, n) == FALSE

\* The unique index on name refuses n for the device.
Clashes(d, n) == \E e \in Live \ {d} : devices[e].val["name"] = n

\* create_device looks for the name ...
CreateCheck(c) ==
  /\ At(c, "create", "sent")
  /\ IF \E e \in Live : devices[e].val["name"] = calls[c].form.val["name"]
     THEN Fails(c)
     ELSE calls' = [calls EXCEPT ![c].st = "checked"]
  /\ UNCHANGED <<devices, created, changes, table, form, wrote, crossed, moves>>

\* The id a new row gets: SQLite takes one more than the highest in the table.
NextId ==
  IF IsMySQL THEN created + 1
  ELSE CHOOSE n \in 1 .. MaxId + 1 : (\A d \in Live : d < n) /\ (n > 1 => n - 1 \in Live)

\* The handler committed; what follows may still fail, or its answer get lost.
Committed(c, t) ==
  \E st \in {"ok", "error"} : calls' = [calls EXCEPT ![c].st = st, ![c].copy = Gone, ![c].at = t]

\* ... and inserts the device.
CreateCommit(c) ==
  /\ At(c, "create", "checked")
  /\ \/ /\ Clashes(0, calls[c].form.val["name"])
        /\ Fails(c) /\ Unchanged
     \/ /\ ~Clashes(0, calls[c].form.val["name"])
        /\ changes < MaxChanges /\ NextId \in Ids
        /\ devices' = [devices EXCEPT ![NextId] =
             [gen |-> created + 1, ver |-> changes + 1, val |-> calls[c].form.val]]
        /\ created' = created + 1
        /\ changes' = changes + 1
        /\ Committed(c, changes + 1)
  /\ UNCHANGED <<table, form, wrote, crossed, moves>>

\* Mutant of Missing: nothing is answered with 404.
MissingNever(d) == FALSE

Missing(d) == d \notin Live

\* update_device and delete_device read the row ...
ReadRow(c) ==
  /\ At(c, "patch", "sent") \/ At(c, "delete", "sent")
  /\ IF Missing(calls[c].form.id)
     THEN Fails(c)
     ELSE calls' = [calls EXCEPT ![c].st = "checked", ![c].copy = devices[calls[c].form.id]]
  /\ UNCHANGED <<devices, created, changes, table, form, wrote, crossed, moves>>

\* Mutant of Sent: an empty password is sent, too.
SentWhole(f) == Fields

\* The fields of the PATCH.
Sent(f) == {x \in Fields : x = "password" => f.val[x] # Default}

\* The columns of the UPDATE: those that differ from the copy.
Columns(c) == {f \in Sent(calls[c].form) : calls[c].form.val[f] # calls[c].copy.val[f]}

Updated(c) ==
  [f \in Fields |-> IF f \in Columns(c) THEN calls[c].form.val[f] ELSE devices[calls[c].form.id].val[f]]

\* ... and update_device writes what differs.
PatchCommit(c) ==
  LET d == calls[c].form.id
  IN /\ At(c, "patch", "checked")
     /\ \/ /\ d \notin Live \/ Clashes(d, Updated(c)["name"])
           /\ Fails(c) /\ Unchanged
        \/ /\ d \in Live /\ Columns(c) = {}
           /\ Committed(c, changes) /\ Unchanged
        \/ /\ d \in Live /\ Columns(c) # {} /\ ~Clashes(d, Updated(c)["name"])
           /\ changes < MaxChanges
           /\ devices' = [devices EXCEPT ![d].val = Updated(c), ![d].ver = changes + 1]
           /\ changes' = changes + 1
           /\ Committed(c, changes + 1)
           /\ UNCHANGED created
     /\ UNCHANGED <<table, form, wrote, crossed, moves>>

\* delete_device deletes whatever has the id.
DeleteCommit(c) ==
  /\ At(c, "delete", "checked")
  /\ changes < MaxChanges
  /\ devices' = [devices EXCEPT ![calls[c].form.id] = Gone]
  /\ changes' = changes + 1
  /\ Committed(c, changes + 1)
  /\ UNCHANGED <<created, table, form, wrote, crossed, moves>>

\* The call does not get there, or the database fails.
Break(c) ==
  /\ calls[c] # Null
  /\ calls[c].st \in {"sent", "checked"}
  /\ Fails(c)
  /\ UNCHANGED <<devices, created, changes, table, form, wrote, crossed, moves>>

-----------------------------------------------------------------------------
User(p) ==
  /\ moves < MaxMoves
  /\ moves' = moves + 1
  /\ \/ Add(p) \/ Edit(p) \/ Cancel(p)
     \/ \E c \in Slots : Visit(p, c) \/ Submit(p, c) \/ DeleteRow(p, c)

Answered(c) == Draw(c) \/ Changed(c) \/ Failed(c)

Handler(c) ==
  \/ ListDevices(c) \/ CreateCheck(c) \/ CreateCommit(c)
  \/ ReadRow(c) \/ PatchCommit(c) \/ DeleteCommit(c) \/ Break(c)

Next == (\E p \in Pages : User(p)) \/ \E c \in Slots : Answered(c) \/ Handler(c)

Spec == Init /\ [][Next]_vars

-----------------------------------------------------------------------------
\* Every variable has its type; a handler goes past its first query only with a row.
TypeOK ==
  /\ devices \in [Ids -> Device]
  /\ created \in Gens /\ changes \in Times /\ moves \in 0 .. MaxMoves
  /\ table \in [Pages -> List \cup {Null}]
  /\ form \in [Pages -> Form \cup {Null}]
  /\ calls \in [Slots -> Call \cup {Null}]
  /\ wrote \in [Pages -> Times]
  /\ crossed \in [Pages -> BOOLEAN]
  /\ \A c \in Slots :
       At(c, "patch", "checked") \/ At(c, "delete", "checked") => calls[c].copy.gen # 0

\* However often a form is submitted, twice in a row, in two browsers, or again
\* after a save that failed once it was committed, no two devices have one name.
NoTwins ==
  \A d, e \in Live : devices[d].val["name"] = devices[e].val["name"] => d = e

\* A save changes what its user typed, and what the form cannot show.  It may set back
\* what is listed only on a device that was changed, or took the place of another,
\* after the list was read from which the form was filled, and never the password.
UntouchedKept ==
  [][\A c \in Slots : PatchCommit(c) =>
       \A d \in Live, f \in Fields \ {"community"} :
         devices'[d].val[f] # devices[d].val[f] =>
           \/ f \in calls[c].form.typed
           \/ f = "platform" /\ devices[d].val[f] \notin Options
           \/ f \in Listed /\ devices[d].ver > calls[c].form.at]_vars

\* The same of the community: a device keeps the one it was given until somebody
\* types another.
EditKeepsCommunity ==
  [][\A c \in Slots : PatchCommit(c) =>
       \A d \in Live : devices'[d].val["community"] # devices[d].val["community"] =>
         "community" \in calls[c].form.typed]_vars

\* A list that is shown has each change that was confirmed to its page, unless the
\* last two were under way at once and may have come in the wrong order.
ShowsOwnChanges ==
  \A p \in Pages : table[p] # Null /\ ~crossed[p] => table[p].at >= wrote[p]

=============================================================================
