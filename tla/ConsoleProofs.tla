--------------------------- MODULE ConsoleProofs ---------------------------
(***************************************************************************)
(* What holds of the API keys and of the monitor view for any number of      *)
(* clients, keys, restarts, devices, calls and moves.                        *)
(***************************************************************************)
EXTENDS Console, SequenceTheorems, TLAPS

-----------------------------------------------------------------------------
\* The API keys

Row == [key : Keys, active : BOOLEAN]

\* The types of the variables of ApiKeys.
KeyTypes ==
  /\ boot \in BootKeys
  /\ rows \in Seq(Row)
  /\ server \in {"down", "printing", "up"}
  /\ request \in [Clients -> {None, "create", "revoke"}]
  /\ known \subseteq Keys
  /\ crashes \in 0 .. MaxCrashes

Flags == revoked \in BOOLEAN /\ unseen \in BOOLEAN

\* How far the table has grown: each start of the process adds a row at most,
\* beyond those of requests.
Grown ==
  Len(rows) <= MaxRows + crashes + (IF server = "down" THEN 0 ELSE 1)

\* A generated key is that of its own row; the key of .env may have several rows.
Named == \A i \in DOMAIN rows : rows[i].key = i \/ rows[i].key = boot

\* A key may only be unknown to everybody while it waits to be printed.
Told ==
  ~unseen => \A i \in DOMAIN rows :
    rows[i].key \in known \/ (server = "printing" /\ i = Len(rows))

\* No request is under way while the server is not up ...
Idle == server # "up" => \A c \in Clients : request[c] = None

\* ... and while none revoked a key since startup, one is active.
Alive ==
  /\ server # "down" /\ ~revoked => \E i \in DOMAIN rows : rows[i].active
  /\ server = "printing" => Len(rows) > 0

KeyInv == KeyTypes /\ Flags /\ Grown /\ Named /\ OneActiveRowPerKey /\ Told /\ Idle /\ Alive

\* The first state.
LEMMA InitKeys == KeysInit => KeyInv
<1> SUFFICES ASSUME KeysInit PROVE KeyInv
  OBVIOUS
<1>1. rows \in Seq(Row) /\ Len(rows) = 0 /\ DOMAIN rows = {}
  BY DEF KeysInit
<1>f. Flags
  BY DEF KeysInit, Flags
<1>2. KeyTypes /\ Grown
  BY <1>1, KeyAssumption DEF KeysInit, KeyTypes, Grown, Keys
<1>3. Named /\ OneActiveRowPerKey /\ Told
  BY <1>1 DEF Named, OneActiveRowPerKey, Told
<1>4. Idle /\ Alive
  BY DEF KeysInit, Idle, Alive
<1> QED
  BY <1>f, <1>2, <1>3, <1>4 DEF KeyInv

\* A row more.
LEMMA RowAdded ==
  ASSUME rows \in Seq(Row), NEW k \in Keys, rows' = Registered(k)
  PROVE  /\ rows' \in Seq(Row) /\ Len(rows') = Len(rows) + 1
         /\ DOMAIN rows' = DOMAIN rows \cup {Len(rows')}
         /\ \A i \in DOMAIN rows : rows'[i] = rows[i]
         /\ rows'[Len(rows')] = [key |-> k, active |-> TRUE]
BY DEF Registered, Row

\* A start that finds an active key.
LEMMA StartupKeys == KeyInv /\ Startup => KeyInv'
<1> SUFFICES ASSUME KeyInv, Startup PROVE KeyInv'
  OBVIOUS
<1>1. KeyTypes' /\ Grown'
  BY KeyAssumption DEF KeyInv, KeyTypes, Grown, Startup
<1>f. Flags'
  BY DEF KeyInv, Flags, Startup
<1>2. Named' /\ OneActiveRowPerKey'
  BY DEF KeyInv, Named, OneActiveRowPerKey, Startup
<1>3. Told'
  BY DEF KeyInv, Told, Startup
<1>4. Idle' /\ Alive'
  BY DEF KeyInv, KeyTypes, Grown, Idle, Alive, Startup, NeedsKey
<1> QED
  BY <1>f, <1>1, <1>2, <1>3, <1>4 DEF KeyInv

\* A start that registers a key, of .env or generated.
LEMMA BootstrapKeys == KeyInv /\ Bootstrap => KeyInv'
<1> SUFFICES ASSUME KeyInv, Bootstrap PROVE KeyInv'
  OBVIOUS
<1> DEFINE k == IF boot = None THEN Generated ELSE boot
<1>1. k \in Keys /\ (k = Len(rows) + 1 \/ k = boot)
  BY KeyAssumption DEF KeyInv, KeyTypes, Grown, Keys, Ids, Generated, Bootstrap
<1>2. rows \in Seq(Row) /\ rows' = Registered(k)
  BY DEF KeyInv, KeyTypes, Grown, Bootstrap
<1> HIDE DEF k
<1>3. /\ rows' \in Seq(Row) /\ Len(rows') = Len(rows) + 1
      /\ DOMAIN rows' = DOMAIN rows \cup {Len(rows')}
      /\ \A i \in DOMAIN rows : rows'[i] = rows[i]
      /\ rows'[Len(rows')] = [key |-> k, active |-> TRUE]
  BY <1>1, <1>2, RowAdded
<1>4. KeyTypes' /\ Grown'
  <2>1. rows' \in Seq(Row) /\ Len(rows) \in Nat /\ Len(rows') = Len(rows) + 1
    BY <1>2, <1>3
  <2>2. KeyTypes'
    BY <2>1 DEF KeyInv, KeyTypes, Bootstrap
  <2>3. server = "down" /\ server' = "printing" /\ crashes' = crashes /\ crashes \in Nat /\ MaxRows \in Nat
    BY KeyAssumption DEF KeyInv, KeyTypes, Bootstrap
  <2>4. Len(rows) <= MaxRows + crashes
    BY <2>3 DEF KeyInv, Grown
  <2>5. Grown'
    BY <2>1, <2>3, <2>4 DEF Grown
  <2> QED BY <2>2, <2>5
<1>f. Flags'
  BY DEF KeyInv, Flags, Bootstrap
<1>5. Named'
  BY <1>1, <1>3 DEF KeyInv, Named, Bootstrap
<1>6. OneActiveRowPerKey'
  BY <1>3 DEF KeyInv, OneActiveRowPerKey, Bootstrap, NeedsKey
<1>7. Told'
  BY <1>3 DEF KeyInv, Told, Bootstrap
<1>8. Idle' /\ Alive'
  BY <1>2, <1>3 DEF KeyInv, Idle, Alive, Bootstrap
<1> QED
  BY <1>f, <1>4, <1>5, <1>6, <1>7, <1>8 DEF KeyInv

\* The key is printed.
LEMMA PrintKeys == KeyInv /\ PrintKey => KeyInv'
<1> SUFFICES ASSUME KeyInv, PrintKey PROVE KeyInv'
  OBVIOUS
<1>0. rows \in Seq(Row) /\ Len(rows) > 0
  BY DEF KeyInv, KeyTypes, Alive, PrintKey
<1>1. Len(rows) \in DOMAIN rows /\ rows[Len(rows)].key \in Keys
  <2>1. Len(rows) \in DOMAIN rows /\ rows[Len(rows)] \in Row
    BY <1>0
  <2> QED
    BY <2>1 DEF Row
<1>2. KeyTypes' /\ Grown'
  BY <1>1 DEF KeyInv, KeyTypes, Grown, PrintKey, Printed
<1>f. Flags'
  BY DEF KeyInv, Flags, PrintKey
<1>3. Told'
  BY DEF KeyInv, Told, PrintKey, Printed
<1>4. Named' /\ OneActiveRowPerKey' /\ Idle' /\ Alive'
  BY DEF KeyInv, Named, OneActiveRowPerKey, Idle, Alive, PrintKey
<1> QED
  BY <1>f, <1>2, <1>3, <1>4 DEF KeyInv

\* The process ends.
LEMMA CrashKeys == KeyInv /\ Crash => KeyInv'
<1> SUFFICES ASSUME KeyInv, Crash PROVE KeyInv'
  OBVIOUS
<1>1. KeyTypes' /\ Grown'
  BY KeyAssumption DEF KeyInv, KeyTypes, Grown, Crash
<1>f. Flags'
  BY DEF KeyInv, Flags, Crash
<1>2. Named' /\ OneActiveRowPerKey'
  BY DEF KeyInv, Named, OneActiveRowPerKey, Crash
<1>3. Told'
  BY DEF KeyInv, Told, Crash
<1>4. Idle' /\ Alive'
  BY DEF KeyInv, KeyTypes, Grown, Idle, Alive, Crash
<1> QED
  BY <1>f, <1>1, <1>2, <1>3, <1>4 DEF KeyInv

\* A request is let in.
LEMMA ArriveKeys ==
  ASSUME KeyInv, NEW c \in Clients, NEW k, NEW op \in {"create", "revoke"}, Arrive(c, k, op)
  PROVE  KeyInv'
<1>1. KeyTypes' /\ Grown'
  BY DEF KeyInv, KeyTypes, Grown, Arrive
<1>f. Flags'
  BY DEF KeyInv, Flags, Arrive
<1>2. Named' /\ OneActiveRowPerKey' /\ Told'
  BY DEF KeyInv, Named, OneActiveRowPerKey, Told, Arrive
<1>3. Idle' /\ Alive'
  BY DEF KeyInv, Idle, Alive, Arrive
<1> QED
  BY <1>f, <1>1, <1>2, <1>3 DEF KeyInv

\* A key is created.
LEMMA CreateKeys ==
  ASSUME KeyInv, NEW c \in Clients, CreateKey(c)
  PROVE  KeyInv'
<1>0. server = "up"
  BY KeyAssumption DEF KeyInv, Idle, CreateKey
<1>1. Generated \in Keys /\ Generated = Len(rows) + 1 /\ server = "up"
  BY <1>0, KeyAssumption DEF KeyInv, KeyTypes, Keys, Ids, Generated, CreateKey
<1>2. rows \in Seq(Row) /\ rows' = Registered(Generated)
  BY DEF KeyInv, KeyTypes, Grown, CreateKey
<1>3. /\ rows' \in Seq(Row) /\ Len(rows') = Len(rows) + 1
      /\ DOMAIN rows' = DOMAIN rows \cup {Len(rows')}
      /\ \A i \in DOMAIN rows : rows'[i] = rows[i]
      /\ rows'[Len(rows')] = [key |-> Generated, active |-> TRUE]
  BY <1>1, <1>2, RowAdded
<1>4. KeyTypes' /\ Grown'
  <2>1. rows' \in Seq(Row) /\ Len(rows) \in Nat /\ Len(rows') = Len(rows) + 1
    BY <1>2, <1>3
  <2>2. request' \in [Clients -> {None, "create", "revoke"}] /\ known' \subseteq Keys
    BY <1>1 DEF KeyInv, KeyTypes, CreateKey
  <2>3. /\ server' = "up" /\ crashes' = crashes /\ boot' = boot
        /\ crashes \in 0 .. MaxCrashes /\ MaxRows \in Nat /\ Len(rows) < MaxRows
    BY <1>0, KeyAssumption DEF KeyInv, KeyTypes, CreateKey
  <2>4. KeyTypes'
    BY <2>1, <2>2, <2>3 DEF KeyInv, KeyTypes
  <2>5. Grown'
    <3>1. Len(rows') <= MaxRows + crashes' + 1
      BY <2>1, <2>3
    <3> QED BY <2>3, <3>1 DEF Grown
  <2> QED BY <2>4, <2>5
<1>f. Flags'
  BY DEF KeyInv, Flags, CreateKey
<1>5. Named'
  BY <1>1, <1>3 DEF KeyInv, Named, CreateKey
<1>6. \A i \in DOMAIN rows : rows[i].key # Len(rows')
  BY <1>2, <1>3, KeyAssumption DEF KeyInv, KeyTypes, Grown, Named
<1>7. OneActiveRowPerKey'
  BY <1>1, <1>3, <1>6 DEF KeyInv, OneActiveRowPerKey
<1>8. Told'
  BY <1>1, <1>3 DEF KeyInv, Told, CreateKey
<1>9. Idle' /\ Alive'
  BY <1>1, <1>2, <1>3 DEF KeyInv, Idle, Alive, CreateKey
<1> QED
  BY <1>f, <1>4, <1>5, <1>7, <1>8, <1>9 DEF KeyInv

\* A key is revoked.
LEMMA RevokeKeys ==
  ASSUME KeyInv, NEW c \in Clients, NEW id \in Ids, RevokeKey(c, id)
  PROVE  KeyInv'
<1>1. server = "up"
  BY KeyAssumption DEF KeyInv, Idle, RevokeKey
<1>2. rows \in Seq(Row) /\ id \in DOMAIN rows /\ rows' = [rows EXCEPT ![id].active = FALSE]
  BY DEF KeyInv, KeyTypes, Grown, RevokeKey
<1> DEFINE out == [rows[id] EXCEPT !.active = FALSE]
<1>a. rows[id] \in Row /\ out \in Row /\ out.key = rows[id].key /\ out.active = FALSE
  <2>1. rows[id] \in Row
    BY <1>2
  <2> QED
    BY <2>1 DEF Row
<1>b. rows' = [rows EXCEPT ![id] = out]
  BY <1>2
<1> HIDE DEF out
<1>3. /\ rows' \in Seq(Row) /\ Len(rows') = Len(rows) /\ DOMAIN rows' = DOMAIN rows
      /\ \A i \in DOMAIN rows : rows'[i].key = rows[i].key /\ (rows'[i].active => rows[i].active)
  <2>1. rows' \in Seq(Row) /\ Len(rows') = Len(rows) /\ DOMAIN rows' = DOMAIN rows
    <3>1. rows \in Seq(Row) /\ id \in 1 .. Len(rows) /\ out \in Row
      BY <1>2, <1>a
    <3>2. [rows EXCEPT ![id] = out] \in Seq(Row) /\ Len([rows EXCEPT ![id] = out]) = Len(rows)
      BY <3>1, ExceptSeq
    <3> QED
      BY <1>b, <3>1, <3>2
  <2>2. rows'[id] = out /\ \A i \in DOMAIN rows \ {id} : rows'[i] = rows[i]
    BY <1>2, <1>b
  <2> QED
    BY <2>1, <2>2, <1>a
<1>4. KeyTypes' /\ Grown'
  BY <1>1, <1>3 DEF KeyInv, KeyTypes, Grown, RevokeKey
<1>f. Flags'
  BY DEF KeyInv, Flags, RevokeKey
<1>5. Named' /\ OneActiveRowPerKey' /\ Told'
  BY <1>3 DEF KeyInv, Named, OneActiveRowPerKey, Told, RevokeKey
<1>6. Idle' /\ Alive'
  BY <1>1 DEF KeyInv, Idle, Alive, RevokeKey
<1> QED
  BY <1>f, <1>4, <1>5, <1>6 DEF KeyInv

\* Only the server and those who administer keys change what ApiKeys keeps.
LEMMA StillKeys == KeyInv /\ UNCHANGED keyVars => KeyInv'
BY DEF KeyInv, KeyTypes, Grown, Named, OneActiveRowPerKey, Told, Idle, Alive, Flags, Grown, keyVars

\* Every step of the whole.
LEMMA StepKeys == KeyInv /\ [Next]_allVars => KeyInv'
<1> SUFFICES ASSUME KeyInv, [Next]_allVars PROVE KeyInv'
  OBVIOUS
<1>1. CASE UNCHANGED keyVars
  BY <1>1, StillKeys
<1>2. CASE Administer
  BY <1>2, ArriveKeys DEF Administer
<1>3. CASE Backend
  BY <1>3, StartupKeys, BootstrapKeys, PrintKeys, CrashKeys, CreateKeys, RevokeKeys
     DEF Backend, ServerStep
<1> QED
  BY <1>1, <1>2, <1>3 DEF Next, User, Interval, Handle, Page, allVars

\* What the theorems about keys follow from: generated keys are named after their
\* rows, a key nobody was told waits to be printed, and while nobody revoked a key
\* since startup one is active.
THEOREM KeysInvariant == Spec => []KeyInv
<1>1. Init => KeyInv
  BY InitKeys DEF Init
<1> QED
  BY <1>1, StepKeys, PTL DEF Spec

\* No key has two active rows.
THEOREM OneRowPerKey == Spec => []OneActiveRowPerKey
<1>1. KeyInv => OneActiveRowPerKey
  BY DEF KeyInv
<1> QED
  BY <1>1, KeysInvariant, PTL

\* A key that was revoked is refused from then on, unless it is that of .env.
THEOREM RevokedStaysRevoked == Spec => []RevokedForGood
<1>1. KeyInv => RevokedForGood
  BY KeyAssumption DEF KeyInv, KeyTypes, Grown, Named, RevokedForGood, Accepted
<1> QED
  BY <1>1, KeysInvariant, PTL

\* Startup leaves the users a key that works.
THEOREM WayIn == Spec => []StartupLeavesAWayIn
<1>1. KeyInv => StartupLeavesAWayIn
  BY DEF KeyInv, Told, Alive, StartupLeavesAWayIn, Accepted
<1> QED
  BY <1>1, KeysInvariant, PTL

-----------------------------------------------------------------------------
\* The monitor view

CallsType == calls \in [Slots -> CallType \cup {Null}]

\* The types of the variables of MonitorView.
ViewTypes ==
  /\ apiKey \in Keys \cup {Null}
  /\ mon \in Devices \cup {Null}
  /\ timers \subseteq Timers
  /\ handle \in Timers \cup {Null}
  /\ shown \in Devices \cup {Null}
  /\ chart \in Devices \cup {Null}
  /\ moves \in 0 .. MaxMoves

PortType == port \in Devices \cup {Null} /\ long \in BOOLEAN

\* That no interval is lost is needed for a new one to have an id of its own.
ViewInv == ViewTypes /\ PortType /\ CallsType /\ NoTimerLeak

\* A call has its type.
LEMMA CallTyped ==
  ASSUME NEW kind \in {"overview", "traffic", "post"}, NEW dev \in Devices \cup {Null},
         NEW key \in Keys \cup {Null}, NEW opening \in BOOLEAN,
         NEW of \in Devices \cup {Null}, NEW days \in BOOLEAN
  PROVE  Call(kind, dev, key, opening, of, days) \in CallType
BY DEF Call, CallType

\* However the slot is chosen, the calls keep their type.
LEMMA SentTyped ==
  ASSUME CallsType, NEW call \in CallType, Sent(call)
  PROVE  CallsType'
<1> DEFINE slot == CHOOSE c \in Slots : calls[c] = Null /\ \A o \in 1 .. c - 1 : calls[o] # Null
<1>1. calls' = [calls EXCEPT ![slot] = call]
  BY DEF Sent
<1> HIDE DEF slot
<1> QED
  BY <1>1 DEF CallsType

\* A call that is awaited has its type.
LEMMA PendingTyped ==
  ASSUME CallsType, NEW c \in Slots, calls[c] # Null
  PROVE  /\ calls[c] \in CallType
         /\ calls[c].opening \in BOOLEAN
         /\ calls[c].dev \in Devices \cup {Null}
<1>1. calls[c] \in CallType
  BY DEF CallsType
<1> QED
  BY <1>1 DEF CallType

\* The two ways a function goes on after its await.
LEMMA EndedTyped ==
  ASSUME ViewInv, NEW c \in Slots, Ended(c)
  PROVE  CallsType' /\ NoTimerLeak' /\ timers' \subseteq Timers /\ handle' \in Timers \cup {Null}
<1>1. CallsType'
  BY DEF ViewInv, CallsType, Ended
<1>2. CASE calls[c].opening
  <2> DEFINE new == CHOOSE n \in Timers : n \notin timers
  <2>1. timers' = (timers \ {handle}) \cup {new} /\ handle' = new
    BY <1>2 DEF Ended, Restarted
  <2>2. \E n \in Timers : n \notin timers
    <3>1. 1 \in Timers /\ 2 \in Timers
      BY ViewAssumption DEF Timers
    <3>2. timers \subseteq {handle}
      BY DEF ViewInv, NoTimerLeak
    <3> QED
      BY <3>1, <3>2
  <2>3. new \in Timers
    BY <2>2
  <2> HIDE DEF new
  <2> QED
    BY <1>1, <2>1, <2>3 DEF ViewInv, ViewTypes, NoTimerLeak
<1>3. CASE ~calls[c].opening
  BY <1>1, <1>3 DEF Ended, ViewInv, ViewTypes, NoTimerLeak
<1> QED
  BY <1>2, <1>3

\* The function goes on to another call.
LEMMA GoesOnTyped ==
  ASSUME ViewInv, NEW c \in Slots, calls[c] # Null,
         NEW kind \in {"overview", "traffic", "post"}, GoesOn(c, kind)
  PROVE  CallsType' /\ NoTimerLeak' /\ timers' \subseteq Timers /\ handle' \in Timers \cup {Null}
<1>1. calls[c].opening \in BOOLEAN
  BY PendingTyped DEF ViewInv
<1>2. Call(kind, mon, apiKey, calls[c].opening, port, long) \in CallType
  BY <1>1, CallTyped DEF ViewInv, ViewTypes, PortType
<1>3. CallsType'
  BY <1>2 DEF GoesOn, ViewInv, CallsType
<1> QED
  BY <1>3 DEF GoesOn, ViewInv, ViewTypes, NoTimerLeak

\* The first state of the page.
LEMMA InitView == KeyInv /\ ViewInit(known) => ViewInv
<1> SUFFICES ASSUME KeyInv, ViewInit(known) PROVE ViewInv
  OBVIOUS
<1>1. ViewTypes
  BY ViewAssumption DEF ViewInit, ViewTypes, KeyInv, KeyTypes
<1>2. PortType
  BY DEF ViewInit, PortType
<1>3. CallsType /\ NoTimerLeak
  BY DEF ViewInit, CallsType, NoTimerLeak
<1> QED
  BY <1>1, <1>2, <1>3 DEF ViewInv

\* A move that only makes a call.
LEMMA AsksView ==
  ASSUME ViewInv, NEW kind \in {"overview", "traffic", "post"}, NEW opening \in BOOLEAN,
         NEW of \in Devices \cup {Null}, NEW days \in BOOLEAN,
         \/ Sent(Call(kind, mon, apiKey, opening, of, days))
         \/ Sent(Call(kind, mon', apiKey, opening, of, days)),
         apiKey' = apiKey, mon' \in Devices \cup {Null}, PortType',
         timers' = timers, handle' = handle, shown' \in Devices \cup {Null},
         chart' \in Devices \cup {Null}, moves' \in 0 .. MaxMoves
  PROVE  ViewInv'
<1>1. CallsType'
  BY CallTyped, SentTyped DEF ViewInv, ViewTypes
<1> QED
  BY <1>1 DEF ViewInv, ViewTypes, NoTimerLeak

\* Moves stay within their bound.
LEMMA MovedTyped == ViewInv /\ Moved => moves' \in 0 .. MaxMoves
BY ViewAssumption DEF ViewInv, ViewTypes, Moved

\* What the user does keeps the page's invariant.
LEMMA UserView == KeyInv /\ ViewInv /\ UserStep(known) => ViewInv'
<1> SUFFICES ASSUME KeyInv, ViewInv, UserStep(known) PROVE ViewInv'
  OBVIOUS
<1>1. moves' \in 0 .. MaxMoves
  BY MovedTyped DEF UserStep, Open, Close, SelectPort, Post, ChangeRange, Login, Logout, Reload, MovedInside
<1>2. ASSUME NEW d \in Devices, Open(d) PROVE ViewInv'
  <2>1. Sent(Call("overview", mon', apiKey, TRUE, Null, FALSE)) /\ mon' \in Devices \cup {Null}
    BY <1>2 DEF Open
  <2>2. PortType'
    BY <1>2 DEF Open, PortType
  <2>3. /\ apiKey' = apiKey /\ timers' = timers /\ handle' = handle
        /\ shown' \in Devices \cup {Null} /\ chart' \in Devices \cup {Null}
    BY <1>2 DEF Open, ViewInv, ViewTypes
  <2> QED
    BY <1>1, <2>1, <2>2, <2>3, AsksView
<1>3. ASSUME Close PROVE ViewInv'
  <2>1. ViewTypes' /\ NoTimerLeak'
    BY <1>1, <1>3 DEF Close, ViewInv, ViewTypes, NoTimerLeak
  <2> QED
    BY <1>3, <2>1 DEF Close, ViewInv, CallsType, PortType
<1>4. ASSUME SelectPort PROVE ViewInv'
  <2>1. PortType'
    BY <1>4 DEF SelectPort, PortType, ViewInv, ViewTypes
  <2>2. /\ Sent(Call("traffic", mon, apiKey, FALSE, shown, long)) /\ long \in BOOLEAN
        /\ shown \in Devices \cup {Null}
        /\ apiKey' = apiKey /\ timers' = timers /\ handle' = handle
        /\ mon' \in Devices \cup {Null}
        /\ shown' \in Devices \cup {Null} /\ chart' \in Devices \cup {Null}
    BY <1>4 DEF SelectPort, ViewInv, ViewTypes, PortType
  <2> QED
    BY <1>1, <2>1, <2>2, AsksView
<1>5. ASSUME Post \/ ChangeRange PROVE ViewInv'
  <2>1. PortType'
    BY <1>5 DEF Post, ChangeRange, PortType, ViewInv
  <2>2. /\ \/ Sent(Call("post", mon, apiKey, FALSE, port, long))
           \/ Sent(Call("overview", mon, apiKey, FALSE, port, long'))
        /\ long \in BOOLEAN /\ long' \in BOOLEAN /\ port \in Devices \cup {Null}
        /\ apiKey' = apiKey /\ timers' = timers /\ handle' = handle
        /\ mon' \in Devices \cup {Null}
        /\ shown' \in Devices \cup {Null} /\ chart' \in Devices \cup {Null}
    BY <1>5 DEF Post, ChangeRange, ViewInv, ViewTypes, PortType
  <2> QED
    BY <1>1, <2>1, <2>2, AsksView
<1>6. ASSUME NEW k \in known, Login(k) PROVE ViewInv'
  <2>1. ViewTypes' /\ NoTimerLeak'
    BY <1>1, <1>6 DEF Login, KeyInv, KeyTypes, ViewInv, ViewTypes, NoTimerLeak
  <2> QED
    BY <1>6, <2>1 DEF Login, ViewInv, CallsType, PortType
<1>7. ASSUME Logout PROVE ViewInv'
  <2>1. ViewTypes' /\ NoTimerLeak'
    BY <1>1, <1>7 DEF Logout, ViewInv, ViewTypes, NoTimerLeak
  <2> QED
    BY <1>7, <2>1 DEF Logout, ViewInv, CallsType, PortType
<1>8. ASSUME Reload PROVE ViewInv'
  <2>1. ViewTypes' /\ NoTimerLeak'
    BY <1>1, <1>8 DEF Reload, ViewInv, ViewTypes, NoTimerLeak
  <2>2. CallsType'
    BY <1>8 DEF Reload, CallsType
  <2>3. PortType'
    BY <1>8 DEF Reload, PortType
  <2> QED
    BY <2>1, <2>2, <2>3 DEF ViewInv
<1> QED
  BY <1>2, <1>3, <1>4, <1>5, <1>6, <1>7, <1>8 DEF UserStep

\* So does an interval that fires.
LEMMA TickView == ViewInv /\ Tick => ViewInv'
<1> SUFFICES ASSUME ViewInv, Tick PROVE ViewInv'
  OBVIOUS
<1>1. PortType'
  BY DEF Tick, PortType, ViewInv
<1>2. /\ Sent(Call("overview", mon, apiKey, FALSE, port, long))
      /\ port \in Devices \cup {Null} /\ long \in BOOLEAN
      /\ apiKey' = apiKey /\ timers' = timers /\ handle' = handle
      /\ mon' \in Devices \cup {Null} /\ moves' \in 0 .. MaxMoves
      /\ shown' \in Devices \cup {Null} /\ chart' \in Devices \cup {Null}
  BY DEF Tick, ViewInv, ViewTypes, PortType
<1> QED
  BY <1>1, <1>2, AsksView

\* So does the server's answer.
LEMMA HandleView ==
  ASSUME ViewInv, NEW c \in Slots, Handle(c)
  PROVE  ViewInv'
<1>1. PICK st \in Verdicts(calls[c]) : Serve(c, st)
  BY DEF Handle
<1>a. st \in {"failed", "refused", "ok"}
  BY <1>1 DEF Verdicts
<1>2. calls[c] # Null
      /\ UNCHANGED <<apiKey, mon, port, long, timers, handle, shown, chart, moves>>
  BY <1>1 DEF Serve
<1>3. calls[c] \in CallType
  BY <1>2, PendingTyped DEF ViewInv
<1> DEFINE key == IF st = "refused" THEN calls[c].key ELSE Null
           served == [calls[c] EXCEPT !.st = st, !.key = key, !.port = Null, !.long = FALSE]
<1>b. key \in Keys \cup {Null}
  BY <1>3 DEF CallType
<1>5. calls' = [calls EXCEPT ![c] = served]
  BY <1>1 DEF Serve, ViewInv, CallsType
<1> HIDE DEF key
<1>4. served \in CallType
  BY <1>a, <1>b, <1>3 DEF CallType
<1> HIDE DEF served
<1>6. CallsType'
  BY <1>4, <1>5 DEF ViewInv, CallsType
<1> QED
  BY <1>2, <1>6 DEF ViewInv, ViewTypes, PortType, NoTimerLeak

\* So does a function that goes on after its await.
LEMMA PageView ==
  ASSUME ViewInv, NEW c \in Slots, PageStep(c)
  PROVE  ViewInv'
<1>1. calls[c] # Null /\ long' = long /\ (Ended(c) \/ GoesOn(c, "traffic") \/ GoesOn(c, "overview"))
  BY DEF PageStep, Render, Draw, Polled, Fail, Answered
<1>2. CallsType' /\ NoTimerLeak' /\ timers' \subseteq Timers /\ handle' \in Timers \cup {Null}
  BY <1>1, EndedTyped, GoesOnTyped
<1>3. calls[c].dev \in Devices \cup {Null}
  BY <1>1, PendingTyped DEF ViewInv
<1>4. PortType'
  BY DEF PageStep, Render, Draw, Polled, Fail, PortType, ViewInv
<1>5. /\ apiKey' \in Keys \cup {Null} /\ mon' = mon /\ moves' = moves
      /\ shown' \in Devices \cup {Null} /\ chart' \in Devices \cup {Null}
  BY <1>3 DEF PageStep, Render, Draw, Polled, Fail, KeyAfter, ViewInv, ViewTypes
<1> QED
  BY <1>2, <1>4, <1>5 DEF ViewInv, ViewTypes

\* So does a request of an administrator.
LEMMA AdministerView == ViewInv /\ Administer => ViewInv'
<1> SUFFICES ASSUME ViewInv, Administer PROVE ViewInv'
  OBVIOUS
<1>1. moves' \in 0 .. MaxMoves
  BY MovedTyped DEF Administer
<1> QED
  BY <1>1 DEF Administer, ViewInv, ViewTypes, PortType, CallsType, NoTimerLeak

\* So does a step that leaves the page alone.
LEMMA StillView == ViewInv /\ UNCHANGED viewVars => ViewInv'
BY DEF ViewInv, ViewTypes, PortType, CallsType, NoTimerLeak, viewVars

\* So does every step of the whole.
LEMMA StepView == KeyInv /\ ViewInv /\ [Next]_allVars => ViewInv'
<1> SUFFICES ASSUME KeyInv, ViewInv, [Next]_allVars PROVE ViewInv'
  OBVIOUS
<1>1. CASE User
  BY <1>1, UserView DEF User
<1>2. CASE Administer
  BY <1>2, AdministerView
<1>3. CASE Interval
  BY <1>3, TickView DEF Interval
<1>4. CASE Backend \/ UNCHANGED allVars
  BY <1>4, StillView DEF Backend, allVars
<1>5. ASSUME NEW c \in Slots, Handle(c) \/ Page(c) PROVE ViewInv'
  BY <1>5, HandleView, PageView DEF Page
<1> QED
  BY <1>1, <1>2, <1>3, <1>4, <1>5 DEF Next

\* Types of the page's variables, and that the timer that runs is the one it holds.
THEOREM ViewInvariant == Spec => []ViewInv
<1>1. Init => ViewInv
  BY InitKeys, InitView DEF Init
<1>2. Spec => []KeyInv
  BY KeysInvariant
<1> QED
  BY <1>1, <1>2, StepView, PTL DEF Spec

\* Every variable has its type.
THEOREM Typed == Spec => []TypeOK
<1>1. KeyInv /\ ViewInv => TypeOK
  BY DEF KeyInv, KeyTypes, Flags, Row, ViewInv, ViewTypes, PortType, CallsType, TypeOK
<1> QED
  BY <1>1, KeysInvariant, ViewInvariant, PTL

\* However many opens overlap, the page can clear every interval that runs.
THEOREM NoTimerIsLost == Spec => []NoTimerLeak
<1>1. ViewInv => NoTimerLeak
  BY DEF ViewInv
<1> QED
  BY <1>1, ViewInvariant, PTL

\* The keys of the page were told to somebody; but for that of .env they are keys of
\* rows, and a key that was refused stays refused.
KeyOfRow(k) == k = boot \/ \E i \in DOMAIN rows : rows[i].key = k

KnownInRows == \A k \in known : KeyOfRow(k)

PageKeys ==
  /\ apiKey \in known \cup {Null}
  /\ \A c \in Slots : calls[c] # Null => calls[c].key \in known \cup {Null}

StaysRefused ==
  \A c \in Slots : calls[c] # Null /\ calls[c].st = "refused" =>
    calls[c].key = boot \/ ~Accepted(calls[c].key)

HeldKeys == KnownInRows /\ PageKeys /\ StaysRefused

\* A row more makes its own key good, and no other.
LEMMA RowAddedKeys ==
  ASSUME KeyInv, KnownInRows, NEW k \in Keys, rows' = Registered(k), boot' = boot,
         k = boot \/ k = Len(rows) + 1
  PROVE  /\ \A x : KeyOfRow(x) => KeyOfRow(x)'
         /\ KeyOfRow(k)'
         /\ \A x \in known \cup {Null} : Accepted(x)' => Accepted(x) \/ x = boot
<1>1. /\ rows' \in Seq(Row) /\ Len(rows') = Len(rows) + 1
      /\ DOMAIN rows' = DOMAIN rows \cup {Len(rows')}
      /\ \A i \in DOMAIN rows : rows'[i] = rows[i]
      /\ rows'[Len(rows')] = [key |-> k, active |-> TRUE]
  BY RowAdded DEF KeyInv, KeyTypes
<1>2. \A x : KeyOfRow(x) => KeyOfRow(x)'
  BY <1>1 DEF KeyOfRow
<1>3. KeyOfRow(k)'
  BY <1>1 DEF KeyOfRow
<1>4. ASSUME NEW x \in known \cup {Null}, Accepted(x)', ~Accepted(x)
      PROVE  x = boot
  <2>1. x = k
    BY <1>1, <1>4 DEF Accepted
  <2>2. x \in known
    BY <1>4, <2>1, ConsoleAssumption
  <2>3. CASE k = Len(rows) + 1
    <3>1. rows \in Seq(Row) /\ boot \notin Nat /\ Len(rows) \in Nat /\ DOMAIN rows = 1 .. Len(rows)
      BY KeyAssumption DEF KeyInv, KeyTypes
    <3>2. \A i \in DOMAIN rows : rows[i].key # k
      BY <2>3, <3>1 DEF KeyInv, Named
    <3> QED
      BY <2>1, <2>2, <3>2 DEF KnownInRows, KeyOfRow
  <2> QED
    BY <2>1, <2>3
<1> QED
  BY <1>2, <1>3, <1>4

\* Rows are only added and revoked, and of the keys somebody was told none becomes
\* good again but that of .env.
LEMMA RowsGrow ==
  ASSUME KeyInv, KnownInRows, [Next]_allVars
  PROVE  /\ boot' = boot /\ known \subseteq known' /\ KnownInRows'
         /\ \A x \in known \cup {Null} : Accepted(x)' => Accepted(x) \/ x = boot
<1>1. CASE rows' = rows /\ boot' = boot /\ known' = known
  BY <1>1 DEF KnownInRows, KeyOfRow, Accepted
<1>2. CASE Startup \/ Crash
  BY <1>1, <1>2 DEF Startup, Crash
<1>3. CASE PrintKey
  <2>1. Len(rows) \in DOMAIN rows
    BY <1>3 DEF KeyInv, KeyTypes, Alive, PrintKey
  <2>2. rows' = rows /\ boot' = boot /\ known' = known \cup {rows[Len(rows)].key}
    BY <1>3 DEF PrintKey, Printed
  <2> QED
    BY <2>1, <2>2 DEF KnownInRows, KeyOfRow, Accepted
<1>4. CASE Bootstrap
  <2>1. /\ (IF boot = None THEN Generated ELSE boot) \in Keys
        /\ (IF boot = None THEN Generated ELSE boot) \in {Len(rows) + 1, boot}
    BY <1>4, KeyAssumption DEF KeyInv, KeyTypes, Grown, Keys, Ids, Generated, Bootstrap
  <2>a. PICK k \in Keys : k = IF boot = None THEN Generated ELSE boot
    BY <2>1
  <2>b. k = Len(rows) + 1 \/ k = boot
    BY <2>1, <2>a
  <2>2. rows' = Registered(k) /\ boot' = boot /\ known' = known
    BY <1>4, <2>a DEF Bootstrap
  <2>3. /\ \A x : KeyOfRow(x) => KeyOfRow(x)'
        /\ \A x \in known \cup {Null} : Accepted(x)' => Accepted(x) \/ x = boot
    BY <2>b, <2>2, RowAddedKeys
  <2> QED
    BY <2>2, <2>3 DEF KnownInRows
<1>5. ASSUME NEW c \in Clients, CreateKey(c)
      PROVE  /\ boot' = boot /\ known \subseteq known' /\ KnownInRows'
             /\ \A x \in known \cup {Null} : Accepted(x)' => Accepted(x) \/ x = boot
  <2>1. Generated \in Keys /\ Generated = Len(rows) + 1
    BY <1>5, KeyAssumption DEF KeyInv, KeyTypes, Keys, Ids, Generated, CreateKey
  <2>a. PICK n \in Keys : n = Len(rows) + 1
    BY <2>1
  <2>2. /\ rows' = Registered(n) /\ boot' = boot
        /\ known' = known \/ known' = known \cup {n}
    BY <1>5, <2>1, <2>a DEF CreateKey
  <2>3. /\ \A x : KeyOfRow(x) => KeyOfRow(x)'
        /\ KeyOfRow(n)'
        /\ \A x \in known \cup {Null} : Accepted(x)' => Accepted(x) \/ x = boot
    BY <2>a, <2>2, RowAddedKeys
  <2> QED
    BY <2>2, <2>3 DEF KnownInRows
<1>6. ASSUME NEW c \in Clients, NEW id \in Ids, RevokeKey(c, id)
      PROVE  /\ boot' = boot /\ known \subseteq known' /\ KnownInRows'
             /\ \A x \in known \cup {Null} : Accepted(x)' => Accepted(x) \/ x = boot
  <2>1. /\ rows \in Seq(Row) /\ id \in DOMAIN rows
        /\ rows' = [rows EXCEPT ![id].active = FALSE] /\ boot' = boot /\ known' = known
    BY <1>6 DEF KeyInv, KeyTypes, RevokeKey
  <2>2. /\ DOMAIN rows' = DOMAIN rows
        /\ \A i \in DOMAIN rows : rows'[i].key = rows[i].key /\ (rows'[i].active => rows[i].active)
    <3>1. /\ DOMAIN rows' = DOMAIN rows
          /\ rows'[id] = [rows[id] EXCEPT !.active = FALSE]
          /\ \A i \in DOMAIN rows \ {id} : rows'[i] = rows[i]
      BY <2>1
    <3>2. rows[id] \in Row
      BY <2>1
    <3> QED
      BY <3>1, <3>2 DEF Row
  <2> QED
    BY <2>1, <2>2 DEF KnownInRows, KeyOfRow, Accepted
<1>7. CASE Backend
  BY <1>2, <1>3, <1>4, <1>5, <1>6, <1>7 DEF Backend, ServerStep
<1>8. CASE UNCHANGED keyVars \/ Administer
  BY <1>1, <1>8 DEF keyVars, Administer, Arrive
<1> QED
  BY <1>7, <1>8 DEF Next, User, Interval, Handle, Page, allVars

\* A call sent now takes a free slot.
LEMMA SentInto ==
  ASSUME CallsType, NEW call, Sent(call), NEW c \in Slots
  PROVE  calls'[c] = calls[c] \/ calls'[c] = call
BY DEF Sent, CallsType

\* How an awaited call comes about: it was there, or is sent with the key of now, or
\* the server answers it.
NewCall(c) ==
  \/ calls'[c] = calls[c]
  \/ calls'[c] = Null
  \/ calls'[c].st = "sent" /\ calls'[c].key = apiKey
  \/ /\ calls[c] # Null /\ rows' = rows
     /\ calls'[c].key \in {calls[c].key, Null}
     /\ calls'[c].st = "refused" => calls'[c].key = calls[c].key /\ ~Accepted(calls[c].key)

LEMMA CallsFrom ==
  ASSUME ViewInv, [Next]_allVars, NEW c \in Slots
  PROVE  NewCall(c)
<1>0. CallsType
  BY DEF ViewInv
<1>1. CASE UNCHANGED calls
  BY <1>1 DEF NewCall
<1>2. CASE Backend \/ Administer \/ UNCHANGED allVars
  BY <1>1, <1>2 DEF Backend, Administer, viewVars, allVars
<1>3. ASSUME NEW kind, NEW dev, NEW opening, NEW of, NEW days,
             Sent(Call(kind, dev, apiKey, opening, of, days))
      PROVE  NewCall(c)
  BY <1>0, <1>3, SentInto DEF Call, NewCall
<1>4. CASE User
  <2>1. ASSUME NEW d \in Devices, Open(d) PROVE NewCall(c)
    BY <1>3, <2>1 DEF Open
  <2>2. CASE SelectPort
    BY <1>3, <2>2 DEF SelectPort
  <2>3. CASE Post
    BY <1>3, <2>3 DEF Post
  <2>4. CASE ChangeRange
    BY <1>3, <2>4 DEF ChangeRange
  <2>5. CASE Close \/ Logout \/ \E k \in known : Login(k)
    BY <1>1, <2>5 DEF Close, Logout, Login
  <2>6. CASE Reload
    BY <2>6 DEF Reload, NewCall
  <2> QED
    BY <1>4, <2>1, <2>2, <2>3, <2>4, <2>5, <2>6 DEF User, UserStep
<1>5. CASE Interval
  BY <1>3, <1>5 DEF Interval, Tick
<1>6. ASSUME NEW o \in Slots, Handle(o) PROVE NewCall(c)
  <2>1. CASE o # c
    BY <1>0, <1>6, <2>1 DEF Handle, Serve, NewCall, CallsType
  <2>2. CASE o = c
    <3>1. PICK st \in Verdicts(calls[c]) : Serve(c, st)
      BY <1>6, <2>2 DEF Handle
    <3>2. st = "refused" => ~Accepted(calls[c].key)
      BY <3>1 DEF Verdicts
    <3>3. calls[c] \in CallType
      BY <1>0, <3>1, PendingTyped DEF Serve
    <3>4. calls'[c] = [calls[c] EXCEPT !.st = st, !.key = IF st = "refused" THEN @ ELSE Null,
                                       !.port = Null, !.long = FALSE]
      BY <1>0, <3>1 DEF Serve, CallsType
    <3>5. calls'[c].st = st /\ calls'[c].key = IF st = "refused" THEN calls[c].key ELSE Null
      BY <3>3, <3>4 DEF CallType
    <3>6. rows' = rows /\ calls[c] # Null
      BY <1>6, <3>1 DEF Handle, Serve, keyVars
    <3> QED
      BY <3>2, <3>5, <3>6 DEF NewCall
  <2> QED
    BY <2>1, <2>2
<1>7. ASSUME NEW o \in Slots, Page(o) PROVE NewCall(c)
  <2>1. Ended(o) \/ GoesOn(o, "traffic") \/ GoesOn(o, "overview")
    BY <1>7 DEF Page, PageStep, Render, Draw, Polled, Fail
  <2> QED
    BY <1>0, <2>1 DEF Ended, GoesOn, Call, NewCall, CallsType
<1> QED
  BY <1>2, <1>4, <1>5, <1>6, <1>7 DEF Next

\* The key of the page changes to one the user knows, or to none.
LEMMA KeyFrom ==
  ASSUME [Next]_allVars
  PROVE  apiKey' \in known \cup {Null, apiKey}
<1>1. CASE User
  BY <1>1 DEF User, UserStep, Open, Close, SelectPort, Post, ChangeRange, Login, Logout, Reload
<1>2. CASE Administer \/ Interval \/ Backend \/ UNCHANGED allVars
  BY <1>2 DEF Administer, Interval, Tick, Backend, viewVars, allVars
<1>3. ASSUME NEW c \in Slots, Handle(c) \/ Page(c) PROVE apiKey' = apiKey \/ apiKey' = Null
  BY <1>3 DEF Handle, Serve, Page, PageStep, Render, Draw, Polled, Fail, KeyAfter
<1> QED
  BY <1>1, <1>2, <1>3 DEF Next

\* What the page and its calls hold for keys.
LEMMA StepHeld == KeyInv /\ ViewInv /\ HeldKeys /\ [Next]_allVars => HeldKeys'
<1> SUFFICES ASSUME KeyInv, ViewInv, HeldKeys, [Next]_allVars PROVE HeldKeys'
  OBVIOUS
<1>1. /\ boot' = boot /\ known \subseteq known' /\ KnownInRows'
      /\ \A x \in known \cup {Null} : Accepted(x)' => Accepted(x) \/ x = boot
  BY RowsGrow DEF HeldKeys
<1>2. apiKey' \in known' \cup {Null}
  BY <1>1, KeyFrom DEF HeldKeys, PageKeys
<1>3. ASSUME NEW c \in Slots, (calls[c] # Null)'
      PROVE  (/\ calls[c].key \in known \cup {Null}
              /\ calls[c].st = "refused" => calls[c].key = boot \/ ~Accepted(calls[c].key))'
  <2>1. NewCall(c)
    BY CallsFrom
  <2>2. CASE calls'[c] = calls[c]
    <3>1. calls[c] # Null /\ calls[c].key \in known \cup {Null}
      BY <1>3, <2>2 DEF HeldKeys, PageKeys
    <3>2. calls[c].st = "refused" => calls[c].key = boot \/ ~Accepted(calls[c].key)
      BY <3>1 DEF HeldKeys, StaysRefused
    <3>4. PICK q \in known \cup {Null} : q = calls[c].key
      BY <3>1
    <3>5. Accepted(q)' => Accepted(q) \/ q = boot
      BY <1>1
    <3>6. calls'[c].key = q /\ calls'[c].st = calls[c].st
      BY <2>2, <3>4
    <3>7. (Accepted(calls[c].key))' => Accepted(calls[c].key) \/ q = boot
      BY <3>4, <3>5, <3>6 DEF Accepted
    <3> QED
      BY <1>1, <3>2, <3>4, <3>6, <3>7
  <2>3. CASE calls'[c].st = "sent" /\ calls'[c].key = apiKey
    BY <1>1, <2>3 DEF HeldKeys, PageKeys
  <2>4. CASE /\ calls[c] # Null /\ rows' = rows
             /\ calls'[c].key \in {calls[c].key, Null}
             /\ calls'[c].st = "refused" => calls'[c].key = calls[c].key /\ ~Accepted(calls[c].key)
    <3>1. calls[c].key \in known \cup {Null}
      BY <2>4 DEF HeldKeys, PageKeys
    <3>2. calls'[c].key \in known' \cup {Null}
      BY <1>1, <2>4, <3>1
    <3>3. calls'[c].st = "refused" => ~(Accepted(calls[c].key))'
      BY <2>4 DEF Accepted
    <3> QED
      BY <3>2, <3>3
  <2> QED
    BY <1>3, <2>1, <2>2, <2>3, <2>4 DEF NewCall
<1> QED
  BY <1>1, <1>2, <1>3 DEF HeldKeys, PageKeys, StaysRefused

\* The page forgets a key that works only for a cause.
THEOREM KeyKept == Spec => GoodKeyKept
<1> DEFINE Late(c) == /\ calls[c] # Null /\ calls[c].st = "refused"
                      /\ (calls[c].key # apiKey \/ apiKey = boot)
<1>1. Init => HeldKeys
  BY DEF Init, KeysInit, ViewInit, HeldKeys, KnownInRows, PageKeys, StaysRefused, KeyOfRow
<1>2. Spec => []HeldKeys
  BY <1>1, StepHeld, KeysInvariant, ViewInvariant, PTL DEF Spec
<1>3. KeyInv /\ HeldKeys /\ [Next]_allVars =>
        [Accepted(apiKey) /\ apiKey' = Null =>
           \/ Logout
           \/ \E c \in Slots : /\ calls[c] # Null /\ calls[c].st = "refused"
                              /\ (calls[c].key # apiKey \/ apiKey = boot)]_allVars
  <2> SUFFICES ASSUME KeyInv, HeldKeys, [Next]_allVars, Accepted(apiKey), apiKey' = Null
               PROVE  Logout \/ \E c \in Slots : Late(c)
    OBVIOUS
  <2>1. apiKey # Null
    <3>1. rows \in Seq(Row)
      BY DEF KeyInv, KeyTypes
    <3>2. PICK i \in DOMAIN rows : rows[i].key = apiKey
      BY DEF Accepted
    <3>3. rows[i] \in Row
      BY <3>1, <3>2
    <3> QED
      BY <3>2, <3>3, ConsoleAssumption DEF Row
  <2>2. CASE User
    BY <2>1, <2>2 DEF User, UserStep, Open, Close, SelectPort, Post, ChangeRange, Login, Reload
  <2>3. CASE Administer \/ Interval \/ Backend \/ UNCHANGED allVars
    BY <2>1, <2>3 DEF Administer, Interval, Tick, Backend, viewVars, allVars
  <2>4. ASSUME NEW c \in Slots, Handle(c) \/ Page(c) PROVE Late(c)
    <3>1. Fail(c)
      BY <2>1, <2>4 DEF Handle, Serve, Page, PageStep, Render, Draw, Polled
    <3>2. calls[c] # Null /\ calls[c].st = "refused"
      BY <2>1, <3>1 DEF Fail, KeyAfter
    <3>3. calls[c].key = boot \/ ~Accepted(calls[c].key)
      BY <3>2 DEF HeldKeys, StaysRefused
    <3> QED
      BY <3>2, <3>3
  <2> QED
    BY <2>2, <2>3, <2>4 DEF Next
<1> QED
  BY <1>2, <1>3, KeysInvariant, PTL DEF Spec, GoodKeyKept

=============================================================================
