---------------------------- MODULE MonitorView ----------------------------
(***************************************************************************)
(* The monitor view of the web page (static/js/monitor.js, with api, logout *)
(* and init of app.js): one event loop, but every function that awaits a     *)
(* call gives it up, and goes on with globals that others changed meanwhile. *)
(*                                                                          *)
(* What is shown is abstracted to the device it was fetched for.  A call     *)
(* and the function that awaits it are one record; where the function goes   *)
(* on to another call, the record becomes that call.                         *)
(***************************************************************************)
EXTENDS Naturals

CONSTANTS
  Devices,   \* what the list of devices offers
  Null,      \* null, and the empty key
  MaxCalls,  \* bound: calls at a time
  MaxMoves   \* bound: what users do

ASSUME ViewAssumption == MaxCalls \in Nat /\ MaxMoves \in Nat \ {0}

VARIABLES
  apiKey,  \* apiKey, and the item in localStorage
  mon,     \* monitorDeviceId
  port,    \* the device whose row was clicked, with selectedIfIndex; Null
  long,    \* whether the range chosen is longer than a day
  timers,  \* the intervals that run
  handle,  \* monitorPollTimer
  calls,   \* the calls that are awaited
  shown,   \* the device of the overview on display
  chart,   \* the device of trafficChart
  moves    \* only bounds

viewVars == <<apiKey, mon, port, long, timers, handle, calls, shown, chart, moves>>

Slots == 1 .. MaxCalls
Timers == 1 .. MaxMoves + 1

\* A function that awaits a call; opening if it is called by openDeviceMonitor.
\* Only that for traffic has a port, and a range that its endpoint looks at.
Call(kind, dev, key, opening, of, days) ==
  [kind |-> kind, dev |-> dev, key |-> key, opening |-> opening, st |-> "sent",
   port |-> IF kind = "traffic" THEN of ELSE Null,
   long |-> kind = "traffic" /\ days]

\* The page is loaded; a key may be left in localStorage.
ViewInit(keys) ==
  /\ apiKey \in keys \cup {Null}
  /\ mon = Null /\ port = Null /\ long = FALSE
  /\ timers = {} /\ handle = Null
  /\ calls = [c \in Slots |-> Null]
  /\ shown = Null /\ chart = Null
  /\ moves = 0

\* A call is made in the least free slot.
Sent(call) ==
  /\ \E c \in Slots : calls[c] = Null
  /\ calls' = [calls EXCEPT ![CHOOSE c \in Slots :
                  calls[c] = Null /\ \A o \in 1 .. c - 1 : calls[o] # Null] = call]

\* The user does something, which the overlay prevents while there is no key.
Moved == moves < MaxMoves /\ moves' = moves + 1
MovedInside == Moved /\ apiKey # Null

-----------------------------------------------------------------------------
\* The user

\* openDeviceMonitor, up to its await.
Open(d) ==
  /\ MovedInside
  /\ mon' = d /\ port' = Null /\ long' = FALSE /\ chart' = Null
  /\ Sent(Call("overview", d, apiKey, TRUE, Null, FALSE))
  /\ UNCHANGED <<apiKey, timers, handle, shown>>

\* closeDeviceMonitor
Close ==
  /\ MovedInside
  /\ mon # Null
  /\ timers' = timers \ {handle} /\ handle' = Null
  /\ mon' = Null
  /\ UNCHANGED <<apiKey, port, long, calls, shown, chart>>

\* A click on a row of the ports table, which may still list those of the device
\* before: loadPortTrafficChart.
SelectPort ==
  /\ MovedInside
  /\ mon # Null /\ shown # Null
  /\ port' = shown
  /\ Sent(Call("traffic", mon, apiKey, FALSE, shown, long))
  /\ UNCHANGED <<apiKey, mon, long, timers, handle, shown, chart>>

\* monitorPollNow, monitorDiscover
Post ==
  /\ MovedInside
  /\ mon # Null
  /\ Sent(Call("post", mon, apiKey, FALSE, port, long))
  /\ UNCHANGED <<apiKey, mon, port, long, timers, handle, shown, chart>>

\* The user enters a key, which nothing verifies.
Login(k) ==
  /\ Moved
  /\ apiKey = Null
  /\ apiKey' = k
  /\ UNCHANGED <<mon, port, long, timers, handle, calls, shown, chart>>

\* logout; the view and its timer go on.
Logout ==
  /\ MovedInside
  /\ apiKey' = Null
  /\ UNCHANGED <<mon, port, long, timers, handle, calls, shown, chart>>

\* The page is loaded again; only the key survives, in localStorage.
Reload ==
  /\ Moved
  /\ mon' = Null /\ port' = Null /\ long' = FALSE
  /\ timers' = {} /\ handle' = Null
  /\ calls' = [c \in Slots |-> Null]
  /\ shown' = Null /\ chart' = Null
  /\ UNCHANGED apiKey

-----------------------------------------------------------------------------
\* The event loop

\* Mutant of Refreshes: refreshMonitor without its guard.
RefreshesAlways == TRUE

\* The guard of refreshMonitor.
Refreshes == mon # Null

\* An interval fires.
Tick ==
  /\ timers # {}
  /\ Refreshes
  /\ Sent(Call("overview", mon, apiKey, FALSE, port, long))
  /\ UNCHANGED <<apiKey, mon, port, long, timers, handle, shown, chart, moves>>

\* Another range is chosen: refreshMonitor.
ChangeRange ==
  /\ MovedInside
  /\ Refreshes
  /\ long' \in BOOLEAN
  /\ Sent(Call("overview", mon, apiKey, FALSE, port, long'))
  /\ UNCHANGED <<apiKey, mon, port, timers, handle, shown, chart>>

\* The server's side of a call: "ok", "refused" (401, 403) or "failed".
Serve(c, st) ==
  /\ calls[c] # Null /\ calls[c].st = "sent"
  /\ calls' = [calls EXCEPT ![c].st = st, ![c].key = IF st = "refused" THEN @ ELSE Null,
                            ![c].port = Null, ![c].long = FALSE]
  /\ UNCHANGED <<apiKey, mon, port, long, timers, handle, shown, chart, moves>>

\* Mutant of Restarted: setInterval without clearInterval.
RestartedOnly ==
  LET new == CHOOSE n \in Timers : n \notin timers IN
  timers' = timers \cup {new} /\ handle' = new

\* The end of openDeviceMonitor.
Restarted ==
  LET new == CHOOSE n \in Timers : n \notin timers IN
  timers' = (timers \ {handle}) \cup {new} /\ handle' = new

\* The awaiting function ends, well or not (refreshMonitor catches everything).
Ended(c) ==
  /\ calls' = [calls EXCEPT ![c] = Null]
  /\ IF calls[c].opening THEN Restarted ELSE UNCHANGED <<timers, handle>>

\* The awaiting function goes on to another call, with the globals as they are now.
GoesOn(c, kind) ==
  /\ calls' = [calls EXCEPT ![c] = Call(kind, mon, apiKey, calls[c].opening, port, long)]
  /\ UNCHANGED <<timers, handle>>

Answered(c, kind) == calls[c] # Null /\ calls[c].kind = kind /\ calls[c].st = "ok"

\* renderMonitorOverview, then the selected port's chart.
Render(c) ==
  /\ Answered(c, "overview")
  /\ shown' = calls[c].dev
  /\ IF port # Null THEN GoesOn(c, "traffic") ELSE Ended(c)
  /\ UNCHANGED <<apiKey, mon, port, long, chart, moves>>

\* The end of loadPortTrafficChart.
Draw(c) ==
  /\ Answered(c, "traffic")
  /\ chart' = calls[c].dev
  /\ Ended(c)
  /\ UNCHANGED <<apiKey, mon, port, long, shown, moves>>

\* The poll or discovery is done: refreshMonitor.
Polled(c) ==
  /\ Answered(c, "post")
  /\ IF Refreshes THEN GoesOn(c, "overview") ELSE Ended(c)
  /\ UNCHANGED <<apiKey, mon, port, long, shown, chart, moves>>

\* Mutants of KeyAfter: every error means that the key is bad; none does.
KeyAfterAny(st) == Null
KeyAfterNone(st) == apiKey

\* What an error leaves of the key: api calls logout on 401 and 403.
KeyAfter(st) == IF st = "refused" THEN Null ELSE apiKey

\* Mutant of Fail: refreshMonitor without its catch, so that openDeviceMonitor ends.
FailThrows(c) ==
  /\ calls[c] # Null /\ calls[c].st \in {"refused", "failed"}
  /\ apiKey' = KeyAfter(calls[c].st)
  /\ calls' = [calls EXCEPT ![c] = Null]
  /\ UNCHANGED <<mon, port, long, timers, handle, shown, chart, moves>>

\* The call is answered with an error, or not at all.
Fail(c) ==
  /\ calls[c] # Null /\ calls[c].st \in {"refused", "failed"}
  /\ apiKey' = KeyAfter(calls[c].st)
  /\ Ended(c)
  /\ UNCHANGED <<mon, port, long, shown, chart, moves>>

UserStep(keys) ==
  \/ \E d \in Devices : Open(d)
  \/ Close \/ SelectPort \/ Post \/ ChangeRange
  \/ \E k \in keys : Login(k)
  \/ Logout \/ Reload

PageStep(c) == Render(c) \/ Draw(c) \/ Polled(c) \/ Fail(c)

-----------------------------------------------------------------------------
\* Every interval that runs can be cleared: the page holds its id.
NoTimerLeak == timers \subseteq {handle}

\* While the view is closed and the user does nothing, the page ends its calls.
QuietWhenClosed == <>[](mon = Null) => <>[](\A c \in Slots : calls[c] = Null)

=============================================================================
