------------------------------ MODULE Console ------------------------------
(***************************************************************************)
(* The page with its monitor view, the API keys the server checks its calls  *)
(* against, other programs that create and revoke keys, and restarts of the  *)
(* server.                                                                   *)
(***************************************************************************)
EXTENDS ApiKeys, MonitorView

\* The empty key is no key.
ASSUME ConsoleAssumption == Null \notin Keys

allVars == <<keyVars, viewVars>>

Init == KeysInit /\ ViewInit(known)

\* What the endpoints have an error for: a path with "null" for a device, and
\* traffic of more than a day.
Declined(call) == call.dev = Null \/ call.long

\* A port of another device, clicked in a row left from that: the device asked for
\* may have one of the same index, or not.
Strange(call) == call.port \notin {Null, call.dev}

\* A request of the page gets to the server, or does not while that is down.
Verdicts(call) ==
  CASE server # "up" -> {"failed"}
    [] server = "up" /\ ~Accepted(call.key) -> {"refused"}
    [] server = "up" /\ Accepted(call.key) ->
         {st \in {"ok", "failed"} :
            /\ st = "ok" => ~Declined(call)
            /\ st = "failed" => Declined(call) \/ Strange(call)}

Handle(c) ==
  /\ calls[c] # Null
  /\ \E st \in Verdicts(calls[c]) : Serve(c, st)
  /\ UNCHANGED keyVars

User == UserStep(known) /\ UNCHANGED keyVars

Page(c) == PageStep(c) /\ UNCHANGED keyVars

Interval == Tick /\ UNCHANGED keyVars

Backend == ServerStep /\ UNCHANGED viewVars

\* Somebody who knows a key administers the keys, by program or in another page.
Administer ==
  /\ Moved
  /\ \E c \in Clients, k \in known, op \in {"create", "revoke"} : Arrive(c, k, op)
  /\ UNCHANGED <<apiKey, mon, port, long, timers, handle, calls, shown, chart>>

Next ==
  \/ User
  \/ Administer
  \/ Interval
  \/ Backend
  \/ \E c \in Slots : Handle(c) \/ Page(c)

\* The interval fires every 10 s, calls are answered or fail, functions that got
\* their answer go on, and the server is started again.  An interval that finds all
\* slots busy is an effect of the bound MaxCalls only, hence strong fairness.
Fairness ==
  /\ SF_allVars(Interval)
  /\ \A c \in Slots : WF_allVars(Handle(c)) /\ WF_allVars(Page(c))
  /\ WF_allVars((Startup \/ Bootstrap \/ PrintKey) /\ UNCHANGED viewVars)

Spec == Init /\ [][Next]_allVars /\ Fairness

-----------------------------------------------------------------------------
CallType ==
  [kind : {"overview", "traffic", "post"}, dev : Devices \cup {Null},
   key : Keys \cup {Null}, opening : BOOLEAN, st : {"sent", "ok", "refused", "failed"},
   port : Devices \cup {Null}, long : BOOLEAN]

\* Every variable has its type.
TypeOK ==
  /\ boot \in BootKeys
  /\ rows \in Seq([key : Keys, active : BOOLEAN])
  /\ server \in {"down", "printing", "up"}
  /\ request \in [Clients -> {None, "create", "revoke"}]
  /\ known \subseteq Keys
  /\ revoked \in BOOLEAN /\ unseen \in BOOLEAN
  /\ crashes \in 0 .. MaxCrashes
  /\ apiKey \in Keys \cup {Null}
  /\ mon \in Devices \cup {Null}
  /\ port \in Devices \cup {Null}
  /\ long \in BOOLEAN
  /\ timers \subseteq Timers
  /\ handle \in Timers \cup {Null}
  /\ calls \in [Slots -> CallType \cup {Null}]
  /\ shown \in Devices \cup {Null}
  /\ chart \in Devices \cup {Null}
  /\ moves \in 0 .. MaxMoves

\* The page forgets a key that works only when the user says so, or when the answer
\* to a call with another key, or from before startup registered the key of .env
\* again, comes late.
GoodKeyKept ==
  [][Accepted(apiKey) /\ apiKey' = Null =>
       \/ Logout
       \/ \E c \in Slots : /\ calls[c] # Null /\ calls[c].st = "refused"
                          /\ (calls[c].key # apiKey \/ apiKey = boot)]_allVars

\* When the user stays with a device and its key stays good, the page comes to
\* show that device, and the chart of its port if one of its own is selected and the
\* range is one the server answers for, and stays so, however late the answers of
\* earlier calls come.
ViewCatchesUp ==
  \A d \in Devices :
    <>[](mon = d /\ Accepted(apiKey)) =>
      <>[](shown = d /\ (port = d /\ ~long => chart = d))

\* A view that is open does not stay behind a key that is refused.
RevokedPageLogsOut == []<>(mon = Null \/ apiKey = Null \/ Accepted(apiKey))

=============================================================================
