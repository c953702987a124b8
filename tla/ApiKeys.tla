------------------------------ MODULE ApiKeys ------------------------------
(***************************************************************************)
(* The API keys (auth.py, bootstrap.py, routers/api_keys.py): the table, the *)
(* key that startup registers when none is active, the check in front of     *)
(* every request, and the two requests that change the table.                *)
(*                                                                          *)
(* A key stands for its hash and its prefix: that two keys share the first   *)
(* 12 characters is left out.                                                *)
(***************************************************************************)
EXTENDS Naturals, Sequences

CONSTANTS
  Clients,     \* programs that call the API
  BootKeys,    \* what ANSIBLE_WEB_BOOTSTRAP_API_KEY may be set to
  None,        \* no key
  MaxRows,     \* bound: rows a request may insert another to
  MaxCrashes   \* bound: restarts

ASSUME KeyAssumption ==
  /\ MaxRows \in Nat /\ MaxCrashes \in Nat
  /\ BootKeys \cap Nat = {} /\ None \notin {"create", "revoke"}

VARIABLES
  boot,     \* settings.bootstrap_api_key, None if it is not set
  rows,     \* the table api_keys; the place of a row is its id
  server,   \* "down", "printing" a key that startup registered, or "up"
  request,  \* per client the request that passed the check
  known,    \* the keys that somebody was told
  \* The rest only observes or bounds.
  revoked,  \* whether a key was revoked since startup
  unseen,   \* whether a key was ever registered that nobody was told
  crashes

keyVars == <<boot, rows, server, request, known, revoked, unseen, crashes>>

Ids == 1 .. MaxRows + MaxCrashes + 1

\* A generated key is named after the row it is registered with.
Keys == Ids \cup (BootKeys \ {None})

KeysInit ==
  /\ boot \in BootKeys
  /\ rows = <<>>
  /\ server = "down"
  /\ request = [c \in Clients |-> None]
  /\ known = {boot} \ {None}
  /\ revoked = FALSE /\ unseen = FALSE /\ crashes = 0

Registered(k) == Append(rows, [key |-> k, active |-> TRUE])

\* generate_api_key
Generated == Len(rows) + 1

\* Mutant of Accepted: the query without is_active.
AcceptedInactive(k) == \E i \in DOMAIN rows : rows[i].key = k

\* verify_api_key
Accepted(k) == \E i \in DOMAIN rows : rows[i].key = k /\ rows[i].active

-----------------------------------------------------------------------------
\* Startup

\* Mutants of NeedsKey: no query; the query without is_active.
NeedsKeyAlways == TRUE
NeedsKeyIfEmpty == rows = <<>>

\* The test ensure_api_key begins with.
NeedsKey == \A i \in DOMAIN rows : ~rows[i].active

\* lifespan, with a key to go on with ...
Startup ==
  /\ server = "down"
  /\ ~NeedsKey
  /\ server' = "up"
  /\ revoked' = FALSE
  /\ UNCHANGED <<boot, rows, request, known, unseen, crashes>>

\* ... or without: that of .env, else a new one, is registered ...
Bootstrap ==
  /\ server = "down"
  /\ NeedsKey
  /\ rows' = Registered(IF boot = None THEN Generated ELSE boot)
  /\ server' = "printing"
  /\ revoked' = FALSE
  /\ UNCHANGED <<boot, request, known, unseen, crashes>>

\* Mutant of Printed: the setting instead of the key that was registered.
PrintedSetting == boot

\* What ensure_api_key returns.
Printed == rows[Len(rows)].key

\* ... and then printed, this once.
PrintKey ==
  /\ server = "printing"
  /\ known' = known \cup {Printed}
  /\ server' = "up"
  /\ UNCHANGED <<boot, rows, request, revoked, unseen, crashes>>

\* The process ends, on a change of its source too (reload=True).
Crash ==
  /\ server # "down"
  /\ crashes < MaxCrashes
  /\ crashes' = crashes + 1
  /\ server' = "down"
  /\ request' = [c \in Clients |-> None]
  /\ unseen' = (unseen \/ server = "printing")
  /\ UNCHANGED <<boot, rows, known, revoked>>

-----------------------------------------------------------------------------
\* Requests that change the table

\* require_api_key; whoever is refused has changed nothing.
Arrive(c, k, op) ==
  /\ server = "up"
  /\ request[c] = None
  /\ Accepted(k)
  /\ request' = [request EXCEPT ![c] = op]
  /\ UNCHANGED <<boot, rows, server, known, revoked, unseen, crashes>>

\* create_key; the answer with the new key may get lost.
CreateKey(c) ==
  /\ request[c] = "create"
  /\ Len(rows) < MaxRows
  /\ rows' = Registered(Generated)
  /\ \/ known' = known \cup {Generated} /\ UNCHANGED unseen
     \/ unseen' = TRUE /\ UNCHANGED known
  /\ request' = [request EXCEPT ![c] = None]
  /\ UNCHANGED <<boot, server, revoked, crashes>>

\* revoke_key, of any key, the caller's and the last one too.
RevokeKey(c, id) ==
  /\ request[c] = "revoke"
  /\ id \in DOMAIN rows
  /\ rows' = [rows EXCEPT ![id].active = FALSE]
  /\ revoked' = TRUE
  /\ request' = [request EXCEPT ![c] = None]
  /\ UNCHANGED <<boot, server, known, unseen, crashes>>

ServerStep ==
  \/ Startup \/ Bootstrap \/ PrintKey \/ Crash
  \/ \E c \in Clients : CreateKey(c) \/ \E id \in Ids : RevokeKey(c, id)

-----------------------------------------------------------------------------
\* No key has two active rows: to revoke the one that is listed is to revoke it.
OneActiveRowPerKey ==
  \A i, j \in DOMAIN rows :
    rows[i].active /\ rows[j].active /\ rows[i].key = rows[j].key => i = j

\* A key that was revoked is refused from then on: only the one of .env comes back,
\* when startup finds no other.
RevokedForGood ==
  \A i \in DOMAIN rows :
    ~rows[i].active /\ rows[i].key # boot => ~Accepted(rows[i].key)

\* Startup never leaves the users without a key that works, whatever was revoked
\* before, unless there is an active key that nobody was told: the process ended
\* before it printed the key, or the answer of create_key got lost.
StartupLeavesAWayIn ==
  server = "up" /\ ~revoked /\ ~unseen => \E k \in known : Accepted(k)

=============================================================================
