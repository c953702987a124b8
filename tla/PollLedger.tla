---------------------------- MODULE PollLedger ----------------------------
(***************************************************************************)
(* What polling promises its users, whatever threads, sessions and commits  *)
(* are beneath it: a poll is announced for a device, it may put its sample  *)
(* on record and tell its status before it is over, and it ends once.  A    *)
(* poll that ended, or was given up, writes nothing any more.               *)
(***************************************************************************)
EXTENDS Naturals

CONSTANTS
  Ids,     \* the devices
  MaxRuns  \* bound: ticks and poll requests ever started

VARIABLES
  announced,  \* how many runs were announced
  due,        \* polls that are not over: pairs of a run and a device
  book,       \* polls whose sample of CPU and memory is on record
  flows,      \* polls whose traffic samples are on record
  board       \* the poll each device's page tells the time and status of

vars == <<announced, due, book, flows, board>>

Init ==
  /\ announced = 0
  /\ due = {} /\ book = {} /\ flows = {}
  /\ board = [d \in Ids |-> 0]

\* A tick announces a poll of each device it selected, a request that of one.
Announce(chosen) ==
  /\ announced < MaxRuns
  /\ announced' = announced + 1
  /\ due' = due \cup ({announced'} \X chosen)
  /\ UNCHANGED <<book, flows, board>>

\* The sample is published while the poll goes on.
Note(r, d) ==
  /\ <<r, d>> \in due
  /\ book' = book \cup {<<r, d>>}
  /\ UNCHANGED <<announced, due, flows, board>>

\* The device's page tells the status the poll found, while the poll goes on.
Tell(r, d) ==
  /\ <<r, d>> \in due
  /\ board' = [board EXCEPT ![d] = r]
  /\ UNCHANGED <<announced, due, book, flows>>

\* The poll is over, well or not: the device's page names it, its sample is on
\* record, and only now there may be traffic on record.
Settle(r, d) ==
  /\ <<r, d>> \in due
  /\ due' = due \ {<<r, d>>}
  /\ book' = book \cup {<<r, d>>}
  /\ flows' \in {flows, flows \cup {<<r, d>>}}
  /\ board' = [board EXCEPT ![d] = r]
  /\ UNCHANGED announced

\* There is nothing to poll any more, or the poll raised and nobody looked: at most
\* its sample goes on record.
Leave(r, d) ==
  /\ <<r, d>> \in due
  /\ due' = due \ {<<r, d>>}
  /\ book' \in {book, book \cup {<<r, d>>}}
  /\ UNCHANGED <<announced, flows, board>>

\* A run is given up with all the polls it still had.
GiveUp(r) ==
  /\ due' = {p \in due : p[1] # r}
  /\ UNCHANGED <<announced, book, flows, board>>

\* The process ends.
Crash ==
  /\ due' = {}
  /\ UNCHANGED <<announced, book, flows, board>>

\* A device is deleted; its records go with it or stay.
Forget(d) ==
  /\ board' = [board EXCEPT ![d] = 0]
  /\ \/ UNCHANGED <<book, flows>>
     \/ /\ book' = {p \in book : p[2] # d}
        /\ flows' = {p \in flows : p[2] # d}
  /\ UNCHANGED <<announced, due>>

Next ==
  \/ \E chosen \in SUBSET Ids : Announce(chosen)
  \/ \E r \in 1 .. MaxRuns : GiveUp(r) \/ (\E d \in Ids : Note(r, d) \/ Tell(r, d) \/ Settle(r, d) \/ Leave(r, d))
  \/ Crash
  \/ \E d \in Ids : Forget(d)

Spec == Init /\ [][Next]_vars

=============================================================================
