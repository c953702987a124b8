----------------------------- MODULE Scheduler -----------------------------
(***************************************************************************)
(* When the background job polls which device: the interval trigger, the    *)
(* limit of max_instances and the time the polls of a tick take, one device *)
(* after the other.  A poll may leave no sample and a tick may be cut short *)
(* by an exception; why is the subject of Collector.  The monitored devices *)
(* stay the same here.                                                      *)
(*                                                                          *)
(* Time is measured in units of 15 s, and every clock is relative, so that  *)
(* no bound on the running time is needed.                                  *)
(***************************************************************************)
EXTENDS Integers, FiniteSets

CONSTANTS
  Devices,        \* the number of monitored devices, polled in the order 1..Devices
  Interval,       \* snmp_poll_interval_default: 30 s
  MaxInstances,   \* 3
  Slow,           \* at most how long the poll of a device takes that may be silent or slow
  Quick,          \* at most how long the poll of any other device takes
  MaxSlow,        \* how many devices may be silent or slow
  Window          \* max(snmp_poll_interval * 3, 120 s), the age a previous sample may have

ASSUME FleetAssumption == Devices \in Nat \ {0} /\ MaxSlow \in Nat
ASSUME TimeAssumption ==
  /\ Interval \in Nat \ {0} /\ MaxInstances \in Nat \ {0}
  /\ Slow \in Nat /\ Quick \in Nat /\ Window \in Nat

VARIABLES
  due,      \* time until the trigger fires
  tick,     \* the instances of _tick
  slow,     \* the devices that may be silent or slow, at any poll
  \* The rest only observes.
  missed,   \* whether the last firing was skipped
  age,      \* time since the last poll of each device began, -1 when a tick was cut
            \* short before it came to the device again
  ended,    \* age of the last turn of each device that is over, -1 when there is none:
            \* of a poll since it began, of a turn that a cut cost it since the cut
  fresh     \* age of the newest sample of each device, -1 when there is none or when a
            \* later turn left none

vars == <<due, tick, slow, missed, age, ended, fresh>>

Device == 1..Devices
Instance == 1..MaxInstances

Free == [dev |-> 0, left |-> 0, since |-> 0]

Busy == {i \in Instance : tick[i] # Free}

\* Mutant of Durations: a slow device is asked again.
DurationsRetried(d) == 0 .. (IF d \in slow THEN 2 * Slow ELSE Quick)

\* snmpget and snmpwalk are killed after 15 s and 30 s; some failures end the poll,
\* others leave it to go on with the next call.
Durations(d) == 0 .. (IF d \in slow THEN Slow ELSE Quick)

Init ==
  /\ due = Interval
  /\ tick = [i \in Instance |-> Free]
  /\ slow \in {S \in SUBSET Device : Cardinality(S) <= MaxSlow}
  /\ missed = FALSE
  /\ age = [d \in Device |-> 0]
  /\ ended = [d \in Device |-> -1]
  /\ fresh = [d \in Device |-> -1]

\* Instance i turns to device d.
Poll(i, d) ==
  /\ \E n \in Durations(d) : tick' = [tick EXCEPT ![i] = [dev |-> d, left |-> n, since |-> 0]]
  /\ age' = [age EXCEPT ![d] = 0]

\* The instance that takes the next firing.
Idle == CHOOSE i \in Instance \ Busy : \A j \in Instance \ Busy : i <= j

Fire ==
  /\ due = 0
  /\ Busy # Instance
  /\ Poll(Idle, 1)
  /\ due' = Interval
  /\ missed' = FALSE
  /\ UNCHANGED <<slow, ended, fresh>>

\* The query of the devices fails: the tick is over before its first poll.
FireInVain ==
  /\ due = 0
  /\ Busy # Instance
  /\ due' = Interval
  /\ missed' = FALSE
  /\ age' = [d \in Device |-> -1]
  /\ ended' = [d \in Device |-> 0]
  /\ fresh' = [d \in Device |-> -1]
  /\ UNCHANGED <<tick, slow>>

\* The executor refuses a run when max_instances are busy; that run is lost.
Skip ==
  /\ due = 0
  /\ Busy = Instance
  /\ missed' = TRUE
  /\ due' = Interval
  /\ UNCHANGED <<tick, slow, age, ended, fresh>>

\* No later turn of the device is over when the poll of instance i ends.
NotOvertaken(i) == LET d == tick[i].dev IN ended[d] = -1 \/ tick[i].since <= ended[d]

\* Mutant of Sampled: the first sample of a device is kept.
SampledOnce(i) ==
  /\ ended' = [ended EXCEPT ![tick[i].dev] = IF NotOvertaken(i) THEN tick[i].since ELSE @]
  /\ fresh' \in {[fresh EXCEPT ![tick[i].dev] = IF @ = -1 THEN a ELSE @] : a \in {tick[i].since, -1}}

\* The poll of instance i ends, and leaves a sample or none: a failed walk or a failed
\* commit leaves none.  A sample bears the time at which its poll began.
Sampled(i) ==
  LET d == tick[i].dev
  IN IF NotOvertaken(i)
       THEN /\ ended' = [ended EXCEPT ![d] = tick[i].since]
            /\ \E a \in {tick[i].since, -1} : fresh' = [fresh EXCEPT ![d] = a]
       ELSE UNCHANGED <<ended, fresh>>

NextDevice(i) ==
  /\ i \in Busy /\ tick[i].left = 0
  /\ tick[i].dev < Devices
  /\ Poll(i, tick[i].dev + 1)
  /\ Sampled(i)
  /\ UNCHANGED <<due, slow, missed>>

EndTick(i) ==
  /\ i \in Busy /\ tick[i].left = 0
  /\ tick[i].dev = Devices
  /\ tick' = [tick EXCEPT ![i] = Free]
  /\ Sampled(i)
  /\ UNCHANGED <<due, slow, missed, age>>

\* An exception in the handler of a failed poll ends the tick at this device, whose poll
\* leaves no sample.  The devices behind it lose their turn.
CutShort(i) ==
  LET d == tick[i].dev
  IN /\ i \in Busy /\ tick[i].left = 0
     /\ tick' = [tick EXCEPT ![i] = Free]
     /\ age' = [e \in Device |-> IF e > d THEN -1 ELSE age[e]]
     /\ ended' = [e \in Device |-> IF e > d THEN 0
                                   ELSE IF e = d /\ NotOvertaken(i) THEN tick[i].since ELSE ended[e]]
     /\ fresh' = [e \in Device |-> IF e > d \/ (e = d /\ NotOvertaken(i)) THEN -1 ELSE fresh[e]]
     /\ UNCHANGED <<due, slow, missed>>

Older(ages) == [d \in Device |-> IF ages[d] = -1 THEN -1 ELSE ages[d] + 1]

\* Time passes when nothing is left to do at this moment.
Pass ==
  /\ due > 0
  /\ \A i \in Busy : tick[i].left > 0
  /\ due' = due - 1
  /\ tick' = [i \in Instance |->
                IF i \in Busy THEN [tick[i] EXCEPT !.left = @ - 1, !.since = @ + 1] ELSE Free]
  /\ age' = Older(age)
  /\ ended' = Older(ended)
  /\ fresh' = Older(fresh)
  /\ UNCHANGED <<slow, missed>>

Next ==
  \/ Fire \/ FireInVain \/ Skip \/ Pass
  \/ \E i \in Instance : NextDevice(i) \/ EndTick(i) \/ CutShort(i)

Spec == Init /\ [][Next]_vars

-----------------------------------------------------------------------------
\* How long a tick may take.
Longest == Cardinality(slow) * Slow + (Devices - Cardinality(slow)) * Quick

\* The ticks are short enough for max_instances of them to keep up.
WithinCapacity == Longest < MaxInstances * Interval

\* As long as the ticks are short enough, no run of the job is missed; beyond that
\* max_instances=3 does not prevent it, whatever the comment beside it says.
MissedOnlyBeyondCapacity == missed => ~WithinCapacity

\* However many devices are slow, and however many runs that costs, no device goes
\* unpolled for longer than a tick and an interval take, unless a tick was cut short
\* (snmp_collector.py:334, scheduler.py:19-20) before it came to the device.
NoDeviceForgotten == \A d \in Device : age[d] <= Longest + Interval

\* As long as the ticks are short enough, a poll that ends finds a sample recent
\* enough to compute a rate from, although polls overtake each other: one that is no
\* older than a tick and an interval, which the default window allows for.  That is, if
\* the last turn of the device that is over left a sample: a poll that failed, and a
\* tick that was cut short, make the next one look further back.
RateHasReference ==
  WithinCapacity /\ Longest + Interval <= Window =>
    \A i \in Busy :
      tick[i].left = 0 /\ fresh[tick[i].dev] # -1
      => fresh[tick[i].dev] - tick[i].since <= Window

=============================================================================
