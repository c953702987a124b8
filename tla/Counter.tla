------------------------------ MODULE Counter ------------------------------
(* Octet counters of an interface, and what the collector makes of two of     *)
(* their readings.                                                            *)
EXTENDS Integers

\* The reading of a counter of width values after n more octets, n < width.
CountOn(reading, n, width) ==
  IF reading + n < width THEN reading + n ELSE reading + n - width

\* Mutant of CounterDelta: the readings swapped.
CounterDeltaSwapped(prev, curr, wrap) == IF prev >= curr THEN prev - curr ELSE wrap - curr + prev

\* _counter_delta, whose wrap is 2**64.
CounterDelta(prev, curr, wrap) == IF curr >= prev THEN curr - prev ELSE wrap - prev + curr

=============================================================================
