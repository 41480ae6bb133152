---------------------------- MODULE PitchShifter ----------------------------
(***************************************************************************)
(* The two read heads of the pitch shifter.  The delay line is described   *)
(* by where it was written last; phases, delays and weights are fixed-     *)
(* point numbers, One being 1.0F.  The rounding of floats shows in one     *)
(* place: a phase slightly below 0 becomes 1.0F itself when 1.0F is added. *)
(***************************************************************************)
EXTENDS Integers

CONSTANTS
    One,                    \* fixed-point units of a phase, of 1.0F
    max_delay_samples_,     \* sample_rate * window_ms / 1000 (400)
    Increments              \* phase increments considered

ASSUME PhaseAssumption == One \in Nat \ {0} /\ One % 2 = 0
ASSUME DelayAssumption == max_delay_samples_ \in Nat \ {0}
ASSUME IncrementAssumption == Increments \subseteq 1..One

\* Mutant: the line is only as long as the longest delay.
ShortBuffer == max_delay_samples_

buffer_size_ == 2 * max_delay_samples_

\* PitchShifter::reset, and the constructor.
Reset(increment, up) ==
    [write_ptr_ |-> 0, phase_ |-> 0, increment |-> increment, up |-> up]

\* A delay in units of 1 / One of a sample, rounded up and down to samples.
Delay(phase) == phase * max_delay_samples_

\* The two cells read_interpolated takes its value from.
Cells(s, phase) ==
    LET line == buffer_size_ * One
        read_pos == (s.write_ptr_ * One - Delay(phase) + line) % line
        idx1 == read_pos \div One
        idx2 == IF read_pos % One = 0 THEN idx1 ELSE (idx1 + 1) % buffer_size_
    IN  <<idx1, idx2>>

\* Mutant: both heads are always equally loud.
FlatWeight(phase) == One \div 2

\* get_crossfade_weight: 1 - |2p - 1|.
Weight(phase) == IF 2 * phase > One THEN 2 * (One - phase) ELSE 2 * phase

\* phase2 of calculate_crossfade_parameters.
Opposite(phase) ==
    IF phase + One \div 2 >= One THEN phase + One \div 2 - One
    ELSE phase + One \div 2

\* advance_pointers: the phases the accumulator can come to.
NextPhases(s) ==
    IF s.up                 \* pitch_ratio > 1: delay_change_rate < 0
    THEN LET p == s.phase_ - s.increment
         IN  IF p >= 0 THEN {p} ELSE {p + One, IF p = -1 THEN One ELSE p + One}
    ELSE LET p == s.phase_ + s.increment
         IN  {IF p >= 2 * One THEN p - 2 * One ELSE IF p >= One THEN p - One
              ELSE p}

advance_pointers(s) ==
    {[s EXCEPT !.write_ptr_ = (@ + 1) % buffer_size_, !.phase_ = p] :
        p \in NextPhases(s)}
=============================================================================
