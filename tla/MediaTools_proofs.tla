-------------------------- MODULE MediaTools_proofs --------------------------
(***************************************************************************)
(* Proofs about the conversions: the heads of the pitch shifter for every  *)
(* resolution, window and speed; the audio of WAV files of any number and  *)
(* size of chunks; packets of any sources, extension and payload; and the  *)
(* samples of the A-law codec.  What the recursive functions compute       *)
(* (ChunkStart, FindData, FlattenSeq) is shown first: that a function      *)
(* satisfying the recursion exists is proved by induction on the part of   *)
(* its domain it is defined on (Reaches).                                  *)
(***************************************************************************)
EXTENDS MediaTools, SequenceTheorems, WellFoundedInduction, TLAPS

-----------------------------------------------------------------------------
(* Multiplication and division.                                            *)

LEMMA Times ==
  ASSUME NEW d \in Nat \ {0}, NEW x \in Int, NEW y \in Int, x < y
  PROVE  d * x + d <= d * y
<1>1. d * (y - x - 1) >= 0
  OBVIOUS
<1>2. d * (y - x - 1) = d * y - d * x - d
  OBVIOUS
<1>3. d * x \in Int /\ d * y \in Int
  OBVIOUS
<1> QED
  BY <1>1, <1>2, <1>3

LEMMA Divided ==
  ASSUME NEW n \in Int, NEW d \in Nat \ {0}
  PROVE  /\ n \div d \in Int /\ n % d \in 0..(d - 1)
         /\ n = d * (n \div d) + (n % d)
OBVIOUS

LEMMA Quotient ==
  ASSUME NEW d \in Nat \ {0}, NEW q \in Int, NEW r \in 0..(d - 1)
  PROVE  (d * q + r) \div d = q /\ (d * q + r) % d = r
<1> DEFINE n == d * q + r
<1>1. n \in Int /\ d * q \in Int
  OBVIOUS
<1>2. /\ n \div d \in Int /\ n % d \in 0..(d - 1)
      /\ n = d * (n \div d) + (n % d)
  BY <1>1, Divided
<1> DEFINE p == n \div d
           m == n % d
<1>3. p \in Int /\ m \in 0..(d - 1) /\ d * q + r = d * p + m
  BY <1>2
<1> HIDE DEF p, m
<1>4. d * p \in Int
  BY <1>3
<1>5. ~(p < q)
  <2> SUFFICES ASSUME p < q PROVE FALSE
    OBVIOUS
  <2>1. d * p + d <= d * q
    BY <1>3, Times
  <2> QED
    BY <1>1, <1>3, <1>4, <2>1
<1>6. ~(q < p)
  <2> SUFFICES ASSUME q < p PROVE FALSE
    OBVIOUS
  <2>1. d * q + d <= d * p
    BY <1>3, Times
  <2> QED
    BY <1>1, <1>3, <1>4, <2>1
<1>7. p = q /\ m = r
  BY <1>1, <1>3, <1>4, <1>5, <1>6
<1> QED
  BY <1>7 DEF p, m

\* A number and the same number one turn later have the same remainder.
LEMMA Wraps ==
  ASSUME NEW d \in Nat \ {0}, NEW n \in 0..(d - 1)
  PROVE  n % d = n /\ (n + d) % d = n
OBVIOUS

LEMMA Halves ==
  ASSUME NEW d \in Nat \ {0}, d % 2 = 0
  PROVE  d \div 2 \in Nat /\ d = 2 * (d \div 2)
OBVIOUS

-----------------------------------------------------------------------------
(* The read heads of the pitch shifter.                                    *)

\* The states process() leaves the shifter in: a phase may be 1.0F itself.
Shifters ==
    [write_ptr_ : 0..(buffer_size_ - 1), phase_ : 0..One,
     increment : Increments, up : BOOLEAN]

ShifterInv == tool = "pitch" => item \in Shifters

LEMMA Sizes ==
  /\ One \in Nat \ {0} /\ One % 2 = 0
  /\ max_delay_samples_ \in Nat \ {0}
  /\ buffer_size_ \in Nat \ {0} /\ buffer_size_ = 2 * max_delay_samples_
BY PhaseAssumption, DelayAssumption DEF buffer_size_

\* advance_pointers keeps the pointer on the line and the phase in 0..1.0F.
LEMMA Advances ==
  ASSUME NEW s \in Shifters, NEW t \in advance_pointers(s)
  PROVE  t \in Shifters
<1>1. PICK p \in NextPhases(s) :
         t = [s EXCEPT !.write_ptr_ = (@ + 1) % buffer_size_, !.phase_ = p]
  BY DEF advance_pointers
<1>2. s.increment \in 1..One
  BY IncrementAssumption DEF Shifters
<1>3. s.phase_ \in 0..One /\ s.write_ptr_ \in 0..(buffer_size_ - 1)
  BY DEF Shifters
<1>4. p \in 0..One
  <2>1. CASE s.up
    BY <1>2, <1>3, <2>1, Sizes DEF NextPhases
  <2>2. CASE ~s.up
    BY <1>2, <1>3, <2>2, Sizes DEF NextPhases
  <2> QED
    BY <2>1, <2>2
<1>5. (s.write_ptr_ + 1) % buffer_size_ \in 0..(buffer_size_ - 1)
  <2>1. s.write_ptr_ + 1 \in Int
    BY <1>3
  <2> QED
    BY <2>1, Sizes, Divided
<1> QED
  BY <1>1, <1>4, <1>5 DEF Shifters

\* The shifter stays in those states whatever else is converted.
LEMMA ShifterStays == Spec => []ShifterInv
<1>1. Init => ShifterInv
  <2> SUFFICES ASSUME Init, tool = "pitch" PROVE item \in Shifters
    BY DEF ShifterInv
  <2>1. PICK i \in Increments, up \in BOOLEAN : item = Reset(i, up)
    BY DEF Init
  <2> QED
    BY <2>1, Sizes DEF Reset, Shifters
<1>2. ShifterInv /\ [Next]_vars => ShifterInv'
  <2> SUFFICES ASSUME ShifterInv, [Next]_vars, tool' = "pitch"
               PROVE  item' \in Shifters
    BY DEF ShifterInv
  <2>1. CASE ShiftSample
    BY <2>1, Advances DEF ShiftSample, ShifterInv
  <2>2. CASE encode_alaw \/ decode_alaw \/ OpenWav \/ ReadPacket
    BY <2>2 DEF encode_alaw, decode_alaw, OpenWav, ReadPacket
  <2>3. CASE \E ssrc \in Mixers : AddSource(ssrc)
    BY <2>3 DEF AddSource
  <2>4. CASE \E size \in BufferSizes : WritePacket(size)
    BY <2>4 DEF WritePacket
  <2>5. CASE UNCHANGED vars
    BY <2>5 DEF vars, ShifterInv
  <2> QED
    BY <2>1, <2>2, <2>3, <2>4, <2>5 DEF Next
<1> QED
  BY <1>1, <1>2, PTL DEF Spec

\* Where a head stands: the cell its delay rounds up to, wherever the pointer
\* and the delay are on the line, and how old what it holds is.
LEMMA FirstCell ==
  ASSUME NEW s \in Shifters, NEW phase \in 0..One
  PROVE  \E a \in 0..max_delay_samples_, r \in 0..(One - 1),
            c \in 0..(buffer_size_ - 1) :
            /\ Delay(phase) = One * a - r
            /\ c = s.write_ptr_ - a \/ c = s.write_ptr_ - a + buffer_size_
            /\ Cells(s, phase) =
                 <<c, IF r = 0 THEN c ELSE (c + 1) % buffer_size_>>
<1> DEFINE D == max_delay_samples_
           B == buffer_size_
           w == s.write_ptr_
           line == B * One
           x == w * One - Delay(phase)
           q == x \div One
           r == x % One
           a == w - q
           c == IF q >= 0 THEN q ELSE q + B
           read_pos == (x + line) % line
<1>1. w \in 0..(B - 1) /\ B = 2 * D /\ D \in Nat \ {0} /\ One \in Nat \ {0}
  BY Sizes DEF Shifters
<1>2. Delay(phase) \in 0..(One * D)
  <2>1. phase * D >= 0 /\ phase * D \in Int
    BY <1>1
  <2>2. (One - phase) * D >= 0
    BY <1>1
  <2>3. (One - phase) * D = One * D - phase * D /\ One * D \in Int
    BY <1>1
  <2> QED
    BY <2>1, <2>2, <2>3 DEF Delay
<1>3. x \in Int /\ w * One = One * w /\ One * w \in Int
  BY <1>1, <1>2
<1>4. q \in Int /\ r \in 0..(One - 1) /\ x = One * q + r
  BY <1>1, <1>3, Divided
<1> HIDE DEF q, r
<1>5. Delay(phase) = One * a - r
  <2>1. One * a = One * w - One * q /\ One * q \in Int
    BY <1>1, <1>4
  <2>2. Delay(phase) = w * One - x
    BY <1>1, <1>2, <1>3
  <2> QED
    BY <1>2, <1>3, <1>4, <2>1, <2>2
<1>6. a \in 0..D
  <2>1. a \in Int /\ One * a \in Int /\ One * D \in Int
    BY <1>1, <1>4
  <2>2. ~(a < 0)
    <3> SUFFICES ASSUME a < 0 PROVE FALSE
      OBVIOUS
    <3>1. One * a + One <= One * 0
      BY <1>1, <2>1, Times
    <3> QED
      BY <1>1, <1>2, <1>4, <1>5, <2>1, <3>1
  <2>3. ~(D < a)
    <3> SUFFICES ASSUME D < a PROVE FALSE
      OBVIOUS
    <3>1. One * D + One <= One * a
      BY <1>1, <2>1, Times
    <3> QED
      BY <1>1, <1>2, <1>4, <1>5, <2>1, <3>1
  <2> QED
    BY <1>1, <2>1, <2>2, <2>3
<1>7. c \in 0..(B - 1) /\ (c = w - a \/ c = w - a + B)
  BY <1>1, <1>4, <1>6
<1>8. read_pos = One * c + r
  <2>1. line \in Nat \ {0} /\ line = One * B
    <3>1. B >= 1
      BY <1>1
    <3>2. One * 0 + One <= One * B
      BY <1>1, <3>1, Times
    <3> QED
      BY <1>1, <3>2
  <2>2. One * c + r \in 0..(line - 1)
    <3>1. One * c + One <= One * B
      BY <1>1, <1>7, Times
    <3>2. One * c >= 0 /\ One * c \in Int
      BY <1>1, <1>7
    <3> QED
      BY <1>1, <1>4, <2>1, <3>1, <3>2
  <2>3. CASE q >= 0
    BY <1>4, <2>1, <2>2, <2>3, Wraps
  <2>4. CASE ~(q >= 0)
    <3>1. One * c = One * q + One * B
      BY <1>1, <1>4, <2>4
    <3>2. x + line = One * c + r
      BY <1>1, <1>4, <2>1, <3>1
    <3> QED
      BY <2>1, <2>2, <3>2, Wraps
  <2> QED
    BY <2>3, <2>4
<1>9. read_pos \div One = c /\ read_pos % One = r
  <2>1. c \in Int
    BY <1>1, <1>7
  <2> HIDE DEF c, read_pos
  <2>2. (One * c + r) \div One = c /\ (One * c + r) % One = r
    BY <1>1, <1>4, <2>1, Quotient
  <2> QED
    BY <1>8, <2>2
<1>10. Cells(s, phase) =
         <<read_pos \div One,
           IF read_pos % One = 0 THEN read_pos \div One
           ELSE (read_pos \div One + 1) % B>>
  BY DEF Cells
<1>11. Cells(s, phase) = <<c, IF r = 0 THEN c ELSE (c + 1) % B>>
  BY <1>9, <1>10
<1> QED
  BY <1>4, <1>5, <1>6, <1>7, <1>11

\* Both cells of a head are as old as the delay asks for.
LEMMA CellsFollow ==
  ASSUME NEW s \in Shifters, NEW phase \in 0..One
  PROVE  LET Age(cell) == (s.write_ptr_ - cell + buffer_size_) % buffer_size_
             cells == Cells(s, phase)
         IN  /\ One * (Age(cells[1]) - 1) < Delay(phase)
             /\ Delay(phase) <= One * Age(cells[1])
             /\ One * Age(cells[2]) <= Delay(phase)
<1> DEFINE D == max_delay_samples_
           B == buffer_size_
           w == s.write_ptr_
           Age(cell) == (w - cell + B) % B
<1>1. w \in 0..(B - 1) /\ B = 2 * D /\ D \in Nat \ {0} /\ One \in Nat \ {0}
      /\ B \in Nat \ {0}
  BY Sizes DEF Shifters
<1>2. PICK a \in 0..D, r \in 0..(One - 1), c \in 0..(B - 1) :
         /\ Delay(phase) = One * a - r
         /\ c = w - a \/ c = w - a + B
         /\ Cells(s, phase) = <<c, IF r = 0 THEN c ELSE (c + 1) % B>>
  BY FirstCell
<1> DEFINE c2 == IF r = 0 THEN c ELSE (c + 1) % B
<1>3. Cells(s, phase)[1] = c /\ Cells(s, phase)[2] = c2
  BY <1>2
<1>4. Age(c) = a
  <2>1. a \in 0..(B - 1)
    BY <1>1
  <2>2. a % B = a /\ (a + B) % B = a
    BY <1>1, <2>1, Wraps
  <2>3. w - c + B = a \/ w - c + B = a + B
    BY <1>1, <1>2
  <2> QED
    BY <2>2, <2>3
<1>5. One * a \in Int /\ One * (a - 1) = One * a - One
  BY <1>1
<1>6. CASE r = 0
  BY <1>1, <1>2, <1>3, <1>4, <1>5, <1>6
<1>7. CASE r # 0
  <2>1. a >= 1
    <3> SUFFICES ASSUME a = 0 PROVE FALSE
      BY <1>1
    <3>1. One * a = 0
      BY <1>1
    <3>2. Delay(phase) >= 0
      BY <1>1 DEF Delay
    <3> QED
      BY <1>1, <1>2, <1>7, <3>1, <3>2
  <2>2. Age(c2) = a - 1
    <3>1. a - 1 \in 0..(B - 1)
      BY <1>1, <2>1
    <3>2. (a - 1) % B = a - 1 /\ (a - 1 + B) % B = a - 1
      BY <1>1, <3>1, Wraps
    <3>3. CASE c + 1 < B
      <4>1. c + 1 \in 0..(B - 1)
        BY <1>1, <3>3
      <4>2. c2 = c + 1
        BY <1>1, <1>7, <4>1, Wraps
      <4>3. w - c2 + B = a - 1 \/ w - c2 + B = a - 1 + B
        BY <1>1, <1>2, <4>2
      <4> QED
        BY <3>2, <4>3
    <3>4. CASE ~(c + 1 < B)
      <4>1. c + 1 = 0 + B
        BY <1>1, <3>4
      <4>2. (0 + B) % B = 0
        BY <1>1, Wraps
      <4>3. c2 = 0
        BY <1>7, <4>1, <4>2
      <4>4. w - c2 + B = a - 1 + B
        BY <1>1, <1>2, <2>1, <4>1, <4>3
      <4> QED
        BY <3>2, <4>4
    <3> QED
      BY <3>3, <3>4
  <2> QED
    BY <1>1, <1>2, <1>3, <1>4, <1>5, <2>2
<1> QED
  BY <1>6, <1>7

\* The phases of the heads lie half a window apart, so that their weights
\* always add up to one.
LEMMA Crossfade ==
  ASSUME NEW phase \in 0..One
  PROVE  /\ Opposite(phase) \in 0..One
         /\ Weight(phase) + Weight(Opposite(phase)) = One
<1> DEFINE h == One \div 2
<1>1. h \in Nat /\ One = 2 * h
  BY Sizes, Halves
<1> HIDE DEF h
<1>2. Opposite(phase) = IF phase + h >= One THEN phase + h - One ELSE phase + h
  BY DEF Opposite, h
<1>3. Opposite(phase) \in 0..One
  BY <1>1, <1>2
<1>4. CASE phase + h >= One
  BY <1>1, <1>2, <1>4 DEF Weight
<1>5. CASE ~(phase + h >= One)
  BY <1>1, <1>2, <1>5 DEF Weight
<1> QED
  BY <1>3, <1>4, <1>5

\* read_interpolated and calculate_crossfade_parameters: for every window,
\* speed and resolution of the phase, both heads read the two samples on
\* either side of their delay, none of them about to be overwritten, and the
\* weights add up to one.
THEOREM HeadsFollowTheirDelay == Spec => []HeadsFollow
<1>1. ShifterInv => HeadsFollow
  <2> SUFFICES ASSUME ShifterInv, tool = "pitch" PROVE HeadsFollow
    BY DEF HeadsFollow
  <2>1. item \in Shifters /\ item.phase_ \in 0..One
    BY DEF ShifterInv, Shifters
  <2>2. /\ Opposite(item.phase_) \in 0..One
        /\ Weight(item.phase_) + Weight(Opposite(item.phase_)) = One
    BY <2>1, Crossfade
  <2>3. ASSUME NEW phase \in {item.phase_, Opposite(item.phase_)}
        PROVE  LET Age(cell) == (item.write_ptr_ - cell + buffer_size_)
                                    % buffer_size_
                   cells == Cells(item, phase)
               IN  /\ One * (Age(cells[1]) - 1) < Delay(phase)
                   /\ Delay(phase) <= One * Age(cells[1])
                   /\ One * Age(cells[2]) <= Delay(phase)
    <3>1. phase \in 0..One
      BY <2>1, <2>2
    <3> QED
      BY <2>1, <3>1, CellsFollow
  <2> QED
    BY <2>2, <2>3 DEF HeadsFollow
<1> QED
  BY <1>1, ShifterStays, PTL

\* A head is fainter the nearer its phase is to either end.
LEMMA Faint ==
  ASSUME NEW phase \in 0..One
  PROVE  Weight(phase) <= 2 * phase /\ Weight(phase) <= 2 * (One - phase)
BY Sizes DEF Weight

\* A jump, told by the two phases alone: the nearer ends are within a step.
LEMMA NearTheEnds ==
  ASSUME NEW p \in 0..One, NEW q \in 0..One, NEW i \in 1..One,
         \/ p <= i /\ One - q <= i
         \/ q <= i /\ One - p <= i
  PROVE  Weight(p) <= 2 * i /\ Weight(q) <= 2 * i
<1>1. /\ Weight(p) <= 2 * p /\ Weight(p) <= 2 * (One - p)
      /\ Weight(q) <= 2 * q /\ Weight(q) <= 2 * (One - q)
  BY Faint
<1>2. Weight(p) \in Int /\ Weight(q) \in Int
  BY Sizes DEF Weight
<1> QED
  BY <1>1, <1>2, Sizes

\* advance_pointers: a head moves by one increment, or from one end of the
\* window to within an increment of the other; so does its opposite.
LEMMA MovesOrJumps ==
  ASSUME NEW s \in Shifters, NEW p \in NextPhases(s)
  PROVE  LET Jump(x, y) == \/ x <= s.increment /\ One - y <= s.increment
                           \/ y <= s.increment /\ One - x <= s.increment
             Near(x, y) == x - y <= s.increment /\ y - x <= s.increment
         IN  /\ Near(s.phase_, p) \/ Jump(s.phase_, p)
             /\ \/ Near(Opposite(s.phase_), Opposite(p))
                \/ Jump(Opposite(s.phase_), Opposite(p))
<1> DEFINE h == One \div 2
           i == s.increment
           x == s.phase_
<1>1. h \in Nat /\ One = 2 * h
  BY Sizes, Halves
<1>2. i \in 1..One /\ x \in 0..One
  BY IncrementAssumption DEF Shifters
<1> HIDE DEF h
<1>3. /\ Opposite(x) = IF x + h >= One THEN x + h - One ELSE x + h
      /\ Opposite(p) = IF p + h >= One THEN p + h - One ELSE p + h
  BY DEF Opposite, h
<1>4. p \in Int /\ \/ s.up /\ x - i >= 0 /\ p = x - i
                   \/ s.up /\ x - i < 0 /\ p = x - i + One
                   \/ s.up /\ x - i = -1 /\ p = One
                   \/ ~s.up /\ x + i >= 2 * One /\ p = x + i - 2 * One
                   \/ ~s.up /\ x + i >= One /\ x + i < 2 * One /\ p = x + i - One
                   \/ ~s.up /\ x + i < One /\ p = x + i
  <2>1. CASE s.up
    BY <1>1, <1>2, <2>1 DEF NextPhases
  <2>2. CASE ~s.up
    BY <1>1, <1>2, <2>2 DEF NextPhases
  <2> QED
    BY <2>1, <2>2
<1> HIDE DEF i, x
<1>5. /\ (x - p <= i /\ p - x <= i)
           \/ (x <= i /\ One - p <= i) \/ (p <= i /\ One - x <= i)
  BY <1>1, <1>2, <1>4
<1>6. LET o == Opposite(x)
          n == Opposite(p)
      IN  \/ (o - n <= i /\ n - o <= i)
          \/ (o <= i /\ One - n <= i) \/ (n <= i /\ One - o <= i)
  BY <1>1, <1>2, <1>3, <1>4
<1> QED
  BY <1>5, <1>6 DEF i, x

\* advance_pointers and get_crossfade_weight: whatever the window, the speed
\* and the resolution, a head that jumps across the line is faint before and
\* after it does.
THEOREM JumpsAreFaint == Spec => NoClick
<1>1. ShifterInv /\ [Next]_vars =>
        (tool = "pitch" =>
           \A head \in {0, 1} :
             LET Of(s) == IF head = 0 THEN s.phase_ ELSE Opposite(s.phase_)
             IN  Magnitude(Of(item') - Of(item)) > item.increment
                   => /\ Weight(Of(item)) <= 2 * item.increment
                      /\ Weight(Of(item')) <= 2 * item.increment)
  <2> SUFFICES ASSUME ShifterInv, [Next]_vars, tool = "pitch",
                      NEW head \in {0, 1}
               PROVE  LET Of(s) == IF head = 0 THEN s.phase_
                                   ELSE Opposite(s.phase_)
                      IN  Magnitude(Of(item') - Of(item)) > item.increment
                            => /\ Weight(Of(item)) <= 2 * item.increment
                               /\ Weight(Of(item')) <= 2 * item.increment
    OBVIOUS
  <2> DEFINE Of(s) == IF head = 0 THEN s.phase_ ELSE Opposite(s.phase_)
             x == Of(item)
             y == Of(item')
             i == item.increment
  <2>1. item \in Shifters
    BY DEF ShifterInv
  <2>2. i \in 1..One /\ item.phase_ \in 0..One
    BY <2>1, IncrementAssumption DEF Shifters
  <2>3. CASE item' \in advance_pointers(item)
    <3>1. item' \in Shifters
      BY <2>1, <2>3, Advances
    <3>2. item'.phase_ \in NextPhases(item)
      BY <2>1, <2>3 DEF advance_pointers, Shifters
    <3>3. x \in 0..One /\ y \in 0..One
      BY <2>2, <3>1, Crossfade DEF Shifters
    <3>4. \/ x - y <= i /\ y - x <= i
          \/ x <= i /\ One - y <= i
          \/ y <= i /\ One - x <= i
      BY <2>1, <3>2, MovesOrJumps
    <3> HIDE DEF x, y, i
    <3>5. Magnitude(y - x) > i => Weight(x) <= 2 * i /\ Weight(y) <= 2 * i
      <4>1. CASE x - y <= i /\ y - x <= i
        BY <2>2, <3>3, <4>1, Sizes DEF Magnitude
      <4>2. CASE (x <= i /\ One - y <= i) \/ (y <= i /\ One - x <= i)
        BY <2>2, <3>3, <4>2, NearTheEnds
      <4> QED
        BY <3>4, <4>1, <4>2
    <3> QED
      BY <3>5 DEF x, y, i
  <2>4. CASE item' = item
    <3>1. x = y /\ x \in Int
      BY <2>2, <2>4, Crossfade
    <3> HIDE DEF x, y, i
    <3>2. ~(Magnitude(y - x) > i)
      BY <2>2, <3>1, Sizes DEF Magnitude
    <3> QED
      BY <3>2 DEF x, y, i
  <2>5. item' \in advance_pointers(item) \/ item' = item
    BY DEF Next, vars, encode_alaw, decode_alaw, OpenWav, ReadPacket,
           AddSource, WritePacket, ShiftSample
  <2> QED
    BY <2>3, <2>4, <2>5
<1> QED
  BY <1>1, ShifterStays, PTL DEF Spec, NoClick

-----------------------------------------------------------------------------
(* The audio of a WAV file.                                                *)

LEMMA Least ==
  ASSUME NEW S \in SUBSET Nat, S # {}
  PROVE  \E n \in S : \A m \in S : n <= m
<1>1. PICK n \in S : \A m \in S : ~(<<m, n>> \in OpToRel(<, Nat))
  BY NatLessThanWellFounded, WFMin
<1>2. \A m \in S : ~(m < n)
  BY <1>1 DEF OpToRel
<1> QED
  BY <1>2

\* Induction up to a bound, for a set of numbers.
LEMMA Reaches ==
  ASSUME NEW n \in Nat, NEW S \in SUBSET Nat, 0 \in S,
         \A k \in S : k < n => k + 1 \in S
  PROVE  \A k \in 0..n : k \in S
<1> DEFINE T == {k \in 0..n : k \notin S}
<1> SUFFICES ASSUME T # {} PROVE FALSE
  OBVIOUS
<1>1. PICK m \in T : \A k \in T : m <= k
  <2>1. T \in SUBSET Nat
    OBVIOUS
  <2> HIDE DEF T
  <2> QED
    BY <2>1, Least
<1>2. m - 1 \in 0..n /\ m - 1 \notin T
  BY <1>1
<1> QED
  BY <1>2

LEMMA Elements ==
  ASSUME NEW T, NEW s \in Seq(T)
  PROVE  Len(s) \in Nat /\ \A j \in 1..Len(s) : s[j] \in T
OBVIOUS

Wavs == [riff : BOOLEAN, chunks : Seq([id : STRING, size : Nat])]

\* ChunkStart is what its recursion says: the chunks lie one after another.
LEMMA Starts ==
  ASSUME NEW wav \in Wavs
  PROVE  /\ \A j \in 1..(Len(wav.chunks) + 1) : ChunkStart(wav, j) \in Nat
         /\ \A j \in 1..Len(wav.chunks) :
               ChunkStart(wav, j + 1) =
                 ChunkStart(wav, j) + WAV_CHUNK_HEADER_SIZE
                   + wav.chunks[j].size + (wav.chunks[j].size % 2)
<1> DEFINE n == Len(wav.chunks)
           size(j) == wav.chunks[j].size
           pad(j) == wav.chunks[j].size % 2
           Body(g, j) == IF j = 1 THEN WAV_CHUNK_OFFSET
                         ELSE g[j - 1] + WAV_CHUNK_HEADER_SIZE + size(j - 1)
                                + pad(j - 1)
           Partial(m, g) == /\ g \in [1..(m + 1) -> Nat]
                            /\ \A j \in 1..(m + 1) : g[j] = Body(g, j)
           S == {m \in 0..n : \E g : Partial(m, g)}
           begin == CHOOSE start :
                      start = [j \in 1..(Len(wav.chunks) + 1) |->
                                 IF j = 1 THEN WAV_CHUNK_OFFSET
                                 ELSE start[j - 1] + WAV_CHUNK_HEADER_SIZE
                                        + wav.chunks[j - 1].size
                                        + (wav.chunks[j - 1].size % 2)]
<1>1. n \in Nat /\ \A j \in 1..n : size(j) \in Nat /\ pad(j) \in Nat
  <2>1. wav.chunks \in Seq([id : STRING, size : Nat])
    BY DEF Wavs
  <2>2. /\ n \in Nat
        /\ \A j \in 1..n : wav.chunks[j] \in [id : STRING, size : Nat]
    BY <2>1, Elements
  <2> QED
    BY <2>2
<1>2. WAV_CHUNK_OFFSET \in Nat /\ WAV_CHUNK_HEADER_SIZE \in Nat
  BY DEF WAV_CHUNK_OFFSET, WAV_CHUNK_HEADER_SIZE
<1> HIDE DEF n, size, pad
<1>3. 0 \in S
  <2>1. Partial(0, [j \in 1..1 |-> WAV_CHUNK_OFFSET])
    BY <1>2
  <2> HIDE DEF Partial
  <2> QED
    BY <1>1, <2>1
<1>4. ASSUME NEW m \in S, m < n PROVE m + 1 \in S
  <2>1. PICK g : Partial(m, g)
    OBVIOUS
  <2> DEFINE h == [j \in 1..(m + 2) |-> IF j = m + 2 THEN Body(g, j) ELSE g[j]]
  <2>2. m \in Nat /\ size(m + 1) \in Nat /\ pad(m + 1) \in Nat /\ g[m + 1] \in Nat
    BY <1>1, <1>4, <2>1
  <2>3. h \in [1..(m + 2) -> Nat]
    BY <1>2, <2>1, <2>2
  <2>4. \A j \in 1..(m + 2) : h[j] = Body(h, j)
    BY <1>2, <2>1, <2>2
  <2>5. Partial(m + 1, h)
    <3>1. m + 1 + 1 = m + 2
      BY <2>2
    <3> QED
      BY <2>3, <2>4, <3>1
  <2>6. m + 1 \in 0..n
    BY <1>1, <1>4, <2>2
  <2> HIDE DEF Partial
  <2> QED
    BY <2>5, <2>6
<1>5. PICK g : Partial(n, g)
  <2>1. n \in S
    <3> HIDE DEF S
    <3>1. S \in SUBSET Nat
      BY DEF S
    <3>2. \A k \in 0..n : k \in S
      BY <1>1, <1>3, <1>4, <3>1, Reaches
    <3> QED
      BY <1>1, <3>2
  <2> QED
    BY <2>1
<1>6. g = [j \in 1..(n + 1) |-> Body(g, j)]
  BY <1>5
<1>7. begin = [j \in 1..(n + 1) |-> Body(begin, j)]
  BY <1>6, Zenon DEF n, size, pad
<1>8. \A j : ChunkStart(wav, j) = begin[j]
  BY Zenon DEF ChunkStart
<1> HIDE DEF begin
<1> DEFINE R == {m \in 0..n : begin[m + 1] \in Nat}
<1>9. \A m \in 0..n : m \in R
  <2>1. 0 \in R
    BY <1>1, <1>2, <1>7
  <2>2. ASSUME NEW k \in R, k < n PROVE k + 1 \in R
    <3>1. size(k + 1) \in Nat /\ pad(k + 1) \in Nat /\ begin[k + 1] \in Nat
      BY <1>1, <2>2
    <3>2. begin[k + 2] = begin[k + 1] + WAV_CHUNK_HEADER_SIZE + size(k + 1)
                           + pad(k + 1)
      BY <1>1, <1>7, <2>2
    <3> QED
      BY <1>1, <1>2, <2>2, <3>1, <3>2
  <2> HIDE DEF R
  <2>3. R \in SUBSET Nat
    BY DEF R
  <2> QED
    BY <1>1, <2>1, <2>2, <2>3, Reaches
<1>10. ASSUME NEW j \in 1..(n + 1) PROVE begin[j] \in Nat
  <2>1. j - 1 \in R
    BY <1>1, <1>9
  <2> QED
    BY <1>1, <2>1
<1>11. ASSUME NEW j \in 1..n
       PROVE  begin[j + 1] = begin[j] + WAV_CHUNK_HEADER_SIZE + size(j) + pad(j)
  BY <1>1, <1>7
<1> QED
  BY <1>8, <1>10, <1>11 DEF n, size, pad

\* FindData is what its loop says: a chunk is the audio, or the search ends,
\* or it goes on with the next chunk.
LEMMA Visits ==
  ASSUME NEW wav \in Wavs
  PROVE  \E visit :
           /\ FindData(wav) = visit[1]
           /\ \A i \in 1..Len(wav.chunks) :
                visit[i] =
                  IF ChunkStart(wav, i) + WAV_CHUNK_HEADER_SIZE
                       >= bytes_read(wav)
                  THEN {DEFAULT_WAV_HEADER_SIZE}
                  ELSE IF wav.chunks[i].id = "data"
                  THEN {ChunkStart(wav, i) + WAV_CHUNK_HEADER_SIZE}
                  ELSE IF ChunkStart(wav, i) + WAV_CHUNK_HEADER_SIZE
                            + wav.chunks[i].size > bytes_read(wav)
                  THEN {DEFAULT_WAV_HEADER_SIZE}
                  ELSE IF wav.chunks[i].size % 2 = 1
                  THEN Astray(wav, i + 1)
                  ELSE visit[i + 1]
<1> DEFINE n == Len(wav.chunks)
           Body(g, i) ==
             IF ChunkStart(wav, i) + WAV_CHUNK_HEADER_SIZE >= bytes_read(wav)
             THEN {DEFAULT_WAV_HEADER_SIZE}
             ELSE IF wav.chunks[i].id = "data"
             THEN {ChunkStart(wav, i) + WAV_CHUNK_HEADER_SIZE}
             ELSE IF ChunkStart(wav, i) + WAV_CHUNK_HEADER_SIZE
                       + wav.chunks[i].size > bytes_read(wav)
             THEN {DEFAULT_WAV_HEADER_SIZE}
             ELSE IF wav.chunks[i].size % 2 = 1
             THEN Astray(wav, i + 1)
             ELSE g[i + 1]
           Partial(m, g) == /\ g = [i \in (n + 1 - m)..(n + 1) |-> g[i]]
                            /\ \A i \in (n + 1 - m)..(n + 1) : g[i] = Body(g, i)
           S == {m \in 0..n : \E g : Partial(m, g)}
           found == CHOOSE visit :
             visit = [i \in 1..(Len(wav.chunks) + 1) |->
               IF ChunkStart(wav, i) + WAV_CHUNK_HEADER_SIZE >= bytes_read(wav)
               THEN {DEFAULT_WAV_HEADER_SIZE}
               ELSE IF wav.chunks[i].id = "data"
               THEN {ChunkStart(wav, i) + WAV_CHUNK_HEADER_SIZE}
               ELSE IF ChunkStart(wav, i) + WAV_CHUNK_HEADER_SIZE
                         + wav.chunks[i].size > bytes_read(wav)
               THEN {DEFAULT_WAV_HEADER_SIZE}
               ELSE IF wav.chunks[i].size % 2 = 1
               THEN Astray(wav, i + 1)
               ELSE visit[i + 1]]
<1>1. n \in Nat
  BY Elements DEF Wavs
<1>2. ChunkStart(wav, n + 1) + WAV_CHUNK_HEADER_SIZE >= bytes_read(wav)
  <2>1. ChunkStart(wav, n + 1) \in Nat
    BY <1>1, Starts
  <2> QED
    BY <2>1 DEF bytes_read, FileSize, HEADER_BUF_SIZE, WAV_CHUNK_HEADER_SIZE
<1>3. \A g : Body(g, n + 1) = {DEFAULT_WAV_HEADER_SIZE}
  BY <1>2
<1>4. \A g, h, i : g[i + 1] = h[i + 1] => Body(g, i) = Body(h, i)
  OBVIOUS
<1> HIDE DEF n, Body
<1>5. 0 \in S
  <2> DEFINE h == [i \in (n + 1 - 0)..(n + 1) |-> {DEFAULT_WAV_HEADER_SIZE}]
  <2>1. Partial(0, h)
    BY <1>1, <1>3
  <2> HIDE DEF Partial, h
  <2> QED
    BY <1>1, <2>1
<1>6. ASSUME NEW m \in S, m < n PROVE m + 1 \in S
  <2>1. PICK g : Partial(m, g)
    OBVIOUS
  <2> DEFINE f == n - m
             h == [i \in f..(n + 1) |-> IF i = f THEN Body(g, f) ELSE g[i]]
  <2>2. m \in 0..n /\ m + 1 \in 0..n /\ f \in 1..n
    BY <1>1, <1>6
  <2>3. n + 1 - (m + 1) = f /\ n + 1 - m = f + 1
    BY <1>1, <2>2
  <2>4. h = [i \in f..(n + 1) |-> h[i]]
    OBVIOUS
  <2>5. ASSUME NEW i \in f..(n + 1) PROVE h[i] = Body(h, i)
    <3>1. CASE i = n + 1
      <4>1. i # f /\ i \in (f + 1)..(n + 1)
        BY <1>1, <2>2, <3>1
      <4>2. h[i] = g[i] /\ g[i] = Body(g, i)
        BY <2>1, <2>3, <4>1
      <4> QED
        BY <1>3, <3>1, <4>2
    <3>2. CASE i # n + 1
      <4>1. i + 1 \in f..(n + 1) /\ i + 1 # f
        <5> HIDE DEF f
        <5>1. f \in Int /\ n \in Int /\ i \in Int /\ f <= i /\ i <= n + 1
          BY <1>1, <2>2
        <5> QED
          BY <3>2, <5>1
      <4>2. h[i + 1] = g[i + 1]
        BY <4>1
      <4>3. h[i] = Body(g, i)
        <5>1. CASE i = f
          BY <5>1
        <5>2. CASE i # f
          <6>1. i \in (f + 1)..(n + 1)
            BY <1>1, <2>2, <5>2
          <6> QED
            BY <2>1, <2>3, <5>2, <6>1
        <5> QED
          BY <5>1, <5>2
      <4> HIDE DEF h
      <4> QED
        BY <1>4, <4>2, <4>3
    <3> QED
      BY <3>1, <3>2
  <2>6. Partial(m + 1, h)
    BY <2>3, <2>4, <2>5
  <2> HIDE DEF Partial, h
  <2> QED
    BY <2>2, <2>6
<1>7. PICK g : Partial(n, g)
  <2>1. n \in S
    <3> HIDE DEF S
    <3>1. S \in SUBSET Nat
      BY DEF S
    <3>2. \A k \in 0..n : k \in S
      BY <1>1, <1>5, <1>6, <3>1, Reaches
    <3> QED
      BY <1>1, <3>2
  <2> QED
    BY <2>1
<1>8. g = [i \in 1..(n + 1) |-> Body(g, i)]
  <2>1. n + 1 - n = 1
    BY <1>1
  <2> QED
    BY <1>7, <2>1
<1>9. found = [i \in 1..(n + 1) |-> Body(found, i)]
  BY <1>8, Zenon DEF n, Body
<1>10. FindData(wav) = found[1]
  BY Zenon DEF FindData
<1> HIDE DEF found
<1>11. \A i \in 1..n : found[i] = Body(found, i)
  BY <1>1, <1>9
<1> QED
  BY <1>10, <1>11, Zenon DEF n, Body

\* The search passes over the chunks before the audio, if they are even.
LEMMA Searched ==
  ASSUME NEW wav \in Wavs, NEW i \in 1..Len(wav.chunks),
         wav.chunks[i].id = "data",
         \A j \in 1..(i - 1) : /\ wav.chunks[j].id # "data"
                               /\ wav.chunks[j].size % 2 = 0,
         ChunkStart(wav, i) + WAV_CHUNK_HEADER_SIZE < bytes_read(wav)
  PROVE  FindData(wav) = {ChunkStart(wav, i) + WAV_CHUNK_HEADER_SIZE}
<1> DEFINE n == Len(wav.chunks)
           C(j) == ChunkStart(wav, j)
           b == bytes_read(wav)
           data(j) == wav.chunks[j].id = "data"
           size(j) == wav.chunks[j].size
           odd(j) == wav.chunks[j].size % 2 = 1
<1>1. n \in Nat /\ wav.chunks \in Seq([id : STRING, size : Nat])
  BY Elements DEF Wavs
<1>2. \A j \in 1..n : wav.chunks[j].size \in Nat
  <2>1. \A j \in 1..n : wav.chunks[j] \in [id : STRING, size : Nat]
    BY <1>1, Elements
  <2> QED
    BY <2>1
<1>3. \A j \in 1..(n + 1) : C(j) \in Nat
  BY Starts
<1>4. \A j \in 1..n : /\ size(j) \in Nat
                         /\ C(j) + 8 + size(j) <= C(j + 1)
  <2> SUFFICES ASSUME NEW j \in 1..n
               PROVE  size(j) \in Nat /\ C(j) + 8 + size(j) <= C(j + 1)
    OBVIOUS
  <2>1. C(j + 1) = C(j) + WAV_CHUNK_HEADER_SIZE + size(j) + (size(j) % 2)
    BY Starts
  <2>2. C(j) \in Nat /\ size(j) \in Nat
    BY <1>1, <1>2, <1>3
  <2> HIDE DEF C, size
  <2> QED
    BY <2>1, <2>2 DEF WAV_CHUNK_HEADER_SIZE
<1>5. b \in Nat /\ C(i) + 8 < b
  <2>1. FileSize(wav) \in Nat
    BY <1>1, <1>3 DEF FileSize
  <2> QED
    BY <2>1 DEF bytes_read, HEADER_BUF_SIZE, WAV_CHUNK_HEADER_SIZE
<1>6. PICK visit :
        /\ FindData(wav) = visit[1]
        /\ \A j \in 1..n :
             visit[j] = IF C(j) + 8 >= b THEN {DEFAULT_WAV_HEADER_SIZE}
                        ELSE IF data(j) THEN {C(j) + 8}
                        ELSE IF C(j) + 8 + size(j) > b
                        THEN {DEFAULT_WAV_HEADER_SIZE}
                        ELSE IF odd(j) THEN Astray(wav, j + 1)
                        ELSE visit[j + 1]
  BY Visits DEF WAV_CHUNK_HEADER_SIZE
<1>7. data(i) /\ \A j \in 1..(i - 1) : ~data(j) /\ ~odd(j)
  OBVIOUS
<1> HIDE DEF n, C, b, data, size, odd
<1>a. \A j \in 1..n : ~(C(j) + 8 >= b) /\ data(j) => visit[j] = {C(j) + 8}
  BY <1>6, Zenon
<1>b. \A j \in 1..n :
        ~(C(j) + 8 >= b) /\ ~data(j) /\ ~(C(j) + 8 + size(j) > b) /\ ~odd(j)
          => visit[j] = visit[j + 1]
  BY <1>6, Zenon
<1> DEFINE audio == {C(i) + 8}
           S == {k \in 0..(i - 1) : C(i - k) <= C(i) /\ visit[i - k] = audio}
<1>8. i \in 1..n
  BY DEF n
<1>9. 0 \in S
  <2>1. i - 0 = i /\ i \in 1..(n + 1) /\ 0 \in 0..(i - 1)
    BY <1>1, <1>8
  <2>2. C(i) \in Nat
    BY <1>3, <2>1
  <2>3. visit[i] = audio
    <3>1. ~(C(i) + 8 >= b)
      BY <1>5, <2>2
    <3> QED
      BY <1>7, <1>8, <1>a, <3>1, Zenon
  <2> HIDE DEF audio
  <2> QED
    BY <2>1, <2>2, <2>3
<1>10. ASSUME NEW k \in S, k < i - 1 PROVE k + 1 \in S
  <2> HIDE DEF audio
  <2> DEFINE j == i - k - 1
  <2>1. /\ j \in 1..n /\ j \in 1..(i - 1) /\ j + 1 = i - k
        /\ i - (k + 1) = j /\ k + 1 \in 0..(i - 1)
    BY <1>1, <1>8, <1>10
  <2>2. C(j + 1) <= C(i) /\ visit[j + 1] = audio
    BY <2>1
  <2>3. /\ C(j) \in Nat /\ C(j + 1) \in Nat /\ C(i) \in Nat
        /\ size(j) \in Nat /\ C(j) + 8 + size(j) <= C(j + 1)
    <3>1. j \in 1..(n + 1) /\ j + 1 \in 1..(n + 1) /\ i \in 1..(n + 1)
      BY <1>1, <1>8, <2>1
    <3> HIDE DEF j
    <3> QED
      BY <1>3, <1>4, <2>1, <3>1
  <2> HIDE DEF j
  <2>4. C(j) <= C(i) /\ C(j) + 8 < b /\ C(j) + 8 + size(j) <= b
    BY <1>5, <2>2, <2>3
  <2>5. visit[j] = visit[j + 1]
    <3>1. ~(C(j) + 8 >= b) /\ ~(C(j) + 8 + size(j) > b)
      BY <1>5, <2>3, <2>4
    <3> QED
      BY <1>7, <1>b, <2>1, <3>1, Zenon
  <2> QED
    BY <2>1, <2>2, <2>4, <2>5
<1>11. \A k \in 0..(i - 1) : k \in S
  <2>1. i - 1 \in Nat /\ S \in SUBSET Nat
    BY <1>1, <1>8
  <2> HIDE DEF S
  <2> QED
    BY <1>9, <1>10, <2>1, Reaches
<1>12. visit[1] = audio
  <2> HIDE DEF audio
  <2>1. i - 1 \in S
    <3>1. i - 1 \in 0..(i - 1)
      BY <1>1, <1>8
    <3> HIDE DEF S
    <3> QED
      BY <1>11, <3>1
  <2>2. i - (i - 1) = 1
    BY <1>1, <1>8
  <2> QED
    BY <2>1, <2>2
<1> QED
  BY <1>6, <1>12 DEF C, WAV_CHUNK_HEADER_SIZE

\* What open() was given is one of the files, and what it found is a result
\* of get_audio_data_offset.
WavInv ==
    tool = "wav" =>
        /\ item \in WavFiles
        /\ stage = "opened" => out \in get_audio_data_offset(item)

\* get_audio_data_offset: whatever number of chunks of even sizes come before
\* it, the audio is found wherever it begins in the part of the file that is
\* looked at, and the rest of the file is what is played.
THEOREM FindsTheAudio == Spec => []AudioFound
<1>1. Init => WavInv
  BY DEF Init, WavInv
<1>2. WavInv /\ [Next]_vars => WavInv'
  <2> SUFFICES ASSUME WavInv, [Next]_vars, tool' = "wav"
               PROVE  WavInv'
    BY DEF WavInv
  <2>1. CASE OpenWav
    BY <2>1 DEF OpenWav, WavInv
  <2>2. CASE encode_alaw \/ decode_alaw \/ ReadPacket \/ ShiftSample
    BY <2>2 DEF encode_alaw, decode_alaw, ReadPacket, ShiftSample
  <2>3. CASE \E ssrc \in Mixers : AddSource(ssrc)
    BY <2>3 DEF AddSource
  <2>4. CASE \E size \in BufferSizes : WritePacket(size)
    BY <2>4 DEF WritePacket
  <2>5. CASE UNCHANGED vars
    BY <2>5 DEF vars, WavInv
  <2> QED
    BY <2>1, <2>2, <2>3, <2>4, <2>5 DEF Next
<1>3. WavInv => AudioFound
  <2> SUFFICES ASSUME WavInv, tool = "wav", stage = "opened", item.riff,
                      NEW i \in DOMAIN item.chunks,
                      item.chunks[i].id = "data",
                      ChunkStart(item, i) + WAV_CHUNK_HEADER_SIZE
                        < bytes_read(item),
                      \A j \in 1..(i - 1) : /\ item.chunks[j].id # "data"
                                            /\ item.chunks[j].size % 2 = 0,
                      bytes_read(item) >= DEFAULT_WAV_HEADER_SIZE
               PROVE  LET begin == ChunkStart(item, i) + WAV_CHUNK_HEADER_SIZE
                      IN  /\ out = begin
                          /\ AudioSize(item, out) = FileSize(item) - begin
    BY Zenon DEF AudioFound
  <2> DEFINE begin == ChunkStart(item, i) + WAV_CHUNK_HEADER_SIZE
  <2>1. item \in Wavs /\ out \in get_audio_data_offset(item)
    BY WavAssumption DEF WavInv, Wavs
  <2>2. Len(item.chunks) \in Nat /\ i \in 1..Len(item.chunks)
    <3>1. item.chunks \in Seq([id : STRING, size : Nat])
      BY <2>1 DEF Wavs
    <3> QED
      BY <3>1, Elements
  <2>3. FindData(item) = {begin}
    BY <2>1, <2>2, Searched
  <2>4. /\ ChunkStart(item, i) \in Nat
        /\ FileSize(item) \in Nat
    BY <2>1, <2>2, Starts DEF FileSize
  <2>5. bytes_read(item) \in Nat /\ bytes_read(item) <= FileSize(item)
    BY <2>4 DEF bytes_read, HEADER_BUF_SIZE
  <2>6. out = begin
    BY <2>1, <2>3, <2>5 DEF get_audio_data_offset, DEFAULT_WAV_HEADER_SIZE
  <2>7. begin \in Nat /\ begin < FileSize(item)
    BY <2>4, <2>5 DEF WAV_CHUNK_HEADER_SIZE
  <2>8. AudioSize(item, out) = FileSize(item) - begin
    <3> HIDE DEF begin
    <3> QED
      BY <2>4, <2>6, <2>7 DEF AudioSize
  <2> QED
    BY <2>6, <2>8
<1> QED
  BY <1>1, <1>2, <1>3, PTL DEF Spec

-----------------------------------------------------------------------------
(* Packets in octets.                                                      *)

Octets == Seq(Bytes)

LEMMA FourLong ==
  ASSUME NEW n \in Nat, 1..n = 1..4
  PROVE  n = 4
<1>1. \A x \in Int : (1 <= x /\ x <= n) <=> (1 <= x /\ x <= 4)
  <2>1. \A x : x \in 1..n <=> x \in 1..4
    OBVIOUS
  <2> QED
    BY <2>1
<1> QED
  BY <1>1

LEMMA QuadIsSeq ==
  ASSUME NEW q \in Quads
  PROVE  q \in Octets /\ Len(q) = 4 /\ \A k \in 1..4 : q[k] \in Bytes
<1>1. q \in [1..4 -> Bytes]
  BY DEF Quads
<1>2. q \in Seq(Bytes)
  <2>1. 4 \in Nat
    OBVIOUS
  <2>2. [1..4 -> Bytes] \in {[1..n -> Bytes] : n \in Nat}
    BY <2>1, Zenon
  <2>3. q \in UNION {[1..n -> Bytes] : n \in Nat}
    BY <1>1, <2>2, Zenon
  <2> QED
    BY <2>3, SeqDef, Zenon
<1>3. Len(q) \in Nat /\ 1..Len(q) = 1..4
  BY <1>1, <1>2, LenProperties
<1>4. Len(q) = 4
  BY <1>3, FourLong
<1> QED
  BY <1>1, <1>2, <1>4 DEF Octets

\* What FlattenSeq makes of a list of 32-bit fields.
LEMMA Flattened ==
  ASSUME NEW s \in Seq(Quads)
  PROVE  /\ FlattenSeq(s) \in Octets
         /\ Len(FlattenSeq(s)) = 4 * Len(s)
         /\ \A i \in 1..Len(s), k \in 1..4 :
               FlattenSeq(s)[4 * (i - 1) + k] = s[i][k]
<1>1. CASE Len(s) = 0
  <2>1. s = <<>>
    BY <1>1, EmptySeq
  <2>2. FlattenSeq(s) = <<>>
    BY <1>1, <2>1 DEF FlattenSeq
  <2> QED
    BY <1>1, <2>2, EmptySeq DEF Octets
<1>2. CASE Len(s) # 0
  <2> DEFINE n == Len(s)
             Body(g, i) == IF i = 1 THEN s[i] ELSE g[i - 1] \o s[i]
             Partial(m, g) == /\ g \in [1..(m + 1) -> Octets]
                              /\ \A i \in 1..(m + 1) : g[i] = Body(g, i)
             S == {m \in 0..(n - 1) : \E g : Partial(m, g)}
             joined == CHOOSE flatten :
                         flatten = [i \in 1..Len(s) |->
                                      IF i = 1 THEN s[i]
                                      ELSE flatten[i - 1] \o s[i]]
  <2>1. n \in Nat /\ n >= 1 /\ \A i \in 1..n : s[i] \in Quads
    BY <1>2, LenProperties, ElementOfSeq
  <2>2. \A i \in 1..n : s[i] \in Octets /\ Len(s[i]) = 4
    BY <2>1, QuadIsSeq
  <2>3. FlattenSeq(s) = joined[n]
    BY <1>2, Zenon DEF FlattenSeq
  <2>J. \A g, i, j : i # 1 /\ i - 1 = j => Body(g, i) = g[j] \o s[i]
    BY Zenon
  <2> HIDE DEF n
  <2>4. 0 \in S
    <3>1. Partial(0, [i \in 1..1 |-> s[1]])
      BY <2>1, <2>2
    <3> HIDE DEF Partial
    <3> QED
      BY <2>1, <3>1
  <2>5. ASSUME NEW m \in S, m < n - 1 PROVE m + 1 \in S
    <3>1. PICK g : Partial(m, g)
      OBVIOUS
    <3> DEFINE h == [i \in 1..(m + 2) |-> IF i = m + 2 THEN Body(g, i)
                                          ELSE g[i]]
    <3>2. m \in Nat /\ s[m + 2] \in Octets /\ g[m + 1] \in Octets
          /\ m + 1 \in 0..(n - 1)
      BY <2>1, <2>2, <2>5, <3>1
    <3>3. Body(g, m + 2) = g[m + 1] \o s[m + 2]
      <4> HIDE DEF Body
      <4>1. ASSUME NEW i, NEW j, i = m + 2, j = m + 1
            PROVE  Body(g, i) = g[j] \o s[i]
        <5>1. i # 1 /\ i - 1 = j
          BY <3>2, <4>1
        <5> QED
          BY <2>J, <5>1, Zenon
      <4> QED
        BY <4>1, Zenon
    <3>4. Body(g, m + 2) \in Octets
      BY <3>2, <3>3, ConcatProperties DEF Octets
    <3>5. h \in [1..(m + 2) -> Octets]
      <4> HIDE DEF Body
      <4> QED
        BY <3>1, <3>2, <3>4
    <3>6. ASSUME NEW i \in 1..(m + 2) PROVE h[i] = Body(h, i)
      <4>1. h[i] = Body(g, i)
        <5>1. CASE i = m + 2
          BY <5>1, Zenon
        <5>2. CASE i # m + 2
          <6>1. i \in 1..(m + 1)
            BY <3>2, <5>2
          <6>2. h[i] = g[i]
            BY <5>2, Zenon
          <6> QED
            BY <3>1, <6>1, <6>2, Zenon
        <5> QED
          BY <5>1, <5>2
      <4>2. i = 1 \/ h[i - 1] = g[i - 1]
        <5>1. i = 1 \/ (i - 1 \in 1..(m + 2) /\ i - 1 # m + 2)
          BY <3>2
        <5> QED
          BY <5>1, Zenon
      <4> QED
        <5> HIDE DEF h
        <5> QED
          BY <4>1, <4>2, Zenon
    <3>7. Partial(m + 1, h)
      <4>1. m + 1 + 1 = m + 2
        BY <3>2
      <4> QED
        BY <3>5, <3>6, <4>1
    <3> HIDE DEF Partial
    <3> QED
      BY <3>2, <3>7
  <2>6. PICK g : Partial(n - 1, g)
    <3>1. n - 1 \in S
      <4>1. S \in SUBSET Nat /\ n - 1 \in Nat
        BY <2>1
      <4> HIDE DEF S
      <4>2. \A k \in 0..(n - 1) : k \in S
        BY <2>4, <2>5, <4>1, Reaches
      <4> QED
        BY <4>1, <4>2
    <3> QED
      BY <3>1
  <2>7. g = [i \in 1..n |-> Body(g, i)]
    <3>1. n - 1 + 1 = n
      BY <2>1
    <3> QED
      BY <2>6, <3>1
  <2>8. joined = [i \in 1..n |-> Body(joined, i)]
    BY <2>7, Zenon DEF n
  <2> HIDE DEF joined
  <2> DEFINE Good(t, m) == /\ t \in Octets
                           /\ Len(t) = 4 * m
                           /\ \A i \in 1..m, k \in 1..4 :
                                 t[4 * (i - 1) + k] = s[i][k]
             R == {m \in 0..(n - 1) : Good(joined[m + 1], m + 1)}
  <2>9. 0 \in R
    <3>1. joined[1] = s[1]
      BY <2>1, <2>8
    <3> QED
      BY <2>1, <2>2, <3>1
  <2>10. ASSUME NEW m \in R, m < n - 1 PROVE m + 1 \in R
    <3> DEFINE t == joined[m + 1]
               u == s[m + 2]
    <3>1. m \in Nat /\ m + 1 \in 0..(n - 1) /\ m + 2 \in 1..n
      BY <2>1, <2>10
    <3>2. Good(t, m + 1)
      OBVIOUS
    <3>3. joined[m + 2] = t \o u
      <4>1. joined[m + 2] = Body(joined, m + 2)
        BY <2>8, <3>1, Zenon
      <4> HIDE DEF Body
      <4>2. ASSUME NEW i, NEW j, i = m + 2, j = m + 1
            PROVE  Body(joined, i) = joined[j] \o s[i]
        <5>1. i # 1 /\ i - 1 = j
          BY <3>1, <4>2
        <5> QED
          BY <2>J, <5>1, Zenon
      <4> QED
        BY <4>1, <4>2, Zenon
    <3>4. u \in Octets /\ Len(u) = 4
      BY <2>2, <3>1
    <3> HIDE DEF t
    <3>5. /\ t \o u \in Octets
          /\ Len(t \o u) = Len(t) + Len(u)
          /\ \A j \in 1..(Len(t) + Len(u)) :
                (t \o u)[j] = IF j <= Len(t) THEN t[j] ELSE u[j - Len(t)]
      BY <3>2, <3>4, ConcatProperties, ZenonT(60) DEF Octets
    <3>6. Len(t \o u) = 4 * (m + 2)
      BY <3>1, <3>2, <3>4, <3>5
    <3>7. ASSUME NEW i \in 1..(m + 2), NEW k \in 1..4
          PROVE  (t \o u)[4 * (i - 1) + k] = s[i][k]
      <4> DEFINE j == 4 * (i - 1) + k
      <4>1. CASE i = m + 2
        <5>1. j \in 1..(Len(t) + Len(u)) /\ ~(j <= Len(t)) /\ j - Len(t) = k
          BY <3>1, <3>2, <3>4, <4>1
        <5> QED
          BY <3>5, <4>1, <5>1
      <4>2. CASE i # m + 2
        <5>1. i \in 1..(m + 1)
          BY <3>1, <4>2
        <5>2. j \in 1..(Len(t) + Len(u)) /\ j <= Len(t)
          BY <3>1, <3>2, <3>4, <5>1
        <5>3. t[j] = s[i][k]
          BY <3>2, <5>1
        <5> QED
          BY <3>5, <5>2, <5>3
      <4> QED
        BY <4>1, <4>2
    <3>8. Good(joined[m + 2], m + 2)
      BY <3>3, <3>5, <3>6, <3>7, ZenonT(60)
    <3>9. m + 1 + 1 = m + 2
      BY <3>1
    <3> HIDE DEF Good
    <3> QED
      BY <3>1, <3>8, <3>9
  <2>11. Good(joined[n], n)
    <3>1. n - 1 \in R
      <4>1. R \in SUBSET Nat /\ n - 1 \in Nat
        BY <2>1
      <4> HIDE DEF R
      <4>2. \A k \in 0..(n - 1) : k \in R
        BY <2>9, <2>10, <4>1, Reaches
      <4> QED
        BY <4>1, <4>2
    <3>2. n - 1 + 1 = n
      BY <2>1
    <3> HIDE DEF Good
    <3> QED
      BY <3>1, <3>2
  <2> QED
    BY <2>3, <2>11 DEF n
<1> QED
  BY <1>1, <1>2

LEMMA Joined ==
  ASSUME NEW s \in Octets, NEW t \in Octets
  PROVE  /\ s \o t \in Octets
         /\ Len(s \o t) = Len(s) + Len(t)
         /\ \A i \in 1..Len(s) : (s \o t)[i] = s[i]
         /\ \A j \in 1..Len(t) : (s \o t)[Len(s) + j] = t[j]
<1>1. Len(s) \in Nat /\ Len(t) \in Nat
  BY DEF Octets
<1>2. /\ s \o t \in Octets
      /\ Len(s \o t) = Len(s) + Len(t)
      /\ \A i \in 1..(Len(s) + Len(t)) :
            (s \o t)[i] = IF i <= Len(s) THEN s[i] ELSE t[i - Len(s)]
  BY ConcatProperties DEF Octets
<1>3. ASSUME NEW i \in 1..Len(s) PROVE (s \o t)[i] = s[i]
  BY <1>1, <1>2
<1>4. ASSUME NEW j \in 1..Len(t) PROVE (s \o t)[Len(s) + j] = t[j]
  <2>1. /\ Len(s) + j \in 1..(Len(s) + Len(t))
        /\ ~(Len(s) + j <= Len(s)) /\ (Len(s) + j) - Len(s) = j
    BY <1>1
  <2> QED
    BY <1>2, <2>1
<1> QED
  BY <1>2, <1>3, <1>4

LEMMA TwoOctets ==
  ASSUME NEW a \in Bytes, NEW b \in Bytes
  PROVE  <<a, b>> \in Octets /\ Len(<<a, b>>) = 2
         /\ <<a, b>>[1] = a /\ <<a, b>>[2] = b
BY DEF Octets

\* htons and ntohs: two octets hold a 16-bit field.
LEMMA Short ==
  ASSUME NEW n \in Shorts
  PROVE  /\ n \div 256 \in Bytes /\ n % 256 \in Bytes
         /\ (n \div 256) * 256 + (n % 256) = n
         /\ htons(n) \in Octets /\ Len(htons(n)) = 2
         /\ htons(n)[1] = n \div 256 /\ htons(n)[2] = n % 256
<1>1. /\ n \div 256 \in Bytes /\ n % 256 \in Bytes
      /\ (n \div 256) * 256 + (n % 256) = n
  BY SMTT(30) DEF Shorts, Bytes
<1> DEFINE a == n \div 256
           b == n % 256
<1>2. htons(n) = <<a, b>> /\ a \in Bytes /\ b \in Bytes
  BY <1>1, Zenon DEF htons
<1> HIDE DEF a, b
<1>3. /\ htons(n) \in Octets /\ Len(htons(n)) = 2
      /\ htons(n)[1] = a /\ htons(n)[2] = b
  BY <1>2, TwoOctets
<1> QED
  BY <1>1, <1>3, Zenon DEF a, b

Fields ==
  [padding : BOOLEAN, version : 0..3, payload_type : 0..127,
   marker : BOOLEAN, sequence_num : Shorts, timestamp : Quads,
   ssrc : Quads, csrc_list : Seq(Quads),
   extension : {Nothing} \cup [id : Shorts, data : Seq(Quads)],
   payload : Seq(Bytes)]

LEMMA PacketFields ==
  ASSUME NEW p \in Packets
  PROVE  /\ p \in Fields
         /\ Len(p.csrc_list) \in 0..15
         /\ p.extension # Nothing =>
              /\ p.extension.id \in Shorts
              /\ p.extension.data \in Seq(Quads)
              /\ Len(p.extension.data) \in Shorts
<1>1. p \in Fields /\ Len(p.csrc_list) <= MaxSources
      /\ (p.extension # Nothing => Len(p.extension.data) \in Shorts)
  BY DEF Packets, Fields
<1>2. p.csrc_list \in Seq(Quads)
      /\ p.extension \in {Nothing} \cup [id : Shorts, data : Seq(Quads)]
  BY <1>1 DEF Fields
<1>3. Len(p.csrc_list) \in Nat
  BY <1>2, LenProperties
<1>4. Len(p.csrc_list) \in 0..15
  <2> DEFINE n == Len(p.csrc_list)
  <2>1. n <= MaxSources /\ n \in Nat
    BY <1>1, <1>3
  <2> HIDE DEF n
  <2>2. n \in 0..15
    BY <2>1, SourceAssumption
  <2> QED
    BY <2>2 DEF n
<1>5. ASSUME p.extension # Nothing
      PROVE  /\ p.extension.id \in Shorts
             /\ p.extension.data \in Seq(Quads)
             /\ Len(p.extension.data) \in Shorts
  <2>1. p.extension.id \in Shorts /\ p.extension.data \in Seq(Quads)
    BY <1>2, <1>5
  <2> QED
    BY <1>1, <1>5, <2>1
<1> QED
  BY <1>1, <1>4, <1>5

\* The bit-fields of the first two octets: what is written is read back.
LEMMA FirstOctetRead ==
  ASSUME NEW p \in Packets
  PROVE  /\ FirstOctet(p) \in Bytes
         /\ FirstOctet(p) % 16 = Len(p.csrc_list)
         /\ ((FirstOctet(p) \div 16) % 2 = 1) = (p.extension # Nothing)
         /\ ((FirstOctet(p) \div 32) % 2 = 1) = p.padding
         /\ FirstOctet(p) \div 64 = p.version
<1> DEFINE v == p.version
           n == Len(p.csrc_list)
           e == Flag(p.extension # Nothing)
           d == Flag(p.padding)
           o == FirstOctet(p)
<1>1. v \in 0..3 /\ n \in 0..15 /\ p.padding \in BOOLEAN
  BY PacketFields DEF Fields
<1>2. e \in 0..1 /\ d \in 0..1 /\ ((e = 1) = (p.extension # Nothing))
      /\ ((d = 1) = p.padding)
  BY <1>1 DEF Flag
<1>3. o = (v % 4) * 64 + d * 32 + e * 16 + (n % 16)
  BY DEF FirstOctet
<1> HIDE DEF v, n, e, d, o
<1>4. v % 4 = v /\ n % 16 = n
  BY <1>1
<1>5. o = v * 64 + d * 32 + e * 16 + n
  BY <1>3, <1>4
<1>6. o \in Bytes /\ o % 16 = n /\ o \div 64 = v
  BY <1>1, <1>2, <1>5 DEF Bytes
<1>7. (o \div 16) % 2 = e
  BY <1>1, <1>2, <1>5
<1>8. (o \div 32) % 2 = d
  BY <1>1, <1>2, <1>5
<1> QED
  BY <1>2, <1>6, <1>7, <1>8, Zenon DEF v, n, o

LEMMA SecondOctetRead ==
  ASSUME NEW p \in Packets
  PROVE  /\ SecondOctet(p) \in Bytes
         /\ SecondOctet(p) % 128 = p.payload_type
         /\ (SecondOctet(p) >= 128) = p.marker
<1> DEFINE t == p.payload_type
           f == Flag(p.marker)
           o == SecondOctet(p)
<1>1. t \in 0..127 /\ p.marker \in BOOLEAN
  BY PacketFields DEF Fields
<1>2. f \in 0..1 /\ ((f = 1) = p.marker)
  BY <1>1 DEF Flag
<1>3. o = f * 128 + (t % 128)
  BY DEF SecondOctet
<1> HIDE DEF t, f, o
<1>4. t % 128 = t
  BY <1>1
<1>5. o \in Bytes /\ o % 128 = t /\ ((o >= 128) = (f = 1))
  BY <1>1, <1>2, <1>3, <1>4 DEF Bytes
<1> QED
  BY <1>2, <1>5, Zenon DEF t, o

\* What to_buffer writes, piece by piece.
Extension(p) ==
  IF p.extension = Nothing THEN <<>>
  ELSE htons(p.extension.id) \o htons(Len(p.extension.data))
         \o FlattenSeq(p.extension.data)

FixedPart(p) ==
  <<FirstOctet(p), SecondOctet(p)>> \o htons(p.sequence_num)
    \o p.timestamp \o p.ssrc

Written(p) == FixedPart(p) \o FlattenSeq(p.csrc_list) \o Extension(p) \o p.payload

LEMMA FixedLayout ==
  ASSUME NEW p \in Packets
  PROVE  LET b == FixedPart(p)
         IN  /\ b \in Octets /\ Len(b) = 12
             /\ b[1] = FirstOctet(p) /\ b[2] = SecondOctet(p)
             /\ b[3] = p.sequence_num \div 256 /\ b[4] = p.sequence_num % 256
             /\ \A k \in 1..4 : b[4 + k] = p.timestamp[k]
             /\ \A k \in 1..4 : b[8 + k] = p.ssrc[k]
<1> DEFINE c0 == <<FirstOctet(p), SecondOctet(p)>>
           c1 == c0 \o htons(p.sequence_num)
           c2 == c1 \o p.timestamp
           c3 == c2 \o p.ssrc
<1>1. p.sequence_num \in Shorts /\ p.timestamp \in Quads /\ p.ssrc \in Quads
  BY PacketFields DEF Fields
<1>2. /\ c0 \in Octets /\ Len(c0) = 2
      /\ c0[1] = FirstOctet(p) /\ c0[2] = SecondOctet(p)
  BY FirstOctetRead, SecondOctetRead, TwoOctets
<1> HIDE DEF c0
<1> DEFINE h == htons(p.sequence_num)
<1>3. /\ h \in Octets /\ Len(h) = 2
      /\ h[1] = p.sequence_num \div 256 /\ h[2] = p.sequence_num % 256
  BY <1>1, Short
<1> HIDE DEF h
<1>4. /\ c1 \in Octets /\ Len(c1) = Len(c0) + Len(h)
      /\ \A i \in 1..Len(c0) : c1[i] = c0[i]
      /\ \A j \in 1..Len(h) : c1[Len(c0) + j] = h[j]
  <2>1. c1 = c0 \o h
    BY DEF h
  <2>2. c0 \in Octets /\ h \in Octets
    BY <1>2, <1>3
  <2> HIDE DEF c1
  <2> QED
    BY <2>1, <2>2, Joined, Zenon
<1> HIDE DEF c1
<1>5. /\ c1 \in Octets /\ Len(c1) = 4
      /\ c1[1] = c0[1] /\ c1[2] = c0[2] /\ c1[3] = h[1] /\ c1[4] = h[2]
  <2>1. Len(c1) = 4
    BY <1>2, <1>3, <1>4
  <2>2. c1[1] = c0[1] /\ c1[2] = c0[2]
    BY <1>2, <1>4
  <2>3. c1[2 + 1] = h[1] /\ c1[2 + 2] = h[2]
    BY <1>2, <1>3, <1>4
  <2>4. 2 + 1 = 3 /\ 2 + 2 = 4
    OBVIOUS
  <2> QED
    BY <1>4, <2>1, <2>2, <2>3, <2>4
<1> DEFINE t == p.timestamp
           u == p.ssrc
<1>6. t \in Octets /\ Len(t) = 4 /\ u \in Octets /\ Len(u) = 4
  BY <1>1, QuadIsSeq
<1> HIDE DEF t, u
<1>7. /\ c2 \in Octets /\ Len(c2) = 8
      /\ \A i \in 1..4 : c2[i] = c1[i]
      /\ \A j \in 1..4 : c2[4 + j] = t[j]
  <2>1. c2 = c1 \o t
    BY DEF t
  <2>2. Len(c1 \o t) = Len(c1) + Len(t)
    BY <1>5, <1>6, Joined
  <2>3. Len(c2) = 8
    BY <1>5, <1>6, <2>1, <2>2
  <2> QED
    BY <1>5, <1>6, <2>1, <2>3, Joined
<1> HIDE DEF c2
<1>8. /\ c3 \in Octets /\ Len(c3) = 12
      /\ \A i \in 1..8 : c3[i] = c2[i]
      /\ \A j \in 1..4 : c3[8 + j] = u[j]
  <2>1. c3 = c2 \o u
    BY DEF u
  <2>2. Len(c2 \o u) = Len(c2) + Len(u)
    BY <1>6, <1>7, Joined, ZenonT(60)
  <2>3. Len(c3) = 12
    BY <1>6, <1>7, <2>1, <2>2
  <2>4. c2 \in Octets /\ u \in Octets /\ Len(c2) = 8 /\ Len(u) = 4
    BY <1>6, <1>7
  <2> HIDE DEF c3
  <2>5. /\ c3 \in Octets
        /\ \A i \in 1..Len(c2) : c3[i] = c2[i]
        /\ \A j \in 1..Len(u) : c3[Len(c2) + j] = u[j]
    BY <2>1, <2>4, Joined, Zenon
  <2> QED
    BY <2>3, <2>4, <2>5
<1>9. FixedPart(p) = c3
  BY DEF FixedPart, c0, c1, c2
<1> HIDE DEF c3
<1>10. /\ c3[1] = c0[1] /\ c3[2] = c0[2] /\ c3[3] = h[1] /\ c3[4] = h[2]
  BY <1>5, <1>7, <1>8
<1>11. ASSUME NEW k \in 1..4 PROVE c3[4 + k] = t[k]
  <2>1. 4 + k \in 1..8
    OBVIOUS
  <2> QED
    BY <1>7, <1>8, <2>1
<1> QED
  BY <1>2, <1>3, <1>8, <1>9, <1>10, <1>11 DEF t, u

LEMMA ExtensionLayout ==
  ASSUME NEW p \in Packets, p.extension # Nothing
  PROVE  LET e == Extension(p)
             x == p.extension
         IN  /\ e \in Octets /\ Len(e) = 4 + 4 * Len(x.data)
             /\ e[1] = x.id \div 256 /\ e[2] = x.id % 256
             /\ e[3] = Len(x.data) \div 256 /\ e[4] = Len(x.data) % 256
             /\ \A i \in 1..Len(x.data), k \in 1..4 :
                   e[4 + (4 * (i - 1) + k)] = x.data[i][k]
<1> DEFINE d == p.extension.data
           m == Len(d)
           h == htons(p.extension.id)
           g == htons(m)
           f == FlattenSeq(d)
           c == h \o g
           e == c \o f
<1>1. p.extension.id \in Shorts /\ d \in Seq(Quads) /\ m \in Shorts
  BY PacketFields
<1>2. /\ h \in Octets /\ Len(h) = 2
      /\ h[1] = p.extension.id \div 256 /\ h[2] = p.extension.id % 256
  <2> DEFINE q == p.extension.id
  <2>1. q \in Shorts
    BY <1>1, Zenon
  <2> HIDE DEF q
  <2>2. /\ htons(q) \in Octets /\ Len(htons(q)) = 2
        /\ htons(q)[1] = q \div 256 /\ htons(q)[2] = q % 256
    BY <2>1, Short
  <2> QED
    BY <2>2, Zenon DEF q
<1>3. /\ g \in Octets /\ Len(g) = 2
      /\ g[1] = m \div 256 /\ g[2] = m % 256
  <2>1. m \in Shorts
    BY <1>1, Zenon
  <2> HIDE DEF m
  <2> QED
    BY <2>1, Short
<1>4. /\ f \in Octets /\ Len(f) = 4 * m
      /\ \A i \in 1..m, k \in 1..4 : f[4 * (i - 1) + k] = d[i][k]
  BY <1>1, Flattened
<1>5. Extension(p) = e
  BY DEF Extension
<1> HIDE DEF h, g, f, m, d
<1>6. m \in Nat
  <2>1. m \in Shorts
    BY <1>1, Zenon
  <2> QED
    BY <2>1, SMTT(30) DEF Shorts
<1>7. /\ c \in Octets /\ Len(c) = 4
      /\ c[1] = h[1] /\ c[2] = h[2] /\ c[3] = g[1] /\ c[4] = g[2]
  <2>1. /\ c \in Octets /\ Len(c) = Len(h) + Len(g)
        /\ \A i \in 1..Len(h) : c[i] = h[i]
        /\ \A j \in 1..Len(g) : c[Len(h) + j] = g[j]
    <3>1. h \in Octets /\ g \in Octets
      BY <1>2, <1>3
    <3> QED
      BY <3>1, Joined, Zenon
  <2> HIDE DEF c
  <2>2. Len(c) = 4 /\ c[1] = h[1] /\ c[2] = h[2]
    BY <1>2, <1>3, <2>1
  <2>3. c[2 + 1] = g[1] /\ c[2 + 2] = g[2]
    BY <1>2, <1>3, <2>1
  <2>4. 2 + 1 = 3 /\ 2 + 2 = 4
    OBVIOUS
  <2> QED
    BY <2>1, <2>2, <2>3, <2>4
<1> HIDE DEF c
<1>8. /\ e \in Octets /\ Len(e) = Len(c) + Len(f)
      /\ \A i \in 1..Len(c) : e[i] = c[i]
      /\ \A j \in 1..Len(f) : e[Len(c) + j] = f[j]
  BY <1>4, <1>7, Joined
<1> HIDE DEF e
<1>9. Len(e) = 4 + 4 * m
  BY <1>4, <1>7, <1>8
<1>10. e[1] = h[1] /\ e[2] = h[2] /\ e[3] = g[1] /\ e[4] = g[2]
  BY <1>7, <1>8
<1>11. ASSUME NEW i \in 1..m, NEW k \in 1..4
       PROVE  e[4 + (4 * (i - 1) + k)] = d[i][k]
  <2>1. 4 * (i - 1) + k \in 1..(4 * m)
    BY <1>6
  <2>2. \A j \in 1..(4 * m) : e[4 + j] = f[j]
    BY <1>4, <1>7, <1>8
  <2>3. f[4 * (i - 1) + k] = d[i][k]
    BY <1>4, Zenon
  <2> QED
    BY <2>1, <2>2, <2>3, Zenon
<1> QED
  BY <1>2, <1>3, <1>5, <1>8, <1>9, <1>10, <1>11, ZenonT(60) DEF m, d

\* Where to_buffer puts what follows the fixed part.
LEMMA Layout ==
  ASSUME NEW p \in Packets
  PROVE  LET b == Written(p)
             n == Len(p.csrc_list)
             e == Extension(p)
         IN  /\ b \in Octets /\ Len(b) = HeaderSize(p) + Len(p.payload)
             /\ HeaderSize(p) = 12 + 4 * n + Len(e)
             /\ n \in Nat /\ Len(e) \in Nat /\ Len(p.payload) \in Nat
             /\ \A i \in 1..12 : b[i] = FixedPart(p)[i]
             /\ \A i \in 1..n, k \in 1..4 :
                   b[12 + (4 * (i - 1) + k)] = p.csrc_list[i][k]
             /\ \A j \in 1..Len(e) : b[12 + 4 * n + j] = e[j]
             /\ \A j \in 1..Len(p.payload) : b[HeaderSize(p) + j] = p.payload[j]
<1> DEFINE n == Len(p.csrc_list)
           a == FixedPart(p)
           f == FlattenSeq(p.csrc_list)
           e == Extension(p)
           y == p.payload
           c == a \o f
           d == c \o e
           b == d \o y
<1>1. /\ p \in Fields /\ p.csrc_list \in Seq(Quads) /\ y \in Octets
  BY PacketFields DEF Fields, Octets
<1>2. a \in Octets /\ Len(a) = 12
  BY FixedLayout
<1>3. /\ f \in Octets /\ Len(f) = 4 * n
      /\ \A i \in 1..n, k \in 1..4 : f[4 * (i - 1) + k] = p.csrc_list[i][k]
  BY <1>1, Flattened
<1>4. n \in Nat
  BY <1>1, LenProperties
<1>5. /\ e \in Octets /\ Len(e) \in Nat
      /\ HeaderSize(p) = 12 + 4 * n + Len(e)
  <2>1. CASE p.extension = Nothing
    <3>1. e = <<>>
      BY <2>1 DEF Extension
    <3>2. HeaderSize(p) = 12 + 4 * n + 0
      BY <2>1 DEF HeaderSize, MINIMUM_HEADER_SIZE
    <3> QED
      BY <3>1, <3>2, EmptySeq DEF Octets
  <2>2. CASE p.extension # Nothing
    <3> DEFINE m == Len(p.extension.data)
    <3>1. e \in Octets /\ Len(e) = 4 + 4 * m
      BY <2>2, ExtensionLayout, ZenonT(60)
    <3>2. m \in Nat
      BY <2>2, PacketFields, LenProperties
    <3>3. HeaderSize(p) = 12 + 4 * n + (4 + 4 * m)
      BY <2>2 DEF HeaderSize, MINIMUM_HEADER_SIZE, MINIMUM_EXTENSION_SIZE
    <3> HIDE DEF m, n, e
    <3> QED
      BY <3>1, <3>2, <3>3
  <2> QED
    BY <2>1, <2>2
<1>6. Len(y) \in Nat
  BY <1>1, LenProperties DEF Octets
<1>7. Written(p) = b
  BY DEF Written
<1> HIDE DEF n, a, f, e, y
<1>8. /\ c \in Octets /\ Len(c) = Len(a) + Len(f)
      /\ \A i \in 1..Len(a) : c[i] = a[i]
      /\ \A j \in 1..Len(f) : c[Len(a) + j] = f[j]
  <2>1. a \in Octets /\ f \in Octets
    BY <1>2, <1>3
  <2> QED
    BY <2>1, Joined, Zenon
<1> HIDE DEF c
<1>9. /\ d \in Octets /\ Len(d) = Len(c) + Len(e)
      /\ \A i \in 1..Len(c) : d[i] = c[i]
      /\ \A j \in 1..Len(e) : d[Len(c) + j] = e[j]
  <2>1. c \in Octets /\ e \in Octets
    BY <1>5, <1>8
  <2> QED
    BY <2>1, Joined, Zenon
<1> HIDE DEF d
<1>10. /\ b \in Octets /\ Len(b) = Len(d) + Len(y)
       /\ \A i \in 1..Len(d) : b[i] = d[i]
       /\ \A j \in 1..Len(y) : b[Len(d) + j] = y[j]
  <2>1. d \in Octets /\ y \in Octets
    BY <1>1, <1>9
  <2> QED
    BY <2>1, Joined, Zenon
<1> HIDE DEF b
<1> DEFINE H == HeaderSize(p)
<1> HIDE DEF H
<1>11. H = 12 + 4 * n + Len(e)
  BY <1>5 DEF H
<1>12. Len(c) = 12 + 4 * n /\ Len(d) = H
  BY <1>2, <1>3, <1>4, <1>5, <1>8, <1>9, <1>11
<1>13. Len(b) = H + Len(y)
  BY <1>10, <1>12
<1>14. ASSUME NEW i \in 1..(12 + 4 * n) PROVE b[i] = c[i]
  <2>1. i \in 1..Len(c) /\ i \in 1..Len(d)
    BY <1>4, <1>5, <1>11, <1>12
  <2> QED
    BY <1>9, <1>10, <2>1
<1>15. ASSUME NEW i \in 1..12 PROVE b[i] = a[i]
  <2>1. i \in 1..(12 + 4 * n) /\ i \in 1..Len(a)
    BY <1>2, <1>4
  <2> QED
    BY <1>8, <1>14, <2>1
<1>16. ASSUME NEW i \in 1..n, NEW k \in 1..4
       PROVE  b[12 + (4 * (i - 1) + k)] = p.csrc_list[i][k]
  <2> DEFINE j == 4 * (i - 1) + k
  <2>1. j \in 1..(4 * n) /\ 12 + j \in 1..(12 + 4 * n)
    BY <1>4
  <2>2. f[j] = p.csrc_list[i][k]
    BY <1>3, Zenon
  <2> HIDE DEF j
  <2>3. c[12 + j] = f[j]
    BY <1>2, <1>3, <1>8, <2>1
  <2>4. b[12 + j] = c[12 + j]
    BY <1>14, <2>1
  <2>5. b[12 + j] = p.csrc_list[i][k]
    BY <2>2, <2>3, <2>4, Zenon
  <2> QED
    BY <2>5, Zenon DEF j
<1>17. ASSUME NEW j \in 1..Len(e) PROVE b[12 + 4 * n + j] = e[j]
  <2>1. 12 + 4 * n + j \in 1..Len(d)
    BY <1>4, <1>5, <1>11, <1>12
  <2>2. d[12 + 4 * n + j] = e[j]
    BY <1>9, <1>12, Zenon
  <2> QED
    BY <1>10, <2>1, <2>2, Zenon
<1>18. ASSUME NEW j \in 1..Len(y) PROVE b[H + j] = y[j]
  BY <1>10, <1>12, Zenon
<1> QED
  BY <1>4, <1>5, <1>6, <1>7, <1>10, <1>13, <1>15, <1>16, <1>17, <1>18, Zenon
     DEF n, a, e, y, H

\* A 32-bit field is read where it was written.
LEMMA WordRead ==
  ASSUME NEW c \in Octets, NEW q \in Quads, NEW at \in Nat \ {0},
         at + 3 <= Len(c),
         \A k \in 1..4 : c[at + (k - 1)] = q[k]
  PROVE  Word(c, at) = q
<1>1. Len(c) \in Nat /\ \A i \in 1..Len(c) : c[i] \in Bytes
  BY LenProperties, ElementOfSeq DEF Octets
<1>2. \A i \in at..(at + 3) : c[i] \in Bytes
  BY <1>1
<1> DEFINE w == SubSeq(c, at, at + 3)
<1>3. /\ w \in Seq(Bytes)
      /\ Len(w) = IF at <= at + 3 THEN at + 3 - at + 1 ELSE 0
      /\ \A i \in 1..(at + 3 - at + 1) : w[i] = c[at + i - 1]
  <2>1. at \in Int /\ at + 3 \in Int
    OBVIOUS
  <2> QED
    BY <1>2, <2>1, SubSeqProperties, SMTT(60)
<1> HIDE DEF w
<1>4. Len(w) = 4 /\ at + 3 - at + 1 = 4
  BY <1>3
<1>5. q \in Seq(Bytes) /\ Len(q) = 4
  BY QuadIsSeq DEF Octets
<1>6. ASSUME NEW i \in 1..4 PROVE w[i] = q[i]
  <2>1. at + i - 1 = at + (i - 1)
    OBVIOUS
  <2>2. w[i] = c[at + i - 1]
    BY <1>3, <1>4
  <2> QED
    BY <2>1, <2>2
<1>7. w = q
  BY <1>3, <1>4, <1>5, <1>6, SeqEqual, ZenonT(60)
<1> QED
  BY <1>7 DEF Word, w

\* So is a list of them.
LEMMA WordsRead ==
  ASSUME NEW c \in Octets, NEW s \in Seq(Quads), NEW before \in Nat,
         before + 4 * Len(s) <= Len(c),
         \A i \in 1..Len(s), k \in 1..4 :
            c[before + (4 * (i - 1) + k)] = s[i][k]
  PROVE  Words(c, before + 1, Len(s)) = s
<1> DEFINE n == Len(s)
<1>1. n \in Nat /\ s \in [1..n -> Quads] /\ Len(c) \in Nat
  BY LenProperties DEF Octets
<1>2. before + 4 * n <= Len(c)
  OBVIOUS
<1>3. \A i \in 1..n, k \in 1..4 : c[before + (4 * (i - 1) + k)] = s[i][k]
  OBVIOUS
<1>4. Words(c, before + 1, n) =
        [i \in 1..n |-> Word(c, before + 1 + 4 * (i - 1))]
  BY DEF Words
<1> HIDE DEF n
<1>5. ASSUME NEW i \in 1..n PROVE Word(c, before + 1 + 4 * (i - 1)) = s[i]
  <2> DEFINE at == before + 1 + 4 * (i - 1)
             q == s[i]
  <2>1. at \in Nat \ {0} /\ at + 3 <= Len(c)
    BY <1>1, <1>2
  <2>2. q \in Quads
    BY <1>1
  <2>3. ASSUME NEW k \in 1..4 PROVE c[at + (k - 1)] = q[k]
    <3>1. at + (k - 1) = before + (4 * (i - 1) + k)
      BY <1>1
    <3>2. c[before + (4 * (i - 1) + k)] = q[k]
      BY <1>3, Zenon
    <3> QED
      BY <3>1, <3>2, Zenon
  <2> HIDE DEF at, q
  <2>4. Word(c, at) = q
    BY <2>1, <2>2, <2>3, WordRead
  <2> QED
    BY <2>4, Zenon DEF at, q
<1>6. [i \in 1..n |-> Word(c, before + 1 + 4 * (i - 1))] = [i \in 1..n |-> s[i]]
  BY <1>5, Zenon
<1>7. s = [i \in 1..n |-> s[i]]
  BY <1>1, Zenon
<1>8. Words(c, before + 1, n) = s
  BY <1>4, <1>6, <1>7, Zenon
<1> QED
  BY <1>8, Zenon DEF n

LEMMA PacketRecord ==
  ASSUME NEW p \in Packets, NEW z
  PROVE  [p EXCEPT !.payload = z] =
           [padding |-> p.padding, version |-> p.version,
            payload_type |-> p.payload_type, marker |-> p.marker,
            sequence_num |-> p.sequence_num, timestamp |-> p.timestamp,
            ssrc |-> p.ssrc, csrc_list |-> p.csrc_list,
            extension |-> p.extension, payload |-> z]
<1> DEFINE Version == 0..3
           Type == 0..127
           Sources == Seq(Quads)
           Extensions == {Nothing} \cup [id : Shorts, data : Seq(Quads)]
           Payload == Seq(Bytes)
<1>1. p \in [padding : BOOLEAN, version : Version, payload_type : Type,
             marker : BOOLEAN, sequence_num : Shorts, timestamp : Quads,
             ssrc : Quads, csrc_list : Sources, extension : Extensions,
             payload : Payload]
  <2>1. p \in Fields
    BY PacketFields
  <2> QED
    BY <2>1, Zenon DEF Fields
<1> HIDE DEF Version, Type, Sources, Extensions, Payload
<1> QED
  BY <1>1

\* The first octets of a packet hold what the packet's hold.
LEMMA Cut ==
  ASSUME NEW b \in Octets, NEW a \in 0..Len(b)
  PROVE  /\ SubSeq(b, 1, a) \in Octets /\ Len(SubSeq(b, 1, a)) = a
         /\ \A i \in 1..a : SubSeq(b, 1, a)[i] = b[i]
<1>1. Len(b) \in Nat /\ \A i \in 1..Len(b) : b[i] \in Bytes
  BY LenProperties, ElementOfSeq DEF Octets
<1>2. \A i \in 1..a : b[i] \in Bytes
  BY <1>1
<1>3. 1 \in Int /\ a \in Int
  BY <1>1
<1> DEFINE w == SubSeq(b, 1, a)
<1>4. /\ w \in Seq(Bytes)
      /\ Len(w) = IF 1 <= a THEN a - 1 + 1 ELSE 0
      /\ \A i \in 1..(a - 1 + 1) : w[i] = b[1 + i - 1]
  BY <1>2, <1>3, SubSeqProperties
<1> HIDE DEF w
<1>5. Len(w) = a
  BY <1>1, <1>4
<1>6. ASSUME NEW i \in 1..a PROVE w[i] = b[i]
  <2>1. i \in 1..(a - 1 + 1) /\ 1 + i - 1 = i
    BY <1>1
  <2>2. w[i] = b[1 + i - 1]
    BY <1>4, <2>1, Zenon
  <2> QED
    BY <2>1, <2>2
<1> QED
  BY <1>4, <1>5, <1>6, Zenon DEF w, Octets

\* from_buffer of the first octets of what to_buffer wrote.
LEMMA ReadBack ==
  ASSUME NEW p \in Packets, NEW a \in 0..Len(Written(p))
  PROVE  from_buffer(SubSeq(Written(p), 1, a)) =
           IF a < HeaderSize(p) THEN Nothing
           ELSE [p EXCEPT !.payload = SubSeq(@, 1, a - HeaderSize(p))]
<1> DEFINE b == Written(p)
           c == SubSeq(b, 1, a)
           n == Len(p.csrc_list)
           e == Extension(p)
           y == p.payload
           H == HeaderSize(p)
           K == MINIMUM_HEADER_SIZE
           cc == c[1] % 16
           extended == (c[1] \div 16) % 2 = 1
           fixed == MINIMUM_HEADER_SIZE + 4 * cc
           described == fixed + MINIMUM_EXTENSION_SIZE
           words == ntohs(c, fixed + 3)
           header == IF extended THEN described + 4 * words ELSE fixed
           ext == IF ~extended THEN Nothing
                  ELSE [id |-> ntohs(c, fixed + 1),
                        data |-> Words(c, described + 1, words)]
           Refused == \/ TooShort(c, fixed)
                      \/ extended /\ TooShort(c, described)
                      \/ extended /\ TooShort(c, header)
           Parsed == [padding |-> (c[1] \div 32) % 2 = 1,
                      version |-> c[1] \div 64,
                      payload_type |-> c[2] % 128,
                      marker |-> c[2] >= 128,
                      sequence_num |-> ntohs(c, 3),
                      timestamp |-> Word(c, 5),
                      ssrc |-> Word(c, 9),
                      csrc_list |-> Words(c, 13, cc),
                      extension |-> ext,
                      payload |-> SubSeq(c, header + 1, Len(c))]
<1>1. /\ b \in Octets /\ Len(b) = H + Len(y)
      /\ H = 12 + 4 * n + Len(e)
      /\ n \in Nat /\ Len(e) \in Nat /\ Len(y) \in Nat
      /\ \A i \in 1..12 : b[i] = FixedPart(p)[i]
      /\ \A i \in 1..n, k \in 1..4 :
            b[12 + (4 * (i - 1) + k)] = p.csrc_list[i][k]
      /\ \A j \in 1..Len(e) : b[12 + 4 * n + j] = e[j]
      /\ \A j \in 1..Len(y) : b[H + j] = y[j]
  BY Layout
<1>2. /\ c \in Octets /\ Len(c) = a
      /\ \A i \in 1..a : c[i] = b[i]
  <2>1. b \in Octets /\ a \in 0..Len(b)
    BY <1>1
  <2> HIDE DEF b
  <2> QED
    BY <2>1, Cut
<1>3. a \in Nat /\ a <= Len(b) /\ Len(b) \in Nat
  <2>1. a \in 0..Len(b)
    OBVIOUS
  <2> HIDE DEF b, H, e, n, y
  <2> QED
    BY <1>1, <2>1
<1>4. from_buffer(c) = IF TooShort(c, K) THEN Nothing
                       ELSE IF Refused THEN Nothing ELSE Parsed
  BY Zenon DEF from_buffer
<1>5. K = 12 /\ MINIMUM_EXTENSION_SIZE = 4
  BY DEF MINIMUM_HEADER_SIZE, MINIMUM_EXTENSION_SIZE
<1>6. e = Extension(p) /\ H = HeaderSize(p)
  OBVIOUS
<1>7. n \in 0..15 /\ p.csrc_list \in Seq(Quads) /\ p.timestamp \in Quads
      /\ p.ssrc \in Quads /\ p.sequence_num \in Shorts
  BY PacketFields DEF Fields
<1> DEFINE Reply == IF a < H THEN Nothing
                    ELSE [p EXCEPT !.payload = SubSeq(@, 1, a - H)]
<1>8. CASE a < 12
  <2> HIDE DEF b, c, n, e, y, H, K, Parsed, Refused
  <2>1. TooShort(c, K)
    BY <1>2, <1>3, <1>5, <1>8 DEF TooShort
  <2>2. a < H
    BY <1>1, <1>3, <1>8, SMTT(30)
  <2>3. from_buffer(c) = Reply
    BY <1>4, <2>1, <2>2
  <2> QED
    BY <2>3, Zenon DEF b, c, H
<1>9. CASE ~(a < 12)
  <2>1. a >= 12
    BY <1>3, <1>9
  <2>2. /\ c[1] = FirstOctet(p) /\ c[2] = SecondOctet(p)
        /\ c[3] = p.sequence_num \div 256 /\ c[4] = p.sequence_num % 256
        /\ \A k \in 1..4 : c[4 + k] = p.timestamp[k]
        /\ \A k \in 1..4 : c[8 + k] = p.ssrc[k]
    <3> HIDE DEF b, c, n, e, y, H
    <3> DEFINE g == FixedPart(p)
    <3>1. /\ g[1] = FirstOctet(p) /\ g[2] = SecondOctet(p)
          /\ g[3] = p.sequence_num \div 256 /\ g[4] = p.sequence_num % 256
          /\ \A k \in 1..4 : g[4 + k] = p.timestamp[k]
          /\ \A k \in 1..4 : g[8 + k] = p.ssrc[k]
      BY FixedLayout
    <3> HIDE DEF g
    <3>2. ASSUME NEW i \in 1..12 PROVE c[i] = g[i]
      <4>1. i \in 1..a
        BY <1>3, <2>1
      <4> QED
        BY <1>1, <1>2, <4>1, Zenon DEF g
    <3>3. c[1] = g[1] /\ c[2] = g[2] /\ c[3] = g[3] /\ c[4] = g[4]
      BY <3>2
    <3>4. ASSUME NEW k \in 1..4 PROVE c[4 + k] = g[4 + k] /\ c[8 + k] = g[8 + k]
      <4>1. 4 + k \in 1..12 /\ 8 + k \in 1..12
        OBVIOUS
      <4> QED
        BY <3>2, <4>1, Zenon
    <3> QED
      BY <3>1, <3>3, <3>4, ZenonT(60)
  <2> HIDE DEF b, c
  <2>3. /\ cc = n
        /\ extended <=> (p.extension # Nothing)
        /\ ((c[1] \div 32) % 2 = 1) = p.padding
        /\ c[1] \div 64 = p.version
        /\ c[2] % 128 = p.payload_type
        /\ (c[2] >= 128) = p.marker
    <3>1. /\ c[1] % 16 = n
          /\ ((c[1] \div 16) % 2 = 1) = (p.extension # Nothing)
          /\ ((c[1] \div 32) % 2 = 1) = p.padding
          /\ c[1] \div 64 = p.version
      <4> DEFINE o == FirstOctet(p)
      <4>1. /\ o % 16 = n
            /\ ((o \div 16) % 2 = 1) = (p.extension # Nothing)
            /\ ((o \div 32) % 2 = 1) = p.padding
            /\ o \div 64 = p.version
        BY FirstOctetRead
      <4>2. o = c[1]
        BY <2>2, Zenon
      <4> HIDE DEF o
      <4> QED
        BY <4>1, <4>2, Zenon
    <3>2. /\ c[2] % 128 = p.payload_type
          /\ (c[2] >= 128) = p.marker
      <4> DEFINE o == SecondOctet(p)
      <4>1. o % 128 = p.payload_type /\ (o >= 128) = p.marker
        BY SecondOctetRead
      <4>2. o = c[2]
        BY <2>2, Zenon
      <4> HIDE DEF o
      <4> QED
        BY <4>1, <4>2, Zenon
    <3>3. extended <=> (p.extension # Nothing)
      BY <3>1
    <3> QED
      BY <3>1, <3>2, <3>3, Zenon
  <2>4. fixed = 12 + 4 * n /\ described = 12 + 4 * n + 4
    <3> HIDE DEF cc, n
    <3> QED
      BY <1>5, <1>7, <2>3
  <2> HIDE DEF y, K, cc, fixed, described
  <2>5. /\ Refused <=> (a < H)
        /\ ~(a < H) => header = H /\ ext = p.extension
    <3>1. CASE p.extension = Nothing
      <4>1. ~extended
        BY <2>3, <3>1, Zenon
      <4> HIDE DEF extended
      <4>2. header = fixed /\ ext = Nothing
        BY <4>1, Zenon
      <4>3. Len(e) = 0
        BY <3>1, EmptySeq DEF Extension
      <4> HIDE DEF n, e, H, header, ext
      <4>4. H = 12 + 4 * n
        BY <1>1, <4>3
      <4>5. fixed = H
        BY <2>4, <4>4
      <4>6. TooShort(c, fixed) <=> (a < H)
        BY <1>2, <4>5, Zenon DEF TooShort
      <4>7. Refused <=> (a < H)
        BY <4>1, <4>6, Zenon
      <4> QED
        BY <3>1, <4>2, <4>5, <4>7
    <3>2. CASE p.extension # Nothing
      <4> DEFINE x == p.extension
                 m == Len(x.data)
      <4>1. extended
        BY <2>3, <3>2, Zenon
      <4>2. /\ e \in Octets /\ Len(e) = 4 + 4 * m
            /\ e[1] = x.id \div 256 /\ e[2] = x.id % 256
            /\ e[3] = m \div 256 /\ e[4] = m % 256
            /\ \A i \in 1..m, k \in 1..4 : e[4 + (4 * (i - 1) + k)] = x.data[i][k]
        BY <3>2, ExtensionLayout
      <4>3. /\ x \in [id : Shorts, data : Seq(Quads)]
            /\ x.id \in Shorts /\ x.data \in Seq(Quads) /\ m \in Shorts
        <5>1. x \in {Nothing} \cup [id : Shorts, data : Seq(Quads)]
          BY PacketFields DEF Fields
        <5> QED
          BY <3>2, <5>1, PacketFields, Zenon
      <4>4. m \in Nat
        <5>1. m \in Shorts
          BY <4>3, Zenon
        <5> HIDE DEF m
        <5> QED
          BY <5>1, SMTT(30) DEF Shorts
      <4> HIDE DEF extended, e, H, m, n
      <4>5. H = described + 4 * m
        BY <1>1, <1>7, <2>4, <4>2, <4>4
      <4>6. header = described + 4 * words
        BY <4>1, Zenon
      <4>7. ext = [id |-> ntohs(c, fixed + 1),
                   data |-> Words(c, described + 1, words)]
        BY <4>1, Zenon
      <4>8. Refused <=> (a < fixed \/ a < described \/ a < header)
        <5> HIDE DEF header
        <5> QED
          BY <1>2, <4>1, Zenon DEF TooShort
      <4> HIDE DEF header, ext, Refused
      <4>9. CASE a < described
        <5>1. a < H
          BY <1>3, <1>7, <2>4, <4>4, <4>5, <4>9
        <5> QED
          BY <4>8, <4>9, <5>1, Zenon
      <4>10. CASE ~(a < described)
        <5>1. ~(a < fixed) /\ described <= a /\ fixed \in Nat
              /\ described = fixed + 4
          BY <1>3, <1>7, <2>4, <4>10
        <5>2. ASSUME NEW j \in 1..4 PROVE c[fixed + j] = e[j]
          <6>1. fixed + j \in 1..a /\ fixed + j = 12 + 4 * n + j
            BY <1>3, <2>4, <5>1
          <6>2. j \in 1..Len(e)
            <7>1. Len(e) = 4 + 4 * m
              BY <4>2, Zenon
            <7> QED
              BY <4>4, <7>1
          <6> QED
            BY <1>1, <1>2, <6>1, <6>2, Zenon
        <5>3. c[fixed + 1] = e[1] /\ c[fixed + 2] = e[2]
              /\ c[fixed + 3] = e[3] /\ c[fixed + 4] = e[4]
          BY <5>2
        <5>4. words = m
          <6>1. words = c[fixed + 3] * 256 + c[fixed + 3 + 1]
            BY DEF ntohs
          <6>2. fixed + 3 + 1 = fixed + 4
            BY <5>1
          <6>3. words = (m \div 256) * 256 + (m % 256)
            <7>1. c[fixed + 3] = m \div 256 /\ c[fixed + 4] = m % 256
              BY <4>2, <5>3, ZenonT(60)
            <7> HIDE DEF words
            <7> QED
              BY <6>1, <6>2, <7>1, ZenonT(60)
          <6>4. (m \div 256) * 256 + (m % 256) = m
            BY <4>3, Short, ZenonT(60)
          <6> QED
            BY <6>3, <6>4, Zenon
        <5>5. ntohs(c, fixed + 1) = x.id
          <6>1. ntohs(c, fixed + 1) = c[fixed + 1] * 256 + c[fixed + 1 + 1]
            BY DEF ntohs
          <6>2. fixed + 1 + 1 = fixed + 2
            BY <5>1
          <6>3. ntohs(c, fixed + 1) = (x.id \div 256) * 256 + (x.id % 256)
            <7>1. c[fixed + 1] = x.id \div 256 /\ c[fixed + 2] = x.id % 256
              BY <4>2, <5>3, Zenon
            <7> QED
              BY <6>1, <6>2, <7>1, ZenonT(60)
          <6>4. (x.id \div 256) * 256 + (x.id % 256) = x.id
            BY <4>3, Short, ZenonT(60)
          <6> QED
            BY <6>3, <6>4, Zenon
        <5> HIDE DEF words
        <5>6. header = H
          BY <4>5, <4>6, <5>4, Zenon
        <5>7. Refused <=> (a < H)
          BY <4>8, <4>10, <5>1, <5>6, Zenon
        <5>8. ASSUME ~(a < H) PROVE ext = x
          <6>1. described + 4 * m <= Len(c) /\ described \in Nat
            <7>1. a >= H /\ H \in Int
              BY <1>3, <4>4, <4>5, <5>1, <5>8
            <7> QED
              BY <1>2, <4>5, <5>1, <7>1
          <6>2. ASSUME NEW i \in 1..m, NEW k \in 1..4
                PROVE  c[described + (4 * (i - 1) + k)] = x.data[i][k]
            <7> DEFINE j == 4 + (4 * (i - 1) + k)
                       l == described + (4 * (i - 1) + k)
            <7>1. j \in 1..Len(e) /\ l = 12 + 4 * n + j /\ l \in 1..Len(c)
              BY <1>7, <2>4, <4>2, <4>4, <6>1
            <7>2. e[j] = x.data[i][k]
              BY <4>2, ZenonT(60)
            <7> HIDE DEF j, l
            <7>3. c[l] = e[j]
              BY <1>1, <1>2, <7>1, Zenon
            <7>4. c[l] = x.data[i][k]
              BY <7>2, <7>3, Zenon
            <7> QED
              BY <7>4, Zenon DEF l
          <6>3. Words(c, described + 1, m) = x.data
            <7> DEFINE d == x.data
            <7>1. /\ d \in Seq(Quads) /\ m = Len(d) /\ c \in Octets
                  /\ \A i \in 1..Len(d), k \in 1..4 :
                        c[described + (4 * (i - 1) + k)] = d[i][k]
              BY <1>2, <4>3, <6>2, Zenon DEF m
            <7> HIDE DEF d
            <7>2. described + 4 * Len(d) <= Len(c)
              BY <6>1, <7>1, Zenon
            <7>3. Words(c, described + 1, Len(d)) = d
              BY <6>1, <7>1, <7>2, WordsRead
            <7> QED
              BY <7>1, <7>3, Zenon DEF d
          <6>4. ext = [id |-> x.id, data |-> x.data]
            BY <4>7, <5>4, <5>5, <6>3, Zenon
          <6>5. x = [id |-> x.id, data |-> x.data]
            <7> DEFINE Datas == Seq(Quads)
            <7>1. x \in [id : Shorts, data : Datas]
              BY <4>3, Zenon
            <7> HIDE DEF x, Datas
            <7> QED
              BY <7>1
          <6> QED
            BY <6>4, <6>5, Zenon
        <5> QED
          BY <5>6, <5>7, <5>8, Zenon
      <4> QED
        BY <4>9, <4>10
    <3> QED
      BY <3>1, <3>2
  <2>6. ~TooShort(c, K)
    BY <1>2, <1>5, <1>9, Zenon DEF TooShort
  <2>7. CASE a < H
    <3> HIDE DEF Parsed, Refused, H
    <3>1. from_buffer(c) = Reply
      BY <1>4, <2>5, <2>6, <2>7, Zenon
    <3> QED
      BY <3>1, Zenon DEF b, c, H
  <2>8. CASE ~(a < H)
    <3>1. header = H /\ ext = p.extension /\ ~Refused
      BY <2>5, <2>8, Zenon
    <3>2. from_buffer(c) = Parsed
      <4> HIDE DEF Parsed, Refused
      <4> QED
        BY <1>4, <2>6, <3>1, Zenon
    <3>3. ntohs(c, 3) = p.sequence_num
      <4>1. ntohs(c, 3) = c[3] * 256 + c[4]
        <5>1. 3 + 1 = 4
          OBVIOUS
        <5> QED
          BY <5>1, Zenon DEF ntohs
      <4> DEFINE q == p.sequence_num
      <4>2. q \in Shorts
        BY <1>7, Zenon
      <4>3. (q \div 256) * 256 + (q % 256) = q
        BY <4>2, Short, ZenonT(60)
      <4>4. c[3] = q \div 256 /\ c[4] = q % 256
        BY <2>2, Zenon
      <4> QED
        BY <4>1, <4>3, <4>4, ZenonT(60)
    <3>4. Word(c, 5) = p.timestamp /\ Word(c, 9) = p.ssrc
      <4> DEFINE t == p.timestamp
                 u == p.ssrc
      <4>1. t \in Quads /\ u \in Quads /\ c \in Octets
        BY <1>2, <1>7
      <4>2. 5 + 3 <= Len(c) /\ 9 + 3 <= Len(c)
        BY <1>2, <1>3, <2>1
      <4>3. \A k \in 1..4 : c[4 + k] = t[k] /\ c[8 + k] = u[k]
        BY <2>2, Zenon
      <4> HIDE DEF t, u
      <4>4. ASSUME NEW k \in 1..4
            PROVE  c[5 + (k - 1)] = t[k] /\ c[9 + (k - 1)] = u[k]
        <5>1. 5 + (k - 1) = 4 + k /\ 9 + (k - 1) = 8 + k
          OBVIOUS
        <5> QED
          BY <4>3, <5>1, Zenon
      <4>5. Word(c, 5) = t /\ Word(c, 9) = u
        BY <4>1, <4>2, <4>4, WordRead
      <4> QED
        BY <4>5, Zenon DEF t, u
    <3>5. Words(c, 13, cc) = p.csrc_list
      <4> DEFINE s == p.csrc_list
      <4> HIDE DEF s
      <4>1. s \in Seq(Quads) /\ n = Len(s) /\ c \in Octets
        BY <1>2, <1>7, Zenon DEF s
      <4> HIDE DEF n, e, H
      <4>2. 12 + 4 * Len(s) <= Len(c) /\ Len(s) \in Nat /\ Len(c) = a
        <5>1. H = 12 + 4 * n + Len(e) /\ n \in Nat /\ Len(e) \in Nat
          BY <1>1, Zenon
        <5>2. 12 + 4 * n <= a
          BY <1>3, <2>8, <5>1
        <5> QED
          BY <1>2, <4>1, <5>1, <5>2, Zenon
      <4>3. ASSUME NEW i \in 1..Len(s), NEW k \in 1..4
            PROVE  c[12 + (4 * (i - 1) + k)] = s[i][k]
        <5> DEFINE j == 12 + (4 * (i - 1) + k)
        <5>1. b[j] = s[i][k]
          BY <1>1, <4>1, Zenon DEF s
        <5>2. j \in 1..a
          BY <1>3, <4>2
        <5> HIDE DEF j
        <5>3. c[j] = s[i][k]
          BY <1>2, <5>1, <5>2, Zenon
        <5> QED
          BY <5>3, Zenon DEF j
      <4>4. Words(c, 12 + 1, Len(s)) = s
        BY <4>1, <4>2, <4>3, WordsRead, ZenonT(60)
      <4>5. 12 + 1 = 13
        OBVIOUS
      <4> QED
        BY <2>3, <4>1, <4>4, <4>5, Zenon DEF s
    <3>6. SubSeq(c, header + 1, Len(c)) = SubSeq(p.payload, 1, a - H)
      <4> HIDE DEF n, e, H, header
      <4>0. y \in Seq(Bytes) /\ y = p.payload
        BY PacketFields DEF Fields, y
      <4>1. H \in Nat /\ a - H \in 0..Len(y)
        BY <1>1, <1>3, <2>8, SMTT(30)
      <4> DEFINE z == SubSeq(y, 1, a - H)
                 w == SubSeq(c, H + 1, a)
      <4>2. /\ z \in Octets /\ Len(z) = a - H
            /\ \A i \in 1..(a - H) : z[i] = y[i]
        BY <4>0, <4>1, Cut DEF Octets
      <4>3. \A i \in (H + 1)..a : c[i] \in Bytes
        <5>1. \A i \in 1..Len(c) : c[i] \in Bytes
          BY <1>2, ElementOfSeq DEF Octets
        <5> QED
          BY <1>2, <1>3, <4>1, <5>1
      <4>4. /\ w \in Seq(Bytes)
            /\ Len(w) = IF H + 1 <= a THEN a - (H + 1) + 1 ELSE 0
            /\ \A i \in 1..(a - (H + 1) + 1) : w[i] = c[H + 1 + i - 1]
        <5>1. H + 1 \in Int /\ a \in Int
          BY <1>3, <4>1
        <5> QED
          BY <4>3, <5>1, SubSeqProperties
      <4> HIDE DEF z, w
      <4>5. Len(w) = a - H
        BY <1>3, <4>1, <4>4
      <4>6. ASSUME NEW i \in 1..(a - H) PROVE w[i] = z[i]
        <5>1. /\ i \in 1..(a - (H + 1) + 1) /\ H + 1 + i - 1 = H + i
              /\ H + i \in 1..a /\ i \in 1..Len(y)
          BY <1>3, <4>1
        <5>2. w[i] = c[H + i]
          BY <4>4, <5>1, Zenon
        <5>3. c[H + i] = y[i]
          BY <1>1, <1>2, <5>1, Zenon
        <5> QED
          BY <4>2, <5>2, <5>3, Zenon
      <4>7. w = z
        BY <4>2, <4>4, <4>5, <4>6, SeqEqual DEF Octets
      <4> QED
        BY <1>2, <3>1, <4>0, <4>7, Zenon DEF w, z
    <3> DEFINE v == SubSeq(p.payload, 1, a - H)
    <3> HIDE DEF cc, header, ext, extended
    <3>7. Parsed = [padding |-> p.padding, version |-> p.version,
                    payload_type |-> p.payload_type, marker |-> p.marker,
                    sequence_num |-> p.sequence_num,
                    timestamp |-> p.timestamp,
                    ssrc |-> p.ssrc, csrc_list |-> p.csrc_list,
                    extension |-> p.extension, payload |-> v]
      BY <2>3, <3>1, <3>3, <3>4, <3>5, <3>6, Zenon
    <3>8. Parsed = [p EXCEPT !.payload = v]
      <4> HIDE DEF Parsed, v
      <4> QED
        BY <3>7, PacketRecord, Zenon
    <3>9. from_buffer(c) = [p EXCEPT !.payload = SubSeq(@, 1, a - H)]
      <4> HIDE DEF Parsed, H
      <4> QED
        BY <3>2, <3>8, Zenon
    <3> QED
      BY <2>8, <3>9, Zenon DEF b, c
  <2> QED
    BY <2>7, <2>8
<1> QED
  BY <1>8, <1>9

\* A packet is one an RTPPacket can hold; one that was written is what
\* to_buffer made of it, and one that was read is what from_buffer made of
\* the octets that arrived.
PacketInv ==
    tool = "rtp" =>
        /\ item \in Packets
        /\ stage \in {"in", "refused", "written", "read"}
        /\ stage = "written" => out = Written(item)
        /\ stage = "read" =>
             /\ arrived \in 0..Len(Written(item))
             /\ out = from_buffer(SubSeq(Written(item), 1, arrived))

LEMMA SourceAdded ==
  ASSUME NEW p \in Packets, NEW ssrc \in Quads, Len(p.csrc_list) < MaxSources
  PROVE  add_ssrc(p, ssrc) \in Packets
<1> DEFINE q == add_ssrc(p, ssrc)
           s == p.csrc_list
           Version == 0..3
           Type == 0..127
           Sources == Seq(Quads)
           Extensions == {Nothing} \cup [id : Shorts, data : Seq(Quads)]
           Payload == Seq(Bytes)
           F == [padding : BOOLEAN, version : Version, payload_type : Type,
                 marker : BOOLEAN, sequence_num : Shorts, timestamp : Quads,
                 ssrc : Quads, csrc_list : Sources, extension : Extensions,
                 payload : Payload]
<1>1. p \in F /\ (p.extension # Nothing => Len(p.extension.data) \in Shorts)
  BY Zenon DEF Packets
<1>2. s \in Seq(Quads) /\ p.ssrc \in Quads
  BY <1>1
<1>3. /\ Append(s, p.ssrc) \in Sources
      /\ Len(Append(s, p.ssrc)) = Len(s) + 1 /\ Len(s) \in Nat
  BY <1>2, AppendProperties, LenProperties
<1>4. q = [p EXCEPT !.csrc_list = Append(s, p.ssrc), !.ssrc = ssrc]
  BY Zenon DEF add_ssrc
<1> DEFINE r == Append(s, p.ssrc)
<1>5. Len(r) <= MaxSources
  <2> DEFINE l == Len(s)
  <2>1. l \in Nat /\ Len(r) = l + 1 /\ l < MaxSources
    BY <1>3
  <2> HIDE DEF l, r
  <2> QED
    BY <2>1, SourceAssumption
<1> HIDE DEF r, q, Version, Type, Sources, Extensions, Payload
<1>6. q \in F /\ q.csrc_list = r /\ q.extension = p.extension
  <2>1. r \in Sources /\ q = [p EXCEPT !.csrc_list = r, !.ssrc = ssrc]
    BY <1>3, <1>4, Zenon DEF r
  <2> QED
    BY <1>1, <2>1
<1>7. /\ Len(q.csrc_list) <= MaxSources
      /\ q.extension # Nothing => Len(q.extension.data) \in Shorts
  BY <1>1, <1>5, <1>6, Zenon
<1> QED
  BY <1>6, <1>7, Zenon DEF Packets, q, Version, Type, Sources, Extensions, Payload

\* RTPPacket::to_buffer and from_buffer: for packets with any sources,
\* extension and payload that the fields can hold, from_buffer reads back what
\* to_buffer wrote, and refuses exactly the packets whose header was cut.
THEOREM PacketsSurvive == Spec => []PacketSurvives
<1>1. Init => PacketInv
  <2> SUFFICES ASSUME Init, tool = "rtp" PROVE item \in Packets /\ stage = "in"
    BY DEF PacketInv
  <2>1. item \in PacketSet /\ stage = "in"
    BY DEF Init
  <2> QED
    BY <2>1, PacketAssumption
<1>2. PacketInv /\ [Next]_vars => PacketInv'
  <2> SUFFICES ASSUME PacketInv, [Next]_vars, tool' = "rtp"
               PROVE  PacketInv'
    BY DEF PacketInv
  <2>1. CASE encode_alaw \/ decode_alaw \/ OpenWav \/ ShiftSample
    BY <2>1 DEF encode_alaw, decode_alaw, OpenWav, ShiftSample
  <2>2. ASSUME NEW ssrc \in Mixers, AddSource(ssrc) PROVE PacketInv'
    <3>1. item \in Packets /\ Len(item.csrc_list) < MaxSources
          /\ item' = add_ssrc(item, ssrc) /\ stage' = "in" /\ ssrc \in Quads
      BY <2>2, PacketAssumption DEF AddSource, PacketInv
    <3>2. item' \in Packets
      BY <3>1, SourceAdded
    <3> QED
      BY <3>1, <3>2 DEF PacketInv
  <2>3. ASSUME NEW size \in BufferSizes, WritePacket(size) PROVE PacketInv'
    <3>1. /\ item \in Packets /\ item' = item
          /\ out' = to_buffer(item, size)
          /\ stage' = IF out' = Nothing THEN "refused" ELSE "written"
      BY <2>3 DEF WritePacket, PacketInv
    <3>2. to_buffer(item, size) \in {Nothing, Written(item)}
      BY Zenon DEF to_buffer, Written, FixedPart, Extension
    <3> QED
      BY <3>1, <3>2 DEF PacketInv
  <2>4. CASE ReadPacket
    <3>1. /\ item \in Packets /\ item' = item /\ stage' = "read"
          /\ out = Written(item)
          /\ arrived' \in 0..Len(out)
          /\ out' = from_buffer(SubSeq(out, 1, arrived'))
      BY <2>4 DEF ReadPacket, PacketInv
    <3> QED
      BY <3>1 DEF PacketInv
  <2>5. CASE UNCHANGED vars
    BY <2>5 DEF vars, PacketInv
  <2> QED
    BY <2>1, <2>2, <2>3, <2>4, <2>5 DEF Next
<1>3. PacketInv => PacketSurvives
  <2> SUFFICES ASSUME PacketInv, tool = "rtp", stage = "read"
               PROVE  IF arrived < HeaderSize(item) THEN out = Nothing
                      ELSE out = [item EXCEPT !.payload =
                                    SubSeq(@, 1, arrived - HeaderSize(item))]
    BY Zenon DEF PacketSurvives
  <2>1. /\ item \in Packets /\ arrived \in 0..Len(Written(item))
        /\ out = from_buffer(SubSeq(Written(item), 1, arrived))
    BY DEF PacketInv
  <2>2. out = IF arrived < HeaderSize(item) THEN Nothing
              ELSE [item EXCEPT !.payload =
                      SubSeq(@, 1, arrived - HeaderSize(item))]
    BY <2>1, ReadBack, Zenon
  <2> QED
    BY <2>2, Zenon
<1> QED
  BY <1>1, <1>2, <1>3, PTL DEF Spec

-----------------------------------------------------------------------------
(* The A-law codec: an interval of magnitudes is one octet.                *)

Codes == 0..127

LEMMA Toggled ==
  ASSUME NEW b \in Codes
  PROVE  /\ ToggleEven(b) \in Codes
         /\ ToggleEven(ToggleEven(b)) = b
         /\ ToggleEven(ToggleEven(b) + 128) = b + 128
<1> USE DEF Codes
<1> DEFINE B(n, w) == (n \div w) % 2
<1>1. PICK b0 \in 0..1, b1 \in 0..1, b2 \in 0..1, b3 \in 0..1,
           b4 \in 0..1, b5 \in 0..1, b6 \in 0..1 :
        b = b0 + 2 * b1 + 4 * b2 + 8 * b3 + 16 * b4 + 32 * b5 + 64 * b6
  <2> WITNESS B(b, 1) \in 0..1, B(b, 2) \in 0..1, B(b, 4) \in 0..1,
              B(b, 8) \in 0..1, B(b, 16) \in 0..1, B(b, 32) \in 0..1,
              B(b, 64) \in 0..1
  <2> QED
    OBVIOUS
<1>2. ASSUME NEW c0 \in 0..1, NEW c1 \in 0..1, NEW c2 \in 0..1, NEW c3 \in 0..1,
             NEW c4 \in 0..1, NEW c5 \in 0..1, NEW c6 \in 0..1, NEW c7 \in 0..1
      PROVE  ToggleEven(c0 + 2 * c1 + 4 * c2 + 8 * c3 + 16 * c4 + 32 * c5
                        + 64 * c6 + 128 * c7)
               = (1 - c0) + 2 * c1 + 4 * (1 - c2) + 8 * c3 + 16 * (1 - c4)
                 + 32 * c5 + 64 * (1 - c6) + 128 * c7
  <2> DEFINE n == c0 + 2 * c1 + 4 * c2 + 8 * c3 + 16 * c4 + 32 * c5
                        + 64 * c6 + 128 * c7
  <2>1. (n \div 1) % 2 = c0
    OBVIOUS
  <2>2. (n \div 4) % 2 = c2
    OBVIOUS
  <2>3. (n \div 16) % 2 = c4
    OBVIOUS
  <2>4. (n \div 64) % 2 = c6
    OBVIOUS
  <2> QED
    BY <2>1, <2>2, <2>3, <2>4 DEF ToggleEven, Toggle
<1> DEFINE d0 == 1 - b0
           d2 == 1 - b2
           d4 == 1 - b4
           d6 == 1 - b6
<1>3. /\ d0 \in 0..1 /\ d2 \in 0..1 /\ d4 \in 0..1 /\ d6 \in 0..1
      /\ 1 - d0 = b0 /\ 1 - d2 = b2 /\ 1 - d4 = b4 /\ 1 - d6 = b6
  OBVIOUS
<1>4. ToggleEven(b) = d0 + 2 * b1 + 4 * d2 + 8 * b3 + 16 * d4 + 32 * b5 + 64 * d6
  BY <1>1, <1>2
<1> HIDE DEF d0, d2, d4, d6
<1> QED
  BY <1>1, <1>2, <1>3, <1>4

\* The magnitudes, the width of a step, the first magnitude and the sample step q of segment s
\* decodes to.
Magnitudes == 0..32767
Width(s) == PowerOfTwo[PcmShift(s)]
First(s) == IF s = 0 THEN 0 ELSE 16 * Width(s)
Value(s, q) ==
    LET base == q * 16 + IF s = 0 THEN 8 ELSE 264
    IN  IF s > 1 THEN base * PowerOfTwo[s - 1] ELSE base

LEMMA Widths ==
  /\ Width(0) = 16 /\ Width(1) = 16 /\ Width(2) = 32 /\ Width(3) = 64
  /\ Width(4) = 128 /\ Width(5) = 256 /\ Width(6) = 512 /\ Width(7) = 1024
BY DEF Width, PcmShift, PowerOfTwo

LEMMA WidthIsNat ==
  ASSUME NEW s \in 0..7
  PROVE  Width(s) \in Nat /\ First(s) \in Nat
<1>1. CASE s = 0
  BY <1>1, Widths DEF First
<1>2. CASE s = 1
  BY <1>2, Widths DEF First
<1>3. CASE s = 2
  BY <1>3, Widths DEF First
<1>4. CASE s = 3
  BY <1>4, Widths DEF First
<1>5. CASE s = 4
  BY <1>5, Widths DEF First
<1>6. CASE s = 5
  BY <1>6, Widths DEF First
<1>7. CASE s = 6
  BY <1>7, Widths DEF First
<1>8. CASE s = 7
  BY <1>8, Widths DEF First
<1> QED
  BY <1>1, <1>2, <1>3, <1>4, <1>5, <1>6, <1>7, <1>8

\* A segment is the numbers between two edges.
LEMMA SegmentOf ==
  ASSUME NEW n \in Int, NEW s \in 0..7, n < First(s) + 16 * Width(s),
         s = 0 \/ First(s) <= n
  PROVE  Segment(n) = s
<1> DEFINE P(r) == /\ n <= SEGMENT_EDGES[r + 1]
                   /\ \A t \in 0..(r - 1) : n > SEGMENT_EDGES[t + 1]
<1>1. /\ SEGMENT_EDGES[1] = 255 /\ SEGMENT_EDGES[2] = 511
      /\ SEGMENT_EDGES[3] = 1023 /\ SEGMENT_EDGES[4] = 2047
      /\ SEGMENT_EDGES[5] = 4095 /\ SEGMENT_EDGES[6] = 8191
      /\ SEGMENT_EDGES[7] = 16383 /\ SEGMENT_EDGES[8] = 32767
  BY DEF SEGMENT_EDGES
<1>2. /\ n <= SEGMENT_EDGES[s + 1]
      /\ s > 0 => n > SEGMENT_EDGES[s]
  BY <1>1, Widths DEF First
<1>3. ASSUME NEW t \in 0..7, NEW r \in 0..7, t <= r
      PROVE  SEGMENT_EDGES[t + 1] <= SEGMENT_EDGES[r + 1]
  <2>1. CASE r = 0
    <3>1. \A u \in 0..0 : SEGMENT_EDGES[u + 1] <= SEGMENT_EDGES[1]
      BY <1>1
    <3> QED
      BY <1>3, <2>1, <3>1
  <2>2. CASE r = 1
    <3>1. \A u \in 0..1 : SEGMENT_EDGES[u + 1] <= SEGMENT_EDGES[2]
      BY <1>1
    <3> QED
      BY <1>3, <2>2, <3>1
  <2>3. CASE r = 2
    <3>1. \A u \in 0..2 : SEGMENT_EDGES[u + 1] <= SEGMENT_EDGES[3]
      BY <1>1
    <3> QED
      BY <1>3, <2>3, <3>1
  <2>4. CASE r = 3
    <3>1. \A u \in 0..3 : SEGMENT_EDGES[u + 1] <= SEGMENT_EDGES[4]
      BY <1>1
    <3> QED
      BY <1>3, <2>4, <3>1
  <2>5. CASE r = 4
    <3>1. \A u \in 0..4 : SEGMENT_EDGES[u + 1] <= SEGMENT_EDGES[5]
      BY <1>1
    <3> QED
      BY <1>3, <2>5, <3>1
  <2>6. CASE r = 5
    <3>1. \A u \in 0..5 : SEGMENT_EDGES[u + 1] <= SEGMENT_EDGES[6]
      BY <1>1
    <3> QED
      BY <1>3, <2>6, <3>1
  <2>7. CASE r = 6
    <3>1. \A u \in 0..6 : SEGMENT_EDGES[u + 1] <= SEGMENT_EDGES[7]
      BY <1>1
    <3> QED
      BY <1>3, <2>7, <3>1
  <2>8. CASE r = 7
    <3>1. \A u \in 0..7 : SEGMENT_EDGES[u + 1] <= SEGMENT_EDGES[8]
      BY <1>1
    <3> QED
      BY <1>3, <2>8, <3>1
  <2> QED
    BY <2>1, <2>2, <2>3, <2>4, <2>5, <2>6, <2>7, <2>8
<1>4. P(s)
  <2> SUFFICES ASSUME NEW t \in 0..(s - 1) PROVE n > SEGMENT_EDGES[t + 1]
    BY <1>2
  <2>1. SEGMENT_EDGES[t + 1] <= SEGMENT_EDGES[(s - 1) + 1]
    BY <1>3
  <2> QED
    BY <1>1, <1>2, <2>1
<1>5. \A r \in 0..7 : P(r) => r = s
  <2> SUFFICES ASSUME NEW r \in 0..7, P(r), r # s PROVE FALSE
    OBVIOUS
  <2>1. CASE s < r
    <3>1. n > SEGMENT_EDGES[s + 1]
      BY <2>1
    <3> QED
      BY <1>1, <1>2, <3>1
  <2>2. CASE r < s
    <3>1. n > SEGMENT_EDGES[r + 1]
      BY <1>4, <2>2
    <3> QED
      BY <1>1, <3>1
  <2> QED
    BY <2>1, <2>2
<1> HIDE DEF P
<1>6. Segment(n) = CHOOSE r \in 0..7 : P(r)
  BY DEF Segment, SEGMENT_COUNT, P
<1> QED
  BY <1>4, <1>5, <1>6

\* Every magnitude lies in a step of a segment.
LEMMA StepOf ==
  ASSUME NEW n \in Magnitudes
  PROVE  \E s \in 0..7, q \in 0..15 :
           First(s) + q * Width(s) <= n /\ n < First(s) + (q + 1) * Width(s)
<1> USE DEF Magnitudes
<1>1. ASSUME NEW s \in 0..7, First(s) <= n, n < First(s) + 16 * Width(s)
      PROVE  \E q \in 0..15 :
               First(s) + q * Width(s) <= n /\ n < First(s) + (q + 1) * Width(s)
  <2>1. CASE s = 0
    <3> DEFINE c == (n - 0) \div 16
    <3>1. c \in 0..15 /\ 0 + c * 16 <= n /\ n < 0 + (c + 1) * 16
      BY <1>1, <2>1, Widths DEF First
    <3> HIDE DEF c
    <3> QED
      BY <2>1, <3>1, Widths DEF First
  <2>2. CASE s = 1
    <3> DEFINE c == (n - 256) \div 16
    <3>1. c \in 0..15 /\ 256 + c * 16 <= n /\ n < 256 + (c + 1) * 16
      BY <1>1, <2>2, Widths DEF First
    <3> HIDE DEF c
    <3> QED
      BY <2>2, <3>1, Widths DEF First
  <2>3. CASE s = 2
    <3> DEFINE c == (n - 512) \div 32
    <3>1. c \in 0..15 /\ 512 + c * 32 <= n /\ n < 512 + (c + 1) * 32
      BY <1>1, <2>3, Widths DEF First
    <3> HIDE DEF c
    <3> QED
      BY <2>3, <3>1, Widths DEF First
  <2>4. CASE s = 3
    <3> DEFINE c == (n - 1024) \div 64
    <3>1. c \in 0..15 /\ 1024 + c * 64 <= n /\ n < 1024 + (c + 1) * 64
      BY <1>1, <2>4, Widths DEF First
    <3> HIDE DEF c
    <3> QED
      BY <2>4, <3>1, Widths DEF First
  <2>5. CASE s = 4
    <3> DEFINE c == (n - 2048) \div 128
    <3>1. c \in 0..15 /\ 2048 + c * 128 <= n /\ n < 2048 + (c + 1) * 128
      BY <1>1, <2>5, Widths DEF First
    <3> HIDE DEF c
    <3> QED
      BY <2>5, <3>1, Widths DEF First
  <2>6. CASE s = 5
    <3> DEFINE c == (n - 4096) \div 256
    <3>1. c \in 0..15 /\ 4096 + c * 256 <= n /\ n < 4096 + (c + 1) * 256
      BY <1>1, <2>6, Widths DEF First
    <3> HIDE DEF c
    <3> QED
      BY <2>6, <3>1, Widths DEF First
  <2>7. CASE s = 6
    <3> DEFINE c == (n - 8192) \div 512
    <3>1. c \in 0..15 /\ 8192 + c * 512 <= n /\ n < 8192 + (c + 1) * 512
      BY <1>1, <2>7, Widths DEF First
    <3> HIDE DEF c
    <3> QED
      BY <2>7, <3>1, Widths DEF First
  <2>8. CASE s = 7
    <3> DEFINE c == (n - 16384) \div 1024
    <3>1. c \in 0..15 /\ 16384 + c * 1024 <= n /\ n < 16384 + (c + 1) * 1024
      BY <1>1, <2>8, Widths DEF First
    <3> HIDE DEF c
    <3> QED
      BY <2>8, <3>1, Widths DEF First
  <2> QED
    BY <2>1, <2>2, <2>3, <2>4, <2>5, <2>6, <2>7, <2>8
<1>2. \E s \in 0..7 : First(s) <= n /\ n < First(s) + 16 * Width(s)
  <2>0. \/ n < 256
        \/ 256 <= n /\ n < 512
        \/ 512 <= n /\ n < 1024
        \/ 1024 <= n /\ n < 2048
        \/ 2048 <= n /\ n < 4096
        \/ 4096 <= n /\ n < 8192
        \/ 8192 <= n /\ n < 16384
        \/ 16384 <= n /\ n < 32768
    OBVIOUS
  <2>1. CASE n < 256
    BY <2>1, Widths DEF First
  <2>2. CASE 256 <= n /\ n < 512
    BY <2>2, Widths DEF First
  <2>3. CASE 512 <= n /\ n < 1024
    BY <2>3, Widths DEF First
  <2>4. CASE 1024 <= n /\ n < 2048
    BY <2>4, Widths DEF First
  <2>5. CASE 2048 <= n /\ n < 4096
    BY <2>5, Widths DEF First
  <2>6. CASE 4096 <= n /\ n < 8192
    BY <2>6, Widths DEF First
  <2>7. CASE 8192 <= n /\ n < 16384
    BY <2>7, Widths DEF First
  <2>8. CASE 16384 <= n /\ n < 32768
    BY <2>8, Widths DEF First
  <2> QED
    BY <2>0, <2>1, <2>2, <2>3, <2>4, <2>5, <2>6, <2>7, <2>8
<1> QED
  BY <1>1, <1>2

\* The step is what the quantization bits say.
LEMMA Quantized ==
  ASSUME NEW s \in 0..7, NEW q \in 0..15, NEW n \in Int,
         First(s) + q * Width(s) <= n, n < First(s) + (q + 1) * Width(s)
  PROVE  Segment(n) = s /\ (n \div Width(s)) % QUANT = q
<1>1. (n \div Width(s)) % 16 = q
  <2>1. CASE s = 0
    <3>1. Width(s) = 16 /\ 0 + q * 16 <= n /\ n < 0 + (q + 1) * 16
      BY <2>1, Widths DEF First
    <3>2. (n \div 16) % 16 = q
      BY <3>1
    <3> QED
      BY <3>1, <3>2
  <2>2. CASE s = 1
    <3>1. Width(s) = 16 /\ 256 + q * 16 <= n /\ n < 256 + (q + 1) * 16
      BY <2>2, Widths DEF First
    <3>2. (n \div 16) % 16 = q
      BY <3>1
    <3> QED
      BY <3>1, <3>2
  <2>3. CASE s = 2
    <3>1. Width(s) = 32 /\ 512 + q * 32 <= n /\ n < 512 + (q + 1) * 32
      BY <2>3, Widths DEF First
    <3>2. (n \div 32) % 16 = q
      BY <3>1
    <3> QED
      BY <3>1, <3>2
  <2>4. CASE s = 3
    <3>1. Width(s) = 64 /\ 1024 + q * 64 <= n /\ n < 1024 + (q + 1) * 64
      BY <2>4, Widths DEF First
    <3>2. (n \div 64) % 16 = q
      BY <3>1
    <3> QED
      BY <3>1, <3>2
  <2>5. CASE s = 4
    <3>1. Width(s) = 128 /\ 2048 + q * 128 <= n /\ n < 2048 + (q + 1) * 128
      BY <2>5, Widths DEF First
    <3>2. (n \div 128) % 16 = q
      BY <3>1
    <3> QED
      BY <3>1, <3>2
  <2>6. CASE s = 5
    <3>1. Width(s) = 256 /\ 4096 + q * 256 <= n /\ n < 4096 + (q + 1) * 256
      BY <2>6, Widths DEF First
    <3>2. (n \div 256) % 16 = q
      BY <3>1
    <3> QED
      BY <3>1, <3>2
  <2>7. CASE s = 6
    <3>1. Width(s) = 512 /\ 8192 + q * 512 <= n /\ n < 8192 + (q + 1) * 512
      BY <2>7, Widths DEF First
    <3>2. (n \div 512) % 16 = q
      BY <3>1
    <3> QED
      BY <3>1, <3>2
  <2>8. CASE s = 7
    <3>1. Width(s) = 1024 /\ 16384 + q * 1024 <= n /\ n < 16384 + (q + 1) * 1024
      BY <2>8, Widths DEF First
    <3>2. (n \div 1024) % 16 = q
      BY <3>1
    <3> QED
      BY <3>1, <3>2
  <2> QED
    BY <2>1, <2>2, <2>3, <2>4, <2>5, <2>6, <2>7, <2>8
<1>2. First(s) \in Nat /\ Width(s) \in Nat
  BY WidthIsNat
<1>3. First(s) <= n /\ n < First(s) + 16 * Width(s)
  <2>1. CASE s = 0
    BY <2>1, Widths DEF First
  <2>2. CASE s = 1
    BY <2>2, Widths DEF First
  <2>3. CASE s = 2
    BY <2>3, Widths DEF First
  <2>4. CASE s = 3
    BY <2>4, Widths DEF First
  <2>5. CASE s = 4
    BY <2>5, Widths DEF First
  <2>6. CASE s = 5
    BY <2>6, Widths DEF First
  <2>7. CASE s = 6
    BY <2>7, Widths DEF First
  <2>8. CASE s = 7
    BY <2>8, Widths DEF First
  <2> QED
    BY <2>1, <2>2, <2>3, <2>4, <2>5, <2>6, <2>7, <2>8
<1>4. Segment(n) = s
  BY <1>2, <1>3, SegmentOf
<1> QED
  BY <1>1, <1>4 DEF QUANT

\* The two tables agree on what an octet stands for.
LEMMA Decoded ==
  ASSUME NEW s \in 0..7, NEW q \in 0..15
  PROVE  /\ Decode(ToggleEven(s * QUANT + q)) = -Value(s, q)
         /\ Decode(ToggleEven(s * QUANT + q) + SIGN_BIT) = Value(s, q)
<1> DEFINE b == s * 16 + q
<1>1. /\ b \in Codes
      /\ (b \div 16) % 8 = s /\ b % 16 = q
      /\ ((b + 128) \div 16) % 8 = s /\ (b + 128) % 16 = q
  BY DEF Codes
<1> HIDE DEF b
<1>2. /\ ToggleEven(ToggleEven(b)) = b
      /\ ToggleEven(ToggleEven(b) + 128) = b + 128
  BY <1>1, Toggled
<1>3. ASSUME NEW a, NEW c \in {b, b + 128}, ToggleEven(a) = c,
             (c \div 16) % 8 = s, c % 16 = q
      PROVE  Decode(a) = IF c >= 128 THEN Value(s, q) ELSE -Value(s, q)
  BY <1>3 DEF Decode, Value, QUANT, SEGMENT_COUNT, SIGN_BIT
<1>4. Decode(ToggleEven(b)) = IF b >= 128 THEN Value(s, q) ELSE -Value(s, q)
  BY <1>1, <1>2, <1>3
<1>5. Decode(ToggleEven(b) + 128)
        = IF b + 128 >= 128 THEN Value(s, q) ELSE -Value(s, q)
  BY <1>1, <1>2, <1>3
<1> QED
  BY <1>1, <1>4, <1>5 DEF Codes, b, QUANT, SIGN_BIT

\* A step decodes to its middle.
LEMMA Middle ==
  ASSUME NEW s \in 0..7, NEW q \in 0..15
  PROVE  2 * Value(s, q) = 2 * First(s) + (2 * q + 1) * Width(s)
<1>1. CASE s = 0
  BY <1>1, Widths DEF First, Value, PowerOfTwo
<1>2. CASE s = 1
  BY <1>2, Widths DEF First, Value, PowerOfTwo
<1>3. CASE s = 2
  BY <1>3, Widths DEF First, Value, PowerOfTwo
<1>4. CASE s = 3
  BY <1>4, Widths DEF First, Value, PowerOfTwo
<1>5. CASE s = 4
  BY <1>5, Widths DEF First, Value, PowerOfTwo
<1>6. CASE s = 5
  BY <1>6, Widths DEF First, Value, PowerOfTwo
<1>7. CASE s = 6
  BY <1>7, Widths DEF First, Value, PowerOfTwo
<1>8. CASE s = 7
  BY <1>8, Widths DEF First, Value, PowerOfTwo
<1> QED
  BY <1>1, <1>2, <1>3, <1>4, <1>5, <1>6, <1>7, <1>8

\* The sample the tables return for a magnitude, and that they return it again.
LEMMA Survives ==
  ASSUME NEW n \in Magnitudes
  PROVE  \E v \in Nat :
           /\ v > 7
           /\ \A pcm \in Int :
                /\ pcm >= 0 /\ n = pcm => Decode(Encode(pcm)) = v
                /\ pcm < 0 /\ n = -pcm - 8 => Decode(Encode(pcm)) = -v
           /\ Decode(Encode(v)) = v /\ Decode(Encode(-v)) = -v
           /\ \/ v - n \in -8..8
              \/ 16 * (v - n) <= n - 120 /\ 16 * (n - v) <= n - 120
<1>1. PICK s \in 0..7, q \in 0..15 :
        First(s) + q * Width(s) <= n /\ n < First(s) + (q + 1) * Width(s)
  BY StepOf, Zenon
<1>2. ASSUME NEW m \in Int, NEW pcm \in Int,
             First(s) + q * Width(s) <= m, m < First(s) + (q + 1) * Width(s)
      PROVE  /\ pcm >= 0 /\ m = pcm => Decode(Encode(pcm)) = Value(s, q)
             /\ pcm < 0 /\ m = -pcm - 8 => Decode(Encode(pcm)) = -Value(s, q)
  <2>1. Segment(m) = s /\ (m \div PowerOfTwo[PcmShift(s)]) % QUANT = q
    <3>1. Segment(m) = s /\ (m \div Width(s)) % QUANT = q
      BY <1>2, Quantized, Zenon
    <3> QED
      BY <3>1 DEF Width
  <2>2. ASSUME pcm >= 0, m = pcm
        PROVE  Decode(Encode(pcm)) = Value(s, q)
    <3>1. Encode(pcm) = ToggleEven(s * QUANT + q) + SIGN_BIT
      BY <2>1, <2>2 DEF Encode
    <3> QED
      BY <3>1, Decoded
  <2>3. ASSUME pcm < 0, m = -pcm - 8
        PROVE  Decode(Encode(pcm)) = -Value(s, q)
    <3>1. Encode(pcm) = ToggleEven(s * QUANT + q) + 0
      BY <2>1, <2>3 DEF Encode
    <3>2. s * QUANT + q \in Codes
      BY DEF QUANT, Codes
    <3>3. ToggleEven(s * QUANT + q) + 0 = ToggleEven(s * QUANT + q)
      <4>1. ToggleEven(s * QUANT + q) \in Codes
        BY <3>2, Toggled, Zenon
      <4> QED
        BY <4>1 DEF Codes
    <3> QED
      BY <3>1, <3>3, Decoded
  <2> QED
    BY <2>2, <2>3
<1> DEFINE v == Value(s, q)
<1>3. /\ v \in Nat /\ v > 7
      /\ First(s) + q * Width(s) <= v - 8 /\ v < First(s) + (q + 1) * Width(s)
      /\ \/ v - n \in -8..8
         \/ 16 * (v - n) <= n - 120 /\ 16 * (n - v) <= n - 120
  <2>0. 2 * v = 2 * First(s) + (2 * q + 1) * Width(s)
    BY Middle
  <2>1. CASE s = 0
    <3>1. v \in Int
      BY <2>1 DEF Value, PowerOfTwo
    <3>2. First(s) = 0 /\ Width(s) = 16
      BY <2>1, Widths DEF First
    <3> HIDE DEF v
    <3>3. 2 * v = 0 + (2 * q + 1) * 16
      BY <2>0, <3>2
    <3>4. q * 16 <= n /\ n < (q + 1) * 16
      BY <1>1, <3>2
    <3>5. v = 16 * q + 8
      BY <3>1, <3>3
    <3>6. v - n \in -8..8
      BY <3>1, <3>4, <3>5 DEF Magnitudes
    <3> QED
      BY <3>2, <3>5, <3>6
  <2>2. CASE s = 1
    <3>1. v \in Int
      BY <2>2 DEF Value, PowerOfTwo
    <3>2. First(s) = 256 /\ Width(s) = 16
      BY <2>2, Widths DEF First
    <3> HIDE DEF v
    <3>3. 2 * v = 512 + (2 * q + 1) * 16
      BY <2>0, <3>2
    <3>4. 256 + q * 16 <= n /\ n < 256 + (q + 1) * 16
      BY <1>1, <3>2
    <3> QED
      BY <3>1, <3>2, <3>3, <3>4, SMTT(60) DEF Magnitudes
  <2>3. CASE s = 2
    <3>1. v \in Int
      BY <2>3 DEF Value, PowerOfTwo
    <3>2. First(s) = 512 /\ Width(s) = 32
      BY <2>3, Widths DEF First
    <3> HIDE DEF v
    <3>3. 2 * v = 1024 + (2 * q + 1) * 32
      BY <2>0, <3>2
    <3>4. 512 + q * 32 <= n /\ n < 512 + (q + 1) * 32
      BY <1>1, <3>2
    <3> QED
      BY <3>1, <3>2, <3>3, <3>4, SMTT(60) DEF Magnitudes
  <2>4. CASE s = 3
    <3>1. v \in Int
      BY <2>4 DEF Value, PowerOfTwo
    <3>2. First(s) = 1024 /\ Width(s) = 64
      BY <2>4, Widths DEF First
    <3> HIDE DEF v
    <3>3. 2 * v = 2048 + (2 * q + 1) * 64
      BY <2>0, <3>2
    <3>4. 1024 + q * 64 <= n /\ n < 1024 + (q + 1) * 64
      BY <1>1, <3>2
    <3> QED
      BY <3>1, <3>2, <3>3, <3>4, SMTT(60) DEF Magnitudes
  <2>5. CASE s = 4
    <3>1. v \in Int
      BY <2>5 DEF Value, PowerOfTwo
    <3>2. First(s) = 2048 /\ Width(s) = 128
      BY <2>5, Widths DEF First
    <3> HIDE DEF v
    <3>3. 2 * v = 4096 + (2 * q + 1) * 128
      BY <2>0, <3>2
    <3>4. 2048 + q * 128 <= n /\ n < 2048 + (q + 1) * 128
      BY <1>1, <3>2
    <3> QED
      BY <3>1, <3>2, <3>3, <3>4, SMTT(60) DEF Magnitudes
  <2>6. CASE s = 5
    <3>1. v \in Int
      BY <2>6 DEF Value, PowerOfTwo
    <3>2. First(s) = 4096 /\ Width(s) = 256
      BY <2>6, Widths DEF First
    <3> HIDE DEF v
    <3>3. 2 * v = 8192 + (2 * q + 1) * 256
      BY <2>0, <3>2
    <3>4. 4096 + q * 256 <= n /\ n < 4096 + (q + 1) * 256
      BY <1>1, <3>2
    <3> QED
      BY <3>1, <3>2, <3>3, <3>4, SMTT(60) DEF Magnitudes
  <2>7. CASE s = 6
    <3>1. v \in Int
      BY <2>7 DEF Value, PowerOfTwo
    <3>2. First(s) = 8192 /\ Width(s) = 512
      BY <2>7, Widths DEF First
    <3> HIDE DEF v
    <3>3. 2 * v = 16384 + (2 * q + 1) * 512
      BY <2>0, <3>2
    <3>4. 8192 + q * 512 <= n /\ n < 8192 + (q + 1) * 512
      BY <1>1, <3>2
    <3> QED
      BY <3>1, <3>2, <3>3, <3>4, SMTT(60) DEF Magnitudes
  <2>8. CASE s = 7
    <3>1. v \in Int
      BY <2>8 DEF Value, PowerOfTwo
    <3>2. First(s) = 16384 /\ Width(s) = 1024
      BY <2>8, Widths DEF First
    <3> HIDE DEF v
    <3>3. 2 * v = 32768 + (2 * q + 1) * 1024
      BY <2>0, <3>2
    <3>4. 16384 + q * 1024 <= n /\ n < 16384 + (q + 1) * 1024
      BY <1>1, <3>2
    <3> QED
      BY <3>1, <3>2, <3>3, <3>4, SMTT(60) DEF Magnitudes
  <2> QED
    BY <2>1, <2>2, <2>3, <2>4, <2>5, <2>6, <2>7, <2>8
<1> HIDE DEF v
<1>4. \A pcm \in Int :
        /\ pcm >= 0 /\ n = pcm => Decode(Encode(pcm)) = v
        /\ pcm < 0 /\ n = -pcm - 8 => Decode(Encode(pcm)) = -v
  BY <1>1, <1>2 DEF v
<1>5. First(s) \in Int /\ Width(s) \in Int /\ q * Width(s) \in Int
  BY WidthIsNat
<1>6. Decode(Encode(v)) = v
  <2>1. First(s) + q * Width(s) <= v
    BY <1>3, <1>5
  <2> QED
    BY <1>2, <1>3, <2>1 DEF v
<1>7. Decode(Encode(-v)) = -v
  <2>1. v - 8 \in Int /\ -v \in Int /\ -v < 0 /\ v - 8 = -(-v) - 8
    BY <1>3
  <2>2. (q + 1) * Width(s) \in Int /\ v - 8 < First(s) + (q + 1) * Width(s)
    BY <1>3, <1>5
  <2>3. -v < 0 /\ v - 8 = -(-v) - 8 => Decode(Encode(-v)) = -Value(s, q)
    BY <1>2, <1>3, <2>1, <2>2
  <2> QED
    BY <2>1, <2>3 DEF v
<1> QED
  BY <1>3, <1>4, <1>6, <1>7

LEMMA Between ==
  ASSUME NEW k \in Nat, NEW p \in Int, -k <= p, p < k, p >= 0 \/ p < -7
  PROVE  (IF p >= 0 THEN p ELSE -p - 8) \in 0..(k - 1)
OBVIOUS

LEMMA Normalized ==
  ASSUME NEW p \in PcmSamples, p \notin -7..-1
  PROVE  (IF p >= 0 THEN p ELSE -p - 8) \in Magnitudes /\ p \in Int
<1>1. p \in Int
  BY SMTT(120) DEF PcmSamples
<1>2. p >= -32768
  BY SMTT(120) DEF PcmSamples
<1>3. p <= 32767
  BY SMTT(120) DEF PcmSamples
<1>4. p >= 0 \/ p < -7
  BY <1>1
<1>5. PICK k \in Nat : k = 32768
  OBVIOUS
<1>6. -k <= p /\ p < k /\ Magnitudes = 0..(k - 1)
  BY <1>1, <1>2, <1>3, <1>5, SMTT(120) DEF Magnitudes
<1>7. (IF p >= 0 THEN p ELSE -p - 8) \in 0..(k - 1)
  BY <1>1, <1>4, <1>6, Between, Zenon
<1> QED
  BY <1>1, <1>6, <1>7, ZenonT(60)

SampleInv ==
    tool = "alaw" =>
        /\ item \in PcmSamples
        /\ stage \in {"in", "coded", "decoded"}
        /\ stage = "coded" => out = Encode(item)
        /\ stage = "decoded" => out = Decode(Encode(item))

\* make_encode_table and make_decode_table: every sample but -7..-1 decodes to
\* one of its sign that is off by at most 16 or a sixteenth, and is stable.
THEOREM SamplesSurvive == Spec => []SampleSurvives
<1>1. Init => SampleInv
  <2> SUFFICES ASSUME Init, tool = "alaw"
               PROVE  item \in PcmSamples /\ stage = "in"
    BY DEF SampleInv
  <2>1. item \in Samples /\ stage = "in"
    BY DEF Init
  <2> QED
    BY <2>1, SampleAssumption
<1>2. SampleInv /\ [Next]_vars => SampleInv'
  <2> SUFFICES ASSUME SampleInv, [Next]_vars, tool' = "alaw"
               PROVE  SampleInv'
    BY DEF SampleInv
  <2>1. CASE encode_alaw
    BY <2>1 DEF encode_alaw, SampleInv
  <2>2. CASE decode_alaw
    BY <2>2 DEF decode_alaw, SampleInv
  <2>3. CASE \/ \E ssrc \in Mixers : AddSource(ssrc)
             \/ \E size \in BufferSizes : WritePacket(size)
             \/ ReadPacket \/ OpenWav \/ ShiftSample
    BY <2>3 DEF AddSource, WritePacket, ReadPacket, OpenWav, ShiftSample
  <2>4. CASE UNCHANGED vars
    BY <2>4 DEF vars, SampleInv
  <2> QED
    BY <2>1, <2>2, <2>3, <2>4 DEF Next
<1>3. SampleInv => SampleSurvives
  <2> SUFFICES ASSUME SampleInv, tool = "alaw", stage = "decoded",
                      item \notin -7..-1
               PROVE  /\ \/ Magnitude(out - item) <= 16
                         \/ 16 * Magnitude(out - item) <= Magnitude(item)
                      /\ (out < 0) = (item < 0)
                      /\ Decode(Encode(out)) = out
    BY DEF SampleSurvives
  <2>1. item \in PcmSamples /\ out = Decode(Encode(item))
    BY Zenon DEF SampleInv
  <2> DEFINE n == IF item >= 0 THEN item ELSE -item - 8
  <2>2. n \in Magnitudes /\ item \in Int
    BY <2>1, Normalized, Zenon
  <2>3. /\ item >= 0 => n = item
        /\ item < 0 => n = -item - 8
    BY <2>2
  <2> HIDE DEF n
  <2>4. PICK v \in Nat :
           /\ v > 7
           /\ \A pcm \in Int :
                /\ pcm >= 0 /\ n = pcm => Decode(Encode(pcm)) = v
                /\ pcm < 0 /\ n = -pcm - 8 => Decode(Encode(pcm)) = -v
           /\ Decode(Encode(v)) = v /\ Decode(Encode(-v)) = -v
           /\ \/ v - n \in -8..8
              \/ 16 * (v - n) <= n - 120 /\ 16 * (n - v) <= n - 120
    BY <2>2, Survives
  <2>5. CASE item >= 0
    <3>1. out = v /\ n = item
      BY <2>1, <2>2, <2>3, <2>4, <2>5
    <3>2. \/ Magnitude(out - item) <= 16
          \/ 16 * Magnitude(out - item) <= Magnitude(item)
      BY <2>2, <2>4, <2>5, <3>1 DEF Magnitude
    <3> QED
      BY <2>2, <2>4, <2>5, <3>1, <3>2
  <2>6. CASE item < 0
    <3>1. out = -v /\ n = -item - 8
      BY <2>1, <2>2, <2>3, <2>4, <2>6
    <3>2. \/ Magnitude(out - item) <= 16
          \/ 16 * Magnitude(out - item) <= Magnitude(item)
      BY <2>2, <2>4, <2>6, <3>1 DEF Magnitude
    <3> QED
      BY <2>2, <2>4, <2>6, <3>1, <3>2
  <2> QED
    BY <2>2, <2>5, <2>6
<1> QED
  BY <1>1, <1>2, <1>3, PTL DEF Spec
=============================================================================
