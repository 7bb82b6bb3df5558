---------------------------- MODULE FramingProofs ----------------------------
(* What the crop arithmetic guarantees for every frame, zoom and centre.     *)
EXTENDS CropGeometry, TLAPS

LEMMA RoundNear ==
  ASSUME NEW n \in Int
  PROVE  /\ Round(n, 10) \in Int
         /\ 10 * Round(n, 10) <= n + 5
         /\ 10 * Round(n, 10) >= n - 5
  <1> DEFINE q == n \div 10
             r == n % 10
  <1>1. /\ q \in Int /\ r \in 0..9 /\ n = 10*q + r
    OBVIOUS
  <1> HIDE DEF q, r
  <1>2. Round(n, 10) = IF 2*r > 10 \/ (2*r = 10 /\ q % 2 = 1) THEN q + 1 ELSE q
    BY DEF Round, q, r
  <1>3. CASE 2*r > 10 \/ (2*r = 10 /\ q % 2 = 1)
    BY <1>1, <1>2, <1>3
  <1>4. CASE ~(2*r > 10 \/ (2*r = 10 /\ q % 2 = 1))
    <2>1. 2*r <= 10
      BY <1>1, <1>4
    <2> QED
      BY <1>1, <1>2, <1>4, <2>1
  <1> QED
    BY <1>3, <1>4

LEMMA EvenNear ==
  ASSUME NEW v \in Int, NEW least \in {0, 2}
  PROVE  /\ Even(v, least) \in Int
         /\ Even(v, least) >= least
         /\ v >= least => Even(v, least) \in {v - 1, v}
         /\ v < least => Even(v, least) = least
  <1> DEFINE m == AtLeast(least, v)
  <1>1. m \in Int /\ m >= least /\ (v >= least => m = v) /\ (v < least => m = least)
    BY DEF AtLeast
  <1>2. Even(v, least) = m - (m % 2)
    BY DEF Even
  <1> HIDE DEF m
  <1> DEFINE odd == m % 2
  <1>3. odd \in Int /\ (odd = 0 \/ odd = 1) /\ (m = least => odd = 0)
    BY <1>1
  <1>8. Even(v, least) = m - odd
    BY <1>2
  <1> HIDE DEF odd
  <1>4. Even(v, least) \in {m - 1, m} /\ (m = least => Even(v, least) = m)
    BY <1>1, <1>3, <1>8
  <1>5. least \in Int
    OBVIOUS
  <1>6. CASE v >= least
    BY <1>1, <1>4, <1>5, <1>6
  <1>7. CASE v < least
    BY <1>1, <1>4, <1>5, <1>7
  <1> QED
    BY <1>5, <1>6, <1>7

\* A window is clamped into its frame: both ends of a rendered crop are pixels
\* of the frame, whatever centre it was put around (_render_clip).
THEOREM CropInsideFrame ==
  ASSUME NEW full \in Int, NEW side \in Int, NEW centre \in Int,
         full >= 2, side >= 0, side <= 10 * full
  PROVE  LET cut == RenderedSide(side)
             from == RenderedFrom(full, cut, centre)
         IN  from >= 0 /\ from + cut <= full
  <1> DEFINE cut == RenderedSide(side)
             from == RenderedFrom(full, cut, centre)
             room == Even(full - cut, 0)
  <1>1. cut \in Int /\ cut >= 2 /\ cut <= full
    <2>1. Round(side, 10) \in Int /\ 10 * Round(side, 10) <= side + 5
      BY RoundNear
    <2>2. Round(side, 10) <= full
      BY <2>1
    <2> QED
      BY <2>1, <2>2, EvenNear DEF RenderedSide
  <1> HIDE DEF cut
  <1>2. room \in Int /\ room >= 0 /\ room <= full - cut
    BY <1>1, EvenNear
  <1>3. Round(centre - 5*cut, 10) \in Int
    BY <1>1, RoundNear
  <1> HIDE DEF room
  <1>4. from = Within(0, room, Round(centre - 5*cut, 10))
    BY DEF from, RenderedFrom, room
  <1>5. from \in Int /\ from >= 0 /\ from <= room
    BY <1>2, <1>3, <1>4 DEF Within, AtLeast, AtMost
  <1> HIDE DEF from
  <1>6. from >= 0 /\ from + cut <= full
    BY <1>1, <1>2, <1>5
  <1> QED
    BY <1>6 DEF from, cut

\* A box that was checked to fit the unrounded window with the padding of the
\* code is wholly in the crop that is rendered, in frames of at least a hundred
\* pixels: rounding to even sizes and whole pixels never cuts a checked athlete
\* (_resolve_track_safe_decision against _render_clip).
THEOREM FittingBoxIsRendered ==
  ASSUME NEW full \in Int, NEW side \in Int, NEW centre \in Int,
         NEW lo \in Int, NEW hi \in Int,
         full >= 100, side >= 20, side <= 10 * full,
         FitsPadded(full, side, CheckedFrom(full, side, centre), lo, hi)
  PROVE  LET cut == RenderedSide(side)
             from == RenderedFrom(full, cut, centre)
         IN  from <= lo /\ hi <= from + cut
  <1> DEFINE cut == RenderedSide(side)
             from == RenderedFrom(full, cut, centre)
             room == Even(full - cut, 0)
             mid == Round(centre - 5*cut, 10)
             checked == CheckedFrom(full, side, centre)
  <1>1. cut \in Int /\ 10*cut <= side + 5 /\ 10*cut >= side - 15 /\ cut <= full
    <2>1. /\ Round(side, 10) \in Int
          /\ 10 * Round(side, 10) <= side + 5
          /\ 10 * Round(side, 10) >= side - 5
      BY RoundNear
    <2>2. Round(side, 10) >= 2
      BY <2>1
    <2>3. cut \in {Round(side, 10) - 1, Round(side, 10)}
      BY <2>1, <2>2, EvenNear DEF RenderedSide
    <2> QED
      BY <2>1, <2>3
  <1> HIDE DEF cut
  <1>2. room \in Int /\ room >= 0 /\ room <= full - cut /\ room >= full - cut - 1
    <2>1. full - cut \in Int /\ full - cut >= 0
      BY <1>1
    <2> QED
      BY <1>1, <2>1, EvenNear
  <1> HIDE DEF room
  <1>3. mid \in Int /\ 10*mid <= centre - 5*cut + 5 /\ 10*mid >= centre - 5*cut - 5
    BY <1>1, RoundNear
  <1> HIDE DEF mid
  <1>4. from = AtLeast(0, AtMost(room, mid))
    BY DEF from, RenderedFrom, room, mid, Within
  <1>5. checked = AtLeast(0, AtMost(10*full - side, centre - side \div 2))
    BY DEF checked, CheckedFrom, Within
  <1> DEFINE half == side \div 2
  <1>6. half \in Int /\ 2*half <= side /\ 2*half >= side - 1
    OBVIOUS
  <1> HIDE DEF half
  <1>7. /\ 20 * (10*lo - checked) >= 3 * full
        /\ 20 * (checked + side - 10*hi) >= 3 * full
    BY DEF FitsPadded, checked
  <1> HIDE DEF from, checked
  <1>8. checked \in Int /\ from \in Int /\ from >= 0
    BY <1>2, <1>3, <1>4, <1>5, <1>6 DEF AtLeast, AtMost, half
  <1>9. 10*lo >= checked + 15 /\ 10*hi <= checked + side - 15
    BY <1>7, <1>8
  <1>10. 10*from <= checked + 15
    BY <1>1, <1>2, <1>3, <1>4, <1>5, <1>6 DEF AtLeast, AtMost, half
  <1>11. 10*(from + cut) >= checked + side - 16
    BY <1>1, <1>2, <1>3, <1>4, <1>5, <1>6 DEF AtLeast, AtMost, half
  <1>12. from <= lo /\ hi <= from + cut
    BY <1>1, <1>8, <1>9, <1>10, <1>11
  <1> QED
    BY <1>12 DEF from, cut
=============================================================================
