---------------------------- MODULE CropGeometry ----------------------------
(* Where a crop window lies in a frame, along one axis.  Frames and rendered *)
(* crops are in pixels; the window a track was checked against, the centre   *)
(* it is put around and the keyframes of a pan are in tenths of a pixel, the *)
(* precision the keyframes are rounded to.  A zoom is in thousandths.        *)
EXTENDS Integers

\* n / d rounded to an integer, a half to the even neighbour
Round(n, d) ==
    LET q == n \div d
        r == n % d
    IN  IF 2*r > d \/ (2*r = d /\ q % 2 = 1) THEN q + 1 ELSE q

AtLeast(lo, v) == IF v < lo THEN lo ELSE v
AtMost(hi, v) == IF v > hi THEN hi ELSE v

\* max(lo, min(hi, v)): lo wins when the bounds cross
Within(lo, hi, v) == AtLeast(lo, AtMost(hi, v))

\* The even number not above v, and not below least
Even(v, least) == LET m == AtLeast(least, v) IN m - (m % 2)

\* The largest 9:16 window of a frame, in tenths of a pixel
Narrow(frame) == 9 * frame.h <= 16 * frame.w
BaseWidth(frame) == IF Narrow(frame) THEN (90 * frame.h) \div 16 ELSE 10 * frame.w
BaseHeight(frame) == IF Narrow(frame) THEN 10 * frame.h ELSE (160 * frame.w) \div 9

\* One side of the window at a zoom, as checked and as rendered
Side(base, zoom) == (base * 1000) \div zoom
RenderedSide(side) == Even(Round(side, 10), 2)

\* The first tenth of a checked window of this side around a centre
CheckedFrom(full, side, centre) == Within(0, 10*full - side, centre - side \div 2)

\* The first pixel of a rendered crop of this size around a centre
RenderedFrom(full, cut, centre) == Within(0, Even(full - cut, 0), Round(centre - 5*cut, 10))

\* A box side lies in the checked window with 1.5 % of the frame to spare
FitsPadded(full, side, from, lo, hi) ==
    /\ 20 * (10*lo - from) >= 3 * full
    /\ 20 * (from + side - 10*hi) >= 3 * full
=============================================================================
