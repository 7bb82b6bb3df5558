------------------------------- MODULE Framing -------------------------------
(* How a clip is framed: the whole frame by default, a fixed crop when the   *)
(* evidence asks for one and the whole track fits it, a crop that follows    *)
(* the track when that is dense enough.                                      *)
(* event: [start, end, track, visible, box]; frame: [w, h]; dets: the        *)
(* detections of the sidecar.  Times in ms, boxes in px, confidence in       *)
(* percent, zoom in thousandths, keyframes in tenths of a pixel.             *)
EXTENDS CropGeometry, Tracks

CONSTANTS Following       \* SPORTREEL_FOLLOW_CROP

MinTrackConfidence == 60
MinVisible == 55
MaxEmergencyZoom == 1300
MaxFollowZoom == 1600

BoxCentre(lo, hi) == 5 * (lo + hi)

\* 1000 * wanted share (thousandths) of the frame's height / the box's own
ZoomFor(frame, high, wanted, most) == Within(1000, most, Round(wanted * frame.h, AtLeast(1, high)))

-----------------------------------------------------------------------------
(* The first decision, on the detection the event carries                    *)

Small(frame, b) ==
    \/ 1000 * (b.y2 - b.y1) < 65 * frame.h
    \/ 400 * Area(b) < frame.w * frame.h
AtEdge(frame, b) ==
    \/ 50 * (b.x1 + b.x2) < 8 * frame.w
    \/ 50 * (b.x1 + b.x2) > 92 * frame.w
    \/ ~Visible(b, frame, 80)
Ambiguous(frame, b, tracks) ==
    Cardinality(tracks) > 1 /\ 500 * Area(b) < 3 * frame.w * frame.h

Decision(mode, zoom) == [mode |-> mode, zoom |-> zoom, x |-> 0, y |-> 0, path |-> <<>>]

DecideFraming(frame, event, sport) ==
    LET b == event.box
    IN  IF Small(frame, b) \/ AtEdge(frame, b) \/ Ambiguous(frame, b, event.visible)
        THEN Decision("tracked", ZoomFor(frame, b.y2 - b.y1, IF sport = "surfing" THEN 160 ELSE 180, MaxEmergencyZoom))
        ELSE Decision("contain", 1000)

-----------------------------------------------------------------------------
(* The track in the window                                                   *)

Trajectory(dets, event) == Ordered({d \in InWindow(dets, event) : d.id = event.track})

Reliable(frame, d) == d.conf >= MinTrackConfidence /\ Visible(d, frame, MinVisible)

\* statistics.median of a sequence of integers
Median(s) ==
    LET o == SortSeq(s, <)
        n == Len(s)
    IN  IF n % 2 = 1 THEN o[(n + 1) \div 2] ELSE (o[n \div 2] + o[n \div 2 + 1]) \div 2

CentresX(s) == [i \in DOMAIN s |-> BoxCentre(s[i].x1, s[i].x2)]
CentresY(s) == [i \in DOMAIN s |-> BoxCentre(s[i].y1, s[i].y2)]

\* Piecewise linear through the values at these times, constant outside them
Interp(times, values, t) ==
    LET n == Len(times)
        i == CHOOSE i \in 2..n : t <= times[i] /\ \A j \in 2..(i - 1) : t > times[j]
        span == times[i] - times[i - 1]
    IN  IF t <= times[1] THEN values[1]
        ELSE IF t > times[n] THEN values[n]
        ELSE IF span = 0 THEN values[i - 1]
        ELSE values[i - 1] + ((values[i] - values[i - 1]) * (t - times[i - 1])) \div span

\* Mean of five taps over a second and a half
Smoothed(times, values, t) ==
    LET Tap(offset) == Interp(times, values, t + offset)
    IN  (Tap(-750) + Tap(-375) + Tap(0) + Tap(375) + Tap(750)) \div 5

\* A keyframe every half second, two to forty of them
KeyframeCount(duration) == Within(2, 40, duration \div 500 + 1)

\* Path of the pan, which holds nine tenths of the samples; none for a sparse track
FollowPath(frame, s, event, zoom) ==
    LET w == Side(BaseWidth(frame), zoom)
        h == Side(BaseHeight(frame), zoom)
        times == [i \in DOMAIN s |-> s[i].t]
        length == AtLeast(100, event.end - event.start)
        n == KeyframeCount(length)
        at == [i \in 1..n |-> event.start + (length * (i - 1)) \div (n - 1)]
        left == [i \in 1..n |-> CheckedFrom(frame.w, w, Smoothed(times, CentresX(s), at[i]))]
        top == [i \in 1..n |-> CheckedFrom(frame.h, h, Smoothed(times, CentresY(s), at[i]))]
        inside == {i \in DOMAIN s :
                      /\ CentresX(s)[i] - Interp(at, left, s[i].t) \in 0..w
                      /\ CentresY(s)[i] - Interp(at, top, s[i].t) \in 0..h}
    IN  IF /\ Len(s) >= 3
           /\ \A i \in 2..Len(s) : s[i].t - s[i - 1].t <= 2000
           /\ 10 * Cardinality(inside) >= 9 * Len(s)
        THEN [i \in 1..n |-> <<at[i], left[i], top[i]>>] ELSE <<>>

\* It asks the event for its sport, which events do not have.
FollowZoom(frame, s) ==
    ZoomFor(frame, Median([i \in DOMAIN s |-> s[i].y2 - s[i].y1]), 180, MaxFollowZoom)

Pan(s, zoom, path) ==
    IF path = <<>> THEN Decision("contain", 1000)
    ELSE [mode |-> "follow", zoom |-> zoom, path |-> path,
          x |-> Median(CentresX(s)), y |-> Median(CentresY(s))]
PanOver(frame, event, s, zoom) == Pan(s, zoom, FollowPath(frame, s, event, zoom))

\* A pan, or the whole frame when panning is switched off or the samples do not carry it
FollowReliable(frame, event, s) ==
    IF Following /\ Len(s) >= 3 THEN PanOver(frame, event, s, FollowZoom(frame, s))
    ELSE Decision("contain", 1000)
FollowOrContain(frame, event, samples) ==
    FollowReliable(frame, event, SelectSeq(samples, LAMBDA d: Reliable(frame, d)))

\* As code that would look at where the track begins and ends
EndsFit(frame, s, zoom) ==
    LET w == Side(BaseWidth(frame), zoom)
        h == Side(BaseHeight(frame), zoom)
        left == CheckedFrom(frame.w, w, Median(CentresX(s)))
        top == CheckedFrom(frame.h, h, Median(CentresY(s)))
    IN  \A i \in {1, Len(s)} : /\ FitsPadded(frame.w, w, left, s[i].x1, s[i].x2)
                                /\ FitsPadded(frame.h, h, top, s[i].y1, s[i].y2)

\* The whole track lies in one padded window around its median
TrackFits(frame, s, zoom) ==
    LET w == Side(BaseWidth(frame), zoom)
        h == Side(BaseHeight(frame), zoom)
        left == CheckedFrom(frame.w, w, Median(CentresX(s)))
        top == CheckedFrom(frame.h, h, Median(CentresY(s)))
    IN  \A i \in DOMAIN s : /\ FitsPadded(frame.w, w, left, s[i].x1, s[i].x2)
                            /\ FitsPadded(frame.h, h, top, s[i].y1, s[i].y2)

\* A crop that does not move holds the athlete all through the window.
FixedHolds(frame, d, s) ==
    /\ d.mode = "tracked" /\ Len(s) >= 2
    /\ \A i \in DOMAIN s : Reliable(frame, s[i])
    /\ TrackFits(frame, s, d.zoom)

\* The framing the whole bound track s supports
ResolveTrackSafe(frame, event, d, s) ==
    CASE FixedHolds(frame, d, s) -> [d EXCEPT !.x = Median(CentresX(s)), !.y = Median(CentresY(s))]
      [] d.mode = "contain" /\ s = <<>> -> d
      [] OTHER -> FollowOrContain(frame, event, s)

FramingOf(frame, event, sport, dets) ==
    ResolveTrackSafe(frame, event, DecideFraming(frame, event, sport), Trajectory(dets, event))

-----------------------------------------------------------------------------
(* Rendering                                                                 *)

\* ffmpeg's value of a pan at a time of the source: linear between keyframes, the last one
\* held, the line of the first two continued before them
FollowExpression(path, axis, t) ==
    LET a == path[1]
        b == path[2]
    IN  IF t < a[1] THEN a[axis] + ((b[axis] - a[axis]) * (t - a[1])) \div (b[1] - a[1])
        ELSE Interp([i \in DOMAIN path |-> path[i][1]], [i \in DOMAIN path |-> path[i][axis]], t)

\* ffmpeg rounds it to a pixel and keeps the crop inside the frame.
FollowAt(full, cut, path, axis, t) ==
    Within(0, full - cut, Round(FollowExpression(path, axis, t), 10))

\* The rectangle of the source shown at time t, in tenths of a pixel
ShownAt(frame, d, t) ==
    LET cw == RenderedSide(Side(BaseWidth(frame), d.zoom))
        ch == RenderedSide(Side(BaseHeight(frame), d.zoom))
        left == 10 * IF d.mode = "follow" THEN FollowAt(frame.w, cw, d.path, 2, t)
                     ELSE RenderedFrom(frame.w, cw, d.x)
        top == 10 * IF d.mode = "follow" THEN FollowAt(frame.h, ch, d.path, 3, t)
                    ELSE RenderedFrom(frame.h, ch, d.y)
    IN  IF d.mode = "contain"
        THEN [x1 |-> 0, y1 |-> 0, x2 |-> 10 * frame.w, y2 |-> 10 * frame.h]
        ELSE [x1 |-> left, y1 |-> top, x2 |-> left + 10*cw, y2 |-> top + 10*ch]
=============================================================================
