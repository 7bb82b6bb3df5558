-------------------------- MODULE MCClipRendering --------------------------
(* Small instances of ClipRendering: an athlete who moves in many ways in    *)
(* front of the camera, and runs with several sources, athletes, failures    *)
(* and repairs.  Frames of 320 by 180 pixels, two detections a second.    *)
EXTENDS ClipRendering

MCFps == 30
MCMinConfidence == 0
MCMaxEnd == 14000

Frame == [w |-> 320, h |-> 180]

\* A way to move: where one starts, by how much one moves in half a second, how tall one
\* is, the half seconds from one detection to the next, the tracker's confidence, whether
\* one goes on, turns back each time or leaps once, and whether another athlete is in sight
Walks == [x : {6, 60, 150}, v : {0, 2, 6}, h : {10, 16, 60}, step : {1, 6}, conf : {50, 90},
          way : {"on", "back", "leap"}, other : {FALSE}]
Still == [x |-> 150, v |-> 0, h |-> 10, step |-> 1, conf |-> 90, way |-> "on", other |-> FALSE]
Strolling == [Still EXCEPT !.v = 6, !.h = 16]
Busy == [x |-> 30, v |-> 4, h |-> 16, step |-> 1, conf |-> 90, way |-> "on", other |-> TRUE]

Box(raw, k, x, y, h, conf) ==
    [raw |-> raw, class |-> 0, index |-> 15 * k, x1 |-> x, x2 |-> x + h \div 2,
     y1 |-> y, y2 |-> y + h, conf |-> conf]

\* After the sixth second the tracker gives the athlete another identity.
Seen(walk) ==
    LET At(k) == walk.x + CASE walk.way = "on" -> walk.v * k
                            [] walk.way = "back" -> walk.v * (k % 2)
                            [] walk.way = "leap" -> IF k = 8 THEN 10 * walk.v ELSE 0
        moments == {k \in 0..24 : k % walk.step = 0}
    IN  {Box(IF k > 12 THEN 3 ELSE 1, k, At(k), 70, walk.h, walk.conf) : k \in moments}
        \cup (IF walk.other THEN {Box(2, k, 240, 90, 20, 80) : k \in moments} ELSE {})

\* One of the films shows nobody to the first pass of the tracker.
MCFootage ==
    [walk \in Walks \cup {Busy} |->
        [frame |-> Frame, length |-> 13000,
         coarse |-> IF walk = Strolling THEN {} ELSE Seen(walk), fine |-> Seen(walk)]]

Told(id, who, src, start, score, out) ==
    [id |-> id, who |-> who, src |-> src, start |-> start, end |-> start + 5000,
     selected |-> start, score |-> score, timed |-> TRUE, known |-> TRUE, slow |-> id = 2,
     out |-> out, teaser |-> FALSE]

Alone(walk, start) ==
    [runs |-> <<[media |-> ("a" :> walk), told |-> {Told(1, 1, "a", start, 8, "cut")}]>>,
     surf |-> FALSE, sport |-> "surfing", judged |-> FALSE, faults |-> 0, repairs |-> 1]

\* Three events of one athlete in two sources, then another film under the name of the first
Story(rides, allowed) ==
    [runs |-> <<[media |-> ("a" :> Busy) @@ ("b" :> Still),
                 told |-> {Told(1, 1, "a", 1000, 6, "slide"), Told(2, 1, "b", 500, 9, "zoom"),
                           Told(3, 1, "a", 6000, 8, "fade")}],
                [media |-> ("a" :> Still) @@ ("b" :> Busy), told |-> {Told(1, 1, "b", 1000, 9, "cut")}]>>,
     surf |-> rides, sport |-> "surfing", judged |-> FALSE, faults |-> allowed, repairs |-> 1]

\* Two athletes, whose clips have the same paths, and no track for one that is not told
Pair ==
    [runs |-> <<[media |-> ("a" :> Strolling),
                 told |-> {Told(1, 1, "a", 1000, 6, "cut"), Told(2, 1, "a", 6000, 9, "cut"),
                           Told(3, 2, "a", 2000, 8, "cut"), Told(4, 2, "a", 11500, 8, "cut")}]>>,
     surf |-> TRUE, sport |-> "football", judged |-> FALSE, faults |-> 1, repairs |-> 1]

\* Clips that are judged
Judged == [Alone(Strolling, 1000) EXCEPT !.judged = TRUE, !.faults = 2]

MCScenarios ==
    {Alone(walk, start) : walk \in Walks, start \in {1000, 8500}}
      \cup {Story(rides, 1) : rides \in BOOLEAN} \cup {Pair, Judged}
=============================================================================
