---------------------------- MODULE MCRunReports ----------------------------
EXTENDS RunReports

Sure == [clear |-> "yes", stable |-> TRUE, sure |-> {90}, faults |-> {}, crowd |-> FALSE,
         pending |-> FALSE]
Moment(who, from, to, score) ==
    [who |-> who, from |-> Sec(from), to |-> Sec(to), score |-> score, precise |-> FALSE,
     ev |-> Sure, social |-> FALSE, focus |-> {}, failed |-> FALSE, shared |-> FALSE]
Untold(who, from, to, score) == [Moment(who, from, to, score) EXCEPT !.ev = Unsaid]
Track(id, from, to) == [id |-> id, times |-> from .. to, usable |-> TRUE]
Straight == <<1, 2>>
Swapped == <<2, 1>>

\* A long video of two chunks.  In the first an athlete is seen late in a moment in which
\* the selector heard of another one too, and is crossed by somebody in a second moment; in
\* the second there are a fragment and a moment that is told of both chunks.
Long ==
    [surf |-> FALSE, long |-> TRUE, clips |-> <<
        [length |-> Sec(560),
         moments |-> {Moment(1, 60, 84, 8), Moment(2, 58, 86, 8), Untold(2, 200, 212, 7),
                      Moment(1, 490, 510, 6)},
         tracks |-> {Track(1, 70, 84), Track(5, 58, 66), Track(2, 200, 213), Track(3, 203, 205), Track(4, 488, 512)},
         looks |-> <<Look(7, 1), Look(9, 2)>>,
         labels |-> (0 :> {Straight, Swapped}) @@ (1 :> {Straight})]>>]

\* A match in two clips: moments of one athlete that overlap, one too bad, two too bad but
\* the best there are, and one that another athlete is part of.
Match ==
    [surf |-> FALSE, long |-> FALSE, clips |-> <<
        [length |-> Sec(60),
         moments |-> {Moment(1, 5, 25, 8), Moment(1, 15, 25, 7), Moment(2, 30, 40, 5),
                      [Moment(2, 44, 52, 4) EXCEPT !.shared = TRUE]},
         tracks |-> {Track(1, 9, 26), Track(2, 30, 53)},
         looks |-> <<Look(7, 1), Look(9, 1)>>,
         labels |-> (0 :> {Straight})],
        [length |-> Sec(60),
         moments |-> {Moment(2, 10, 20, 8), [Moment(1, 30, 38, 7) EXCEPT !.shared = TRUE]},
         tracks |-> {Track(1, 8, 22), Track(2, 29, 39)},
         looks |-> <<Look(7, 1), Look(9, 1)>>,
         labels |-> (0 :> {Straight})]>>]

\* A short clip of a surfer: a ride told in two fragments, between which another one rides, and
\* one that failed.
Surf ==
    [surf |-> TRUE, long |-> FALSE, clips |-> <<
        [length |-> Sec(50),
         moments |-> {Untold(1, 4, 12, 8), Untold(1, 17, 23, 6), Untold(2, 12, 17, 8),
                     [Untold(1, 35, 43, 7) EXCEPT !.failed = TRUE]},
         tracks |-> {Track(1, 3, 24), Track(3, 12, 17), Track(2, 34, 44)},
         looks |-> <<Look(7, 1), Look(9, 2)>>,
         labels |-> (0 :> {Straight})]>>]

MCFilms == {Long, Match, Surf}
=============================================================================
