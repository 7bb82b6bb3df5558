----------------------------- MODULE MCSession -----------------------------
EXTENDS Session, ChunkTimeline

Sure == [clear |-> "yes", stable |-> TRUE, sure |-> {90}, faults |-> {}, crowd |-> FALSE,
         pending |-> FALSE]

Moment(who, from, to, score) ==
    [who |-> who, from |-> Sec(from), to |-> Sec(to), score |-> score, precise |-> FALSE,
     ev |-> Sure, social |-> FALSE, focus |-> {}, failed |-> FALSE]
Untold(who, from, to, score) == [Moment(who, from, to, score) EXCEPT !.ev = Unsaid]

Track(id, from, to) == [id |-> id, times |-> from .. to, usable |-> TRUE]

Straight == <<1, 2>>
Swapped == <<2, 1>>

\* Two chunks and a clip of two surfers.  In the first they ride one wave and in the second
\* each goes on alone; one comes into the picture late, one leaves it early, one ride is
\* told in two fragments and one ride failed.  Nothing is said about whom a moment shows.
Surf ==
    [surf |-> TRUE, long |-> FALSE, clips |-> <<
        [length |-> Sec(600),
         moments |-> {Untold(1, 100, 112, 8), Untold(2, 104, 118, 7),
                      Untold(2, 500, 512, 5), [Untold(1, 520, 530, 9) EXCEPT !.failed = TRUE]},
         tracks |-> {Track(1, 104, 113), Track(2, 103, 119), Track(3, 498, 509)},
         looks |-> <<Look(7, 1), Look(0, 2)>>,
         labels |-> (0 :> {Straight}) @@ (1 :> {Straight, Swapped})],
        [length |-> Sec(40),
         moments |-> {Untold(1, 4, 12, 8), Untold(1, 17, 23, 6)},
         tracks |-> {Track(1, 3, 24), Track(2, 3, 6)},
         looks |-> <<Look(0, 1), Look(0, 2)>>,
         labels |-> (0 :> {Straight})]>>]

\* Three clips of a match: players with numbers, one described as somebody else is, moments
\* that overlap, one of which only a part is sure.
Match ==
    [surf |-> FALSE, long |-> FALSE, clips |-> <<
        [length |-> Sec(60),
         moments |-> {[Moment(1, 5, 25, 8) EXCEPT !.ev.clear = "no", !.focus = {[from |-> Sec(8), to |-> Sec(20)]}],
                      Moment(1, 15, 25, 7), [Moment(1, 30, 40, 6) EXCEPT !.ev.faults = {"occluded"}]},
         tracks |-> {Track(1, 5, 26), [Track(2, 12, 20) EXCEPT !.usable = FALSE]},
         looks |-> <<Look(7, 1), Look(9, 1)>>,
         labels |-> (0 :> {Straight})],
        [length |-> Sec(60),
         moments |-> {Moment(2, 10, 20, 8)},
         tracks |-> {Track(1, 8, 22)},
         looks |-> <<Look(7, 1), Look(9, 1)>>,
         labels |-> (0 :> {Straight, Swapped})],
        [length |-> Sec(60),
         moments |-> {[Moment(1, 10, 15, 8) EXCEPT !.precise = TRUE], Moment(2, 54, 59, 5)},
         tracks |-> {Track(1, 9, 60)},
         looks |-> <<NoLook, NoLook>>,
         labels |-> (0 :> {Straight})]>>]

\* A long video of two full chunks: an athlete crossed by another, one who is the centre of
\* a crowd, and one whose moment goes on over the edge between the chunks, so that each chunk
\* tells a part of it; the time of the edge, in seconds of the source, fits the chunk's own
\* seconds too.
Long ==
    [surf |-> FALSE, long |-> TRUE, clips |-> <<
        [length |-> Sec(960),
         moments |-> {Moment(1, 60, 84, 8), [Moment(2, 300, 320, 7) EXCEPT !.ev.crowd = TRUE],
                      Moment(1, 472, 510, 6), Moment(1, 505, 520, 6)},
         tracks |-> {Track(1, 60, 85), Track(2, 70, 72), Track(3, 300, 321), Track(4, 302, 305),
                     Track(5, 472, 521)},
         looks |-> <<Look(7, 1), Look(9, 2)>>,
         labels |-> (0 :> {Straight}) @@ (1 :> {Straight, Swapped})]>>]

\* A long video of one chunk: of one athlete nothing is said, who is crossed by another at
\* the start of a long moment, and by one before and one after another; the other athlete celebrates with a third, and is clear in a part of a moment.
Crossed ==
    [surf |-> FALSE, long |-> TRUE, clips |-> <<
        [length |-> Sec(320),
         moments |-> {Untold(2, 30, 52, 7), Untold(2, 100, 112, 7),
                      [Untold(1, 200, 212, 6) EXCEPT !.social = TRUE],
                      [Moment(1, 280, 300, 9) EXCEPT !.ev.sure = {40},
                          !.focus = {[from |-> Sec(282), to |-> Sec(298)]}]},
         tracks |-> {Track(6, 30, 53), Track(7, 33, 34), Track(8, 100, 116), Track(13, 103, 103),
                     Track(14, 114, 115),
                     Track(9, 200, 213), Track(10, 202, 206), Track(11, 280, 300),
                     Track(12, 286, 287)},
         looks |-> <<Look(7, 1), Look(9, 2)>>,
         labels |-> (0 :> {Straight})]>>]

MCFilms == {Surf, Match, Long, Crossed}
=============================================================================
