-------------------------------- MODULE MCMp4 --------------------------------
EXTENDS Recorder

\* Two tracks of 2 and 1 ticks per second in a movie of 2; time stamps of 3
\* per second.
MCTimeScale     == <<2, 1>>
MCFixedDuration == <<1, 1>>

Sample(n, d, o, s) == [bytes |-> n, duration |-> d, offset |-> o, sync |-> s]

MCKinds == <<{Sample(1, Default, 0, TRUE), Sample(2, 2, 1, FALSE), Sample(0, 1, 0, FALSE)},
             {Sample(1, 1, 0, TRUE)}>>

MCMaxFrames == <<4, 2>>

MCOffsets == <<{0, 1}, {}>>

Segment(m, d, w) == [media |-> m, duration |-> d, dwell |-> w]

MCSegments == {Segment(0, 2, FALSE), Segment(1, 2, FALSE), Segment(1, 1, TRUE)}

\* Two parts of the track, one after the other.
MCTwoSegments == {Segment(0, 1, FALSE), Segment(1, 2, FALSE)}

MCNoFrames == <<0, 0>>

MCFirstStamps == {<<1, 3>>, <<3, 1>>}

Frame(size, idr, gap) == [size |-> size, idr |-> idr, gap |-> gap]

MCFrames == {Frame(1, TRUE, 1), Frame(2, TRUE, 1), Frame(3, FALSE, 2), Frame(3, TRUE, -1)}
=============================================================================
