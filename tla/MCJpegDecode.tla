---------------------------- MODULE MCJpegDecode ----------------------------
(* Instances of JpegDecode for TLC. *)
EXTENDS JpegDecode, SimImages, FiniteSets

MCHeaders ==
    UNION {[1 .. n -> {Piece("DQT", 69), Piece("DQT", 134), Piece("DHT", 33),
                       Piece("SOF0", 19), Piece("other", 4)}] : n \in 0 .. 3}

MCScans ==
    {<<Piece("scan", n), Piece("EOI", 2)>> : n \in {1, 70}}
    \cup {<<Piece("scan", 3), Piece("RST", 2), Piece("scan", 3), Piece("EOI", 2)>>,
          <<Piece("scan", 3), Piece("DHT", 33), Piece("EOI", 2), Piece("rest", 5)>>,
          <<Piece("scan", 3), Piece("EOI", 2), Piece("rest", 5)>>,
          <<Piece("scan", 3)>>, <<Piece("scan", 70), Piece("DHT", 33)>>, <<>>,
          <<Piece("EOI", 2)>>, <<Piece("DQT", 69), Piece("EOI", 2)>>}

\* With a start marker, first or not, or without; and the images of the
\* simulated camera.
MCFiles ==
    {FileOf(<<Piece("SOI", 2)>> \o h \o <<Piece("SOS", 14)>> \o s) :
        h \in MCHeaders, s \in MCScans}
    \cup {FileOf(<<Piece("APP0", n), Piece("SOI", 2), Piece("SOS", 14)>> \o s) :
            n \in {4, 5, 18}, s \in MCScans}
    \cup {FileOf(first \o h) :
            first \in {<<Piece("SOI", 2)>>, <<Piece("APP0", 18)>>}, h \in MCHeaders}
    \cup {StreamedImage(showBig) : showBig \in BOOLEAN}

\* The constants of the simulated camera are the lengths of its images.
ASSUME SimulatedLengths ==
    \A showBig \in BOOLEAN :
        LET f == StreamedImage(showBig)
        IN  f.begin[Count(f) + 1] = StreamedLen(showBig)
=============================================================================
