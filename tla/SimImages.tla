----------------------------- MODULE SimImages ------------------------------
(***************************************************************************)
(* The two images of JPEGSamples.cpp as the pieces they are made of, and   *)
(* the choice SimStreamer makes between them.                              *)
(***************************************************************************)
EXTENDS Integers, Sequences

\* A piece and its length in bytes.
Piece(kind, size) == [kind |-> kind, size |-> size]

\* A file as JpegDecode has it, made of pieces.
FileOf(pieces) ==
    LET begin[i \in 1 .. Len(pieces) + 1] ==
            IF i = 1 THEN 0 ELSE begin[i - 1] + pieces[i - 1].size
    IN  [kind |-> [i \in 1 .. Len(pieces) |-> pieces[i].kind], begin |-> begin]

Beginning ==
    <<Piece("SOI", 2), Piece("APP0", 18), Piece("DQT", 69), Piece("DQT", 69)>>

HuffmanTables ==
    <<Piece("DHT", 33), Piece("DHT", 183), Piece("DHT", 33), Piece("DHT", 183)>>

\* capture_jpg: the camera filled the buffer beyond the end of the image.
capture_jpg ==
    FileOf(Beginning \o HuffmanTables
           \o <<Piece("SOF0", 19), Piece("SOS", 14), Piece("scan", 23267),
                Piece("EOI", 2), Piece("rest", 908)>>)

octo_jpg ==
    FileOf(Beginning \o <<Piece("SOF0", 19)>> \o HuffmanTables
           \o <<Piece("SOS", 14), Piece("scan", 14192), Piece("EOI", 2)>>)

capture_jpg_len == 24800
octo_jpg_len == 14817

\* SimStreamer::streamImage; the length handed to streamFrame is that of a
\* constant of its own.
StreamedImage(showBig) == IF showBig THEN capture_jpg ELSE octo_jpg
StreamedLen(showBig) == IF showBig THEN capture_jpg_len ELSE octo_jpg_len
=============================================================================
