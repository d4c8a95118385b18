----------------------------- MODULE JpegDecode -----------------------------
(***************************************************************************)
(* decodeJPEGfile: finds the quantization tables and the scan in a JPEG    *)
(* file, with findJPEGheader, nextJpegBlock and skipScanBytes.             *)
(*                                                                         *)
(* A file is a sequence of pieces with their first byte's offset.  A piece *)
(* is a marker with its section, entropy-coded data, or what is left after *)
(* the end.  The pointers of the code always come to stand at the          *)
(* beginning of a piece: "at" and "from" are numbers of pieces, start, the *)
(* tables and len are bytes.  One iteration of findJPEGheader's loop is a  *)
(* step.                                                                   *)
(***************************************************************************)
EXTENDS Integers, Sequences

CONSTANTS
    Files,      \* the files
    LenMod      \* lengths are computed modulo this: 2^32 for uint32_t

Known == {"APP0", "DQT", "DHT", "SOF0", "SOS"}   \* skipped by their length
Bare == {"SOI", "EOI", "RST"}                    \* two bytes, no section
Data == {"scan", "rest"}                         \* no 0xff and a marker

\* "other": a marker with a section whose length the code does not know.
Kinds == Known \cup Bare \cup Data \cup {"other"}

Count(f) == Len(f.kind)

\* Offsets grow; a marker takes two bytes and a section's length at least two
\* more; entropy-coded data end at a marker or with the file, and only the end
\* of the image is followed by anything else.
IsFile(f) ==
    /\ f.kind \in Seq(Kinds)
    /\ f.begin \in [1 .. Count(f) + 1 -> Nat]
    /\ f.begin[1] = 0
    /\ \A i, j \in 1 .. Count(f) + 1 : i < j => f.begin[i] < f.begin[j]
    /\ \A i \in 1 .. Count(f) :
          /\ f.kind[i] \in Bare => f.begin[i + 1] = f.begin[i] + 2
          /\ f.kind[i] \in Known => f.begin[i + 1] >= f.begin[i] + 4
          /\ i < Count(f) /\ f.kind[i] = "scan" => f.kind[i + 1] \notin Data
          /\ f.kind[i] = "rest" => i = Count(f) /\ i > 1 /\ f.kind[i - 1] = "EOI"

ASSUME FilesAssumption ==
    /\ LenMod \in Nat
    /\ \A f \in Files : IsFile(f) /\ f.begin[Count(f) + 1] < LenMod

NULL == -1

VARIABLES
    file,         \* the file, dataLen is its length
    stage,        \* what is looked for; "astray" once a loop reads on behind the
                  \* file, "done" once decodeJPEGfile returned
    from,         \* *start of the running search
    at,           \* bytes, in the running search
    limit,        \* *len of the running search
    start,        \* *start of decodeJPEGfile
    len,          \* *len of decodeJPEGfile
    qtable0,
    qtable1,
    outside,      \* whether a byte behind the file has been read
    result

vars == <<file, stage, from, at, limit, start, len, qtable0, qtable1, outside, result>>

FileLen == file.begin[Count(file) + 1]
Kind(i) == file.kind[i]
Offset(i) == file.begin[i]

\* The marker searched for.
Marker ==
    CASE stage = "image" -> "SOI"
      [] stage \in {"table0", "table1"} -> "DQT"
      [] stage = "header" -> "SOS"
      [] stage = "end" -> "EOI"

Searching == stage \in {"image", "table0", "table1", "header", "end"}

-----------------------------------------------------------------------------
(* findJPEGheader *)

InLimit == Offset(at) - Offset(from) < limit

Hit == Searching /\ InLimit /\ at <= Count(file) /\ Kind(at) = Marker

\* The byte behind an unknown marker belongs to a length and is no 0xff.
Miss ==
    /\ Searching
    /\ \/ ~InLimit
       \/ at <= Count(file) /\ Kind(at) # Marker /\ Kind(at) \in Data \cup {"other"}

\* Mutant: a marker without a section is not stepped over.
SkipSectionStays ==
    /\ Searching
    /\ InLimit
    /\ at <= Count(file)
    /\ Kind(at) # Marker
    /\ Kind(at) \in Known \cup Bare
    /\ at' = IF Kind(at) = "RST" THEN at ELSE at + 1
    /\ UNCHANGED <<file, stage, from, limit, start, len, qtable0, qtable1, outside, result>>

\* Mutant: data that do not begin with 0xff are read over.
SkipSectionUnframed ==
    /\ Searching
    /\ InLimit
    /\ at <= Count(file)
    /\ Kind(at) # Marker
    /\ Kind(at) # "other"
    /\ at' = at + 1
    /\ UNCHANGED <<file, stage, from, limit, start, len, qtable0, qtable1, outside, result>>

\* The marker found is not the one searched for.
SkipSection ==
    /\ Searching
    /\ InLimit
    /\ at <= Count(file)
    /\ Kind(at) # Marker
    /\ Kind(at) \in Known \cup Bare
    /\ at' = at + 1
    /\ UNCHANGED <<file, stage, from, limit, start, len, qtable0, qtable1, outside, result>>

LeaveFile ==
    /\ outside' = TRUE
    /\ stage' = "astray"
    /\ UNCHANGED <<from, at, limit, result>>

\* The loop reads on behind the file.
ReadOutside ==
    /\ Searching
    /\ InLimit
    /\ at > Count(file)
    /\ LeaveFile
    /\ UNCHANGED <<file, start, len, qtable0, qtable1>>

\* *len after a hit: what is left behind the marker.  When the limit ends inside
\* the marker, that is a very large number.
LeftAfterHit == (limit - (Offset(at) + 2 - Offset(from))) % LenMod

Search(what, piece, length) ==
    /\ stage' = what
    /\ from' = piece
    /\ at' = piece
    /\ limit' = length

Return(value) ==
    /\ stage' = "done"
    /\ result' = value
    /\ UNCHANGED <<from, at, limit>>

-----------------------------------------------------------------------------
(* decodeJPEGfile *)

\* It searches with a copy of *start, and with *len itself.
ImageFound ==
    /\ stage = "image" /\ Hit
    /\ len' = LeftAfterHit
    /\ Search("table0", 1, len')
    /\ qtable0' = NULL
    /\ qtable1' = NULL
    /\ UNCHANGED <<file, start, outside, result>>

ImageMissing ==
    /\ stage = "image" /\ Miss
    /\ Return(FALSE)
    /\ UNCHANGED <<file, start, len, qtable0, qtable1, outside>>

\* The piece behind the section of the marker in piece i.
NextJpegBlock(i) == i + 1

\* Mutant: nextJpegBlock is not called.
Table0FoundNoNext ==
    /\ stage = "table0" /\ Hit
    /\ qtable0' = Offset(at) + 5
    /\ Search("table1", at, LeftAfterHit)
    /\ UNCHANGED <<file, start, len, qtable1, outside, result>>

\* Mutant: nextJpegBlock is called twice.
Table0FoundNextTwice ==
    /\ stage = "table0" /\ Hit
    /\ qtable0' = Offset(at) + 5
    /\ Search("table1", at + 2, LeftAfterHit)
    /\ UNCHANGED <<file, start, len, qtable1, outside, result>>

\* nextJpegBlock moves the copy of *start, but not the length left.
Table0Found ==
    /\ stage = "table0" /\ Hit
    /\ qtable0' = Offset(at) + 5
    /\ Search("table1", NextJpegBlock(at), LeftAfterHit)
    /\ UNCHANGED <<file, start, len, qtable1, outside, result>>

Table0Missing ==
    /\ stage = "table0" /\ Miss
    /\ Search("header", 1, len)
    /\ UNCHANGED <<file, start, len, qtable0, qtable1, outside, result>>

Table1Found ==
    /\ stage = "table1" /\ Hit
    /\ qtable1' = Offset(at) + 5
    /\ Search("header", 1, len)
    /\ UNCHANGED <<file, start, len, qtable0, outside, result>>

\* The pointer still stands behind the first table; nextJpegBlock reads two
\* bytes there.
Table1Missing ==
    /\ stage = "table1" /\ Miss
    /\ qtable1' = Offset(from) + 3
    /\ outside' = (outside \/ Offset(from) + 2 > FileLen)
    /\ Search("header", 1, len)
    /\ UNCHANGED <<file, start, len, qtable0, result>>

\* Mutant: the section of the SOS marker is not skipped.
HeaderFoundNoSkip ==
    /\ stage = "header" /\ Hit
    /\ start' = Offset(at) + 2
    /\ len' = LeftAfterHit
    /\ stage' = "scan"
    /\ at' = at + 1
    /\ UNCHANGED <<file, from, limit, qtable0, qtable1, outside, result>>

\* The SOS marker is found, and its section skipped.
HeaderFound ==
    /\ stage = "header" /\ Hit
    /\ start' = Offset(at + 1)
    /\ len' = (LeftAfterHit - (Offset(at + 1) - (Offset(at) + 2))) % LenMod
    /\ stage' = "scan"
    /\ at' = at + 1
    /\ UNCHANGED <<file, from, limit, qtable0, qtable1, outside, result>>

HeaderMissing ==
    /\ stage = "header" /\ Miss
    /\ Return(FALSE)
    /\ UNCHANGED <<file, start, len, qtable0, qtable1, outside>>

\* Where a marker follows the scan that begins with piece i, if there is one.
ScanEnds(i) ==
    {j \in {i, i + 1} :
        /\ j <= Count(file)
        /\ Kind(j) \notin Data
        /\ j = i + 1 => Kind(i) = "scan"}

\* Mutant: the end marker itself is taken for scan data.
SkipScanBytesOver ==
    /\ stage = "scan"
    /\ \/ \E j \in ScanEnds(at) :
             /\ Search("end", IF j < Count(file) THEN j + 1 ELSE j, len)
             /\ UNCHANGED <<outside, result>>
       \/ ScanEnds(at) = {} /\ LeaveFile
    /\ UNCHANGED <<file, start, len, qtable0, qtable1>>

\* skipScanBytes knows no length: without a marker it leaves the file.
SkipScanBytes ==
    /\ stage = "scan"
    /\ \/ \E j \in ScanEnds(at) :
             /\ Search("end", j, len)
             /\ UNCHANGED <<outside, result>>
       \/ ScanEnds(at) = {} /\ LeaveFile
    /\ UNCHANGED <<file, start, len, qtable0, qtable1>>

\* What lies behind the file decides whether decodeJPEGfile ever returns, and
\* with what; the start and length it would hand on are left out.
ReadOn ==
    /\ stage = "astray"
    /\ \E value \in BOOLEAN : Return(value)
    /\ UNCHANGED <<file, start, len, qtable0, qtable1, outside>>

\* *len counts up to the end marker, that marker included.
EndFound ==
    /\ stage = "end" /\ Hit
    /\ len' = Offset(at) + 2 - start
    /\ Return(TRUE)
    /\ UNCHANGED <<file, start, qtable0, qtable1, outside>>

EndMissing ==
    /\ stage = "end" /\ Miss
    /\ Return(FALSE)
    /\ UNCHANGED <<file, start, len, qtable0, qtable1, outside>>

Init ==
    /\ file \in Files
    /\ stage = "image"
    /\ from = 1
    /\ at = 1
    /\ limit = FileLen
    /\ start = 0
    /\ len = FileLen
    /\ qtable0 = NULL
    /\ qtable1 = NULL
    /\ outside = FALSE
    /\ result = FALSE

Decode ==
    \/ SkipSection \/ ReadOutside
    \/ ImageFound \/ ImageMissing
    \/ Table0Found \/ Table0Missing
    \/ Table1Found \/ Table1Missing
    \/ HeaderFound \/ HeaderMissing
    \/ SkipScanBytes
    \/ EndFound \/ EndMissing

Next == Decode \/ ReadOn

Spec == Init /\ [][Next]_vars

\* decodeJPEGfile waits for nothing.  Of a loop that has left the file nothing is
\* assumed: the one of skipScanBytes has no limit.
LiveSpec == Spec /\ WF_vars(Decode)

-----------------------------------------------------------------------------
(* Properties *)

TypeOK ==
    /\ IsFile(file)
    /\ stage \in {"image", "table0", "table1", "header", "scan", "end", "astray", "done"}
    /\ from \in 1 .. Count(file) + 1
    /\ at \in 1 .. Count(file) + 1
    /\ limit \in 0 .. LenMod - 1
    /\ start \in Nat
    /\ len \in 0 .. LenMod - 1
    /\ qtable0 \in Nat \cup {NULL}
    /\ qtable1 \in Nat \cup {NULL}
    /\ outside \in BOOLEAN
    /\ result \in BOOLEAN

\* Piece s is an SOS header, reached over sections of known length alone.
FirstScan(f, s) ==
    /\ s \in 1 .. Count(f)
    /\ f.kind[s] = "SOS"
    /\ \A i \in 1 .. s - 1 : f.kind[i] \in (Known \cup Bare) \ {"SOS"}

\* A file with a scan that ends at a marker, and in which the marker of the end
\* comes before the file is over, or something that ends the search for it.
IsFramed(f) ==
    \E s \in 1 .. Count(f) :
        /\ FirstScan(f, s)
        /\ s + 2 <= Count(f)
        /\ f.kind[s + 1] = "scan"
        /\ \E e \in s + 2 .. Count(f) : f.kind[e] \in Data \cup {"EOI", "other"}

\* What a camera delivers: an image of one scan, of known sections, not
\* divided by restart markers.
IsBaseline(f) ==
    /\ f.kind[1] = "SOI"
    /\ \E s \in 1 .. Count(f) :
          /\ FirstScan(f, s)
          /\ s + 2 <= Count(f)
          /\ f.kind[s + 1] = "scan"
          /\ f.kind[s + 2] = "EOI"

\* The pieces that are quantization tables of the first image.
Tables(f) ==
    {i \in 1 .. Count(f) :
        /\ f.kind[i] = "DQT"
        /\ \E s \in i .. Count(f) : FirstScan(f, s)}

Accepted == stage = "done" /\ ~outside /\ result

\* In spite of the lengths that are 2 too small after the start marker and a
\* section too large after the first table, and though skipScanBytes has no
\* limit at all, no byte behind the file is read when the scan ends at a marker
\* and the image has an end.
StaysInside == outside => ~IsFramed(file)

\* The data handed to the client are the scan of the image and its end marker,
\* whatever follows in the buffer.
ScanExact ==
    Accepted =>
        \E s \in 1 .. Count(file) :
            /\ FirstScan(file, s)
            /\ start = Offset(s + 1)
            /\ \E e \in s + 1 .. Count(file) :
                  /\ Kind(e) = "EOI"
                  /\ start + len = Offset(e + 1)
                  /\ \A i \in s + 1 .. e - 1 : Kind(i) \notin {"EOI", "rest", "other"}
                  /\ \A i \in s + 2 .. e - 1 : Kind(i) # "scan"

\* Every image of the cameras is accepted.
BaselineAccepted == stage = "done" /\ IsBaseline(file) => Accepted

\* The first two tables in sections of their own are both found, and nothing is
\* announced as a table when there is none ("If quant tables can be found they
\* will be stored in qtable0/1").  Of a single section the first table is found;
\* the second is taken from whatever follows.  Of an image whose scan is empty
\* the code would take tables behind the scan for those of the image.
TablesFound ==
    Accepted /\ IsFramed(file) =>
        \/ Tables(file) = {} /\ {qtable0, qtable1} = {NULL}
        \/ \E i \in Tables(file) :
              /\ qtable0 = Offset(i) + 5
              /\ \A t \in Tables(file) \ {i} : i < t
              /\ \/ Tables(file) = {i}
                 \/ \E j \in Tables(file) \ {i} :
                       /\ qtable1 = Offset(j) + 5
                       /\ \A t \in Tables(file) : t \in {i, j} \/ j < t

\* decodeJPEGfile returns, though every loop but one ends by lengths that may be
\* wrong, unless it reads on behind a file that is cut short or has no marker
\* behind its scan ("FIXME, check against length").
Returns == <>(stage = "done" \/ (stage = "astray" /\ ~IsFramed(file)))
=============================================================================
