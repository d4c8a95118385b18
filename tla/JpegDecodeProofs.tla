-------------------------- MODULE JpegDecodeProofs --------------------------
(***************************************************************************)
(* What decodeJPEGfile finds in a file, for every set of files.            *)
(*                                                                         *)
(* The argument: every search has passed sections of known length only,    *)
(* none of them the one it looks for (Walked), from the beginning of the   *)
(* file or from behind the first table (Begun).  The limits of the         *)
(* searches are wrong by a few bytes, but those for the tables are no      *)
(* smaller than the one for the scan, so a table before a scan that is     *)
(* found is never missed (TablesSought).                                   *)
(***************************************************************************)
EXTENDS JpegDecode, TLAPS

Skippable == Known \cup Bare

\* A search from the beginning of the file can come to piece i.
Reached(i) == \A j \in 1 .. i - 1 : Kind(j) \in Skippable

FirstTable(i) ==
    /\ i \in 1 .. Count(file) /\ Kind(i) = "DQT" /\ Reached(i)
    /\ \A j \in 1 .. i - 1 : Kind(j) # "DQT"

\* j is the first table behind piece i.
NextTable(i, j) ==
    /\ j \in i + 1 .. Count(file) /\ Kind(j) = "DQT" /\ Reached(j)
    /\ \A m \in i + 1 .. j - 1 : Kind(m) # "DQT"

\* From piece i on, there is no table within the first b bytes.
NoTableBelow(i, b) ==
    \A j \in i .. Count(file) : Kind(j) = "DQT" /\ Reached(j) => Offset(j) >= b

Walked ==
    Searching => /\ from <= at
                 /\ \A i \in from .. at - 1 : Kind(i) \in Skippable \ {Marker}

Begun ==
    /\ stage \in {"image", "table0", "header"} => from = 1
    /\ stage = "table1" => from > 1 /\ Reached(from)

Limits ==
    /\ stage = "image" => limit = FileLen
    /\ stage \in {"table0", "header", "end"} => limit = len
    /\ stage \in {"table0", "table1", "header"} /\ IsBaseline(file) => len = FileLen - 2

TablesSought ==
    /\ stage = "table0" => qtable0 = NULL /\ qtable1 = NULL
    /\ stage = "table1" =>
          /\ FirstTable(from - 1) /\ qtable0 = Offset(from - 1) + 5
          /\ qtable1 = NULL
          /\ Offset(from - 1) < len
          /\ limit = (len - (Offset(from - 1) + 2)) % LenMod
    /\ stage = "header" =>
          \/ qtable0 = NULL /\ qtable1 = NULL /\ NoTableBelow(1, len)
          \/ \E i \in 1 .. Count(file) :
                /\ FirstTable(i) /\ qtable0 = Offset(i) + 5
                /\ \/ NoTableBelow(i + 1, len)
                   \/ \E j \in 1 .. Count(file) : NextTable(i, j) /\ qtable1 = Offset(j) + 5

\* What TablesFound says of the tables.
TablesRight ==
    \/ Tables(file) = {} /\ {qtable0, qtable1} = {NULL}
    \/ \E i \in Tables(file) :
          /\ qtable0 = Offset(i) + 5
          /\ \A t \in Tables(file) \ {i} : i < t
          /\ \/ Tables(file) = {i}
             \/ \E j \in Tables(file) \ {i} :
                   /\ qtable1 = Offset(j) + 5
                   /\ \A t \in Tables(file) : t \in {i, j} \/ j < t

TablesKept == (stage \in {"scan", "end"} \/ result) /\ IsFramed(file) => TablesRight

AtScan ==
    stage \in {"scan", "end"} =>
        \E s \in 1 .. Count(file) :
            /\ FirstScan(file, s)
            /\ start = Offset(s + 1)
            /\ stage = "scan" => at = s + 1
            /\ stage = "end" => from \in ScanEnds(s + 1)
            /\ IsBaseline(file) => len = FileLen - 2 - Offset(s + 1)

\* What ScanExact says of the scan.
ScanRight ==
    \E s \in 1 .. Count(file) :
        /\ FirstScan(file, s)
        /\ start = Offset(s + 1)
        /\ \E e \in s + 1 .. Count(file) :
              /\ Kind(e) = "EOI"
              /\ start + len = Offset(e + 1)
              /\ \A i \in s + 1 .. e - 1 : Kind(i) \notin {"EOI", "rest", "other"}
              /\ \A i \in s + 2 .. e - 1 : Kind(i) # "scan"

ResultRight == result => stage = "done" /\ (outside \/ ScanRight)

BaselineDone == stage = "done" /\ IsBaseline(file) => result

Astray == stage = "astray" => outside

JInv ==
    /\ file \in Files
    /\ TypeOK
    /\ StaysInside
    /\ Walked
    /\ Begun
    /\ Limits
    /\ TablesSought
    /\ TablesKept
    /\ AtScan
    /\ ResultRight
    /\ BaselineDone
    /\ Astray

\* The parts of JInv about a running search, and about its outcome.
Searches == Walked /\ Begun /\ Limits /\ TablesSought /\ TablesKept /\ AtScan

Outcome == StaysInside /\ ResultRight /\ BaselineDone /\ Astray

-----------------------------------------------------------------------------
(* Files *)

LEMMA FileFacts ==
    ASSUME file \in Files
    PROVE  /\ Count(file) \in Nat
           /\ \A i \in 1 .. Count(file) : Kind(i) \in Kinds
           /\ \A i \in 1 .. Count(file) + 1 : Offset(i) \in Nat /\ Offset(i) <= FileLen
           /\ Offset(1) = 0
           /\ \A i, j \in 1 .. Count(file) + 1 : i < j => Offset(i) < Offset(j)
           /\ \A i \in 1 .. Count(file) :
                 /\ Kind(i) \in Bare => Offset(i + 1) = Offset(i) + 2
                 /\ Kind(i) \in Known => Offset(i + 1) >= Offset(i) + 4
                 /\ Kind(i) \in Skippable => Offset(i + 1) >= Offset(i) + 2
                 /\ i < Count(file) /\ Kind(i) = "scan" => Kind(i + 1) \notin Data
           /\ FileLen \in Nat /\ FileLen < LenMod /\ LenMod \in Nat
<1>1. IsFile(file) /\ FileLen < LenMod /\ LenMod \in Nat
  BY FilesAssumption DEF FileLen
<1>2. file.kind \in Seq(Kinds) /\ Count(file) \in Nat
  BY <1>1 DEF IsFile, Count
<1>3. \A i \in 1 .. Count(file) : Kind(i) \in Kinds
  BY <1>2 DEF Count, Kind
<1>4. \A i \in 1 .. Count(file) + 1 : Offset(i) \in Nat
  BY <1>1 DEF IsFile, Offset
<1>5. /\ Offset(1) = 0
      /\ \A i, j \in 1 .. Count(file) + 1 : i < j => Offset(i) < Offset(j)
  BY <1>1 DEF IsFile, Offset
<1>6. FileLen = Offset(Count(file) + 1) /\ Count(file) + 1 \in 1 .. Count(file) + 1
  BY <1>2 DEF FileLen, Offset
<1>7. ASSUME NEW i \in 1 .. Count(file) + 1
      PROVE  Offset(i) <= FileLen
  <2>1. CASE i = Count(file) + 1
    BY <1>4, <1>6, <2>1
  <2>2. CASE i < Count(file) + 1
    <3>1. Offset(i) < Offset(Count(file) + 1)
      BY <1>5, <1>6, <2>2
    <3>. QED
      BY <1>4, <1>6, <3>1
  <2>. QED
    BY <1>2, <2>1, <2>2
<1>8. ASSUME NEW i \in 1 .. Count(file)
      PROVE  /\ Kind(i) \in Bare => Offset(i + 1) = Offset(i) + 2
             /\ Kind(i) \in Known => Offset(i + 1) >= Offset(i) + 4
             /\ i < Count(file) /\ Kind(i) = "scan" => Kind(i + 1) \notin Data
  BY <1>1 DEF IsFile, Offset, Kind
<1>9. \A i \in 1 .. Count(file) : Kind(i) \in Skippable => Offset(i + 1) >= Offset(i) + 2
  <2> TAKE i \in 1 .. Count(file)
  <2>1. Offset(i) \in Nat /\ Offset(i + 1) \in Nat
    BY <1>2, <1>4
  <2>. QED
    BY <1>8, <2>1 DEF Skippable
<1>. QED
  BY <1>1, <1>2, <1>3, <1>4, <1>5, <1>6, <1>7, <1>8, <1>9

\* There is one scan that sections of known length lead to.
LEMMA FirstScanUnique ==
    ASSUME file \in Files, NEW s, NEW t, FirstScan(file, s), FirstScan(file, t)
    PROVE  s = t
<1>1. Count(file) \in Nat /\ s \in 1 .. Count(file) /\ t \in 1 .. Count(file)
  BY FileFacts DEF FirstScan
<1>2. ASSUME NEW x \in 1 .. Count(file), NEW y \in 1 .. Count(file),
             FirstScan(file, x), FirstScan(file, y)
      PROVE  ~(x < y)
  BY <1>1, <1>2 DEF FirstScan
<1>. QED
  BY <1>1, <1>2

\* A search from the beginning of a framed file does not get past its scan.
LEMMA ReachEnds ==
    ASSUME file \in Files, NEW s \in 1 .. Count(file), FirstScan(file, s),
           s + 1 <= Count(file), Kind(s + 1) = "scan",
           NEW i \in 1 .. Count(file) + 1, Reached(i)
    PROVE  i <= s + 1
<1>1. Count(file) \in Nat
  BY FileFacts
<1>2. Kind(s + 1) \notin Skippable
  BY DEF Skippable, Known, Bare
<1>. QED
  BY <1>1, <1>2 DEF Reached

LEMMA BaselineIsFramed ==
    ASSUME file \in Files, IsBaseline(file)
    PROVE  IsFramed(file) /\ Kind(1) = "SOI" /\ Count(file) >= 1
<1>1. PICK s \in 1 .. Count(file) :
          /\ FirstScan(file, s)
          /\ s + 2 <= Count(file)
          /\ file.kind[s + 1] = "scan"
          /\ file.kind[s + 2] = "EOI"
  BY DEF IsBaseline
<1>2. Count(file) \in Nat
  BY FileFacts
<1>3. s + 2 \in s + 2 .. Count(file)
  BY <1>1, <1>2
<1>. QED
  BY <1>1, <1>2, <1>3 DEF IsFramed, IsBaseline, Kind

-----------------------------------------------------------------------------
(* The searches *)

\* A search stands within the file or at its end; what it has passed can be
\* passed from the beginning as well, but for the search for the end.
LEMMA SearchReaches ==
    ASSUME JInv, stage \in {"image", "table0", "table1", "header"}
    PROVE  Reached(at) /\ from \in 1 .. at /\ at \in 1 .. Count(file) + 1
<1> USE DEF JInv
<1>1. /\ from \in 1 .. Count(file) + 1 /\ at \in 1 .. Count(file) + 1
      /\ Count(file) \in Nat
  BY FileFacts DEF TypeOK
<1>2. from <= at /\ \A i \in from .. at - 1 : Kind(i) \in Skippable
  BY DEF Walked, Searching
<1>3. \A i \in 1 .. from - 1 : Kind(i) \in Skippable
  BY DEF Begun, Reached
<1>4. Reached(at)
  <2>1. ASSUME NEW i \in 1 .. at - 1
        PROVE  Kind(i) \in Skippable
    <3>1. i \in 1 .. from - 1 \/ i \in from .. at - 1
      BY <1>1, <1>2
    <3>. QED
      BY <1>2, <1>3, <3>1
  <2>. QED
    BY <2>1 DEF Reached
<1>. QED
  BY <1>1, <1>2, <1>4

\* In a framed file none of these searches leaves the file, nor does the
\* search for the end.
LEMMA FramedSearchEnds ==
    ASSUME JInv, Searching, IsFramed(file)
    PROVE  at <= Count(file)
<1> USE DEF JInv
<1>1. /\ from \in 1 .. Count(file) + 1 /\ at \in 1 .. Count(file) + 1
      /\ Count(file) \in Nat
  BY FileFacts DEF TypeOK
<1>2. PICK s \in 1 .. Count(file) :
          /\ FirstScan(file, s)
          /\ s + 2 <= Count(file)
          /\ Kind(s + 1) = "scan"
          /\ \E e \in s + 2 .. Count(file) : Kind(e) \in Data \cup {"EOI", "other"}
  BY DEF IsFramed, Kind
<1>3. CASE stage = "end"
  <2>1. PICK z \in 1 .. Count(file) : FirstScan(file, z) /\ from \in ScanEnds(z + 1)
    BY <1>3 DEF AtScan
  <2>2. z = s
    BY <1>2, <2>1, FirstScanUnique
  <2>3. from = s + 2
    <3>1. from \in {s + 1, (s + 1) + 1} /\ Kind(from) \notin Data
      BY <2>1, <2>2 DEF ScanEnds
    <3>2. from # s + 1
      BY <1>2, <3>1 DEF Data
    <3>. QED
      BY <1>1, <3>1, <3>2
  <2>4. PICK e \in s + 2 .. Count(file) : Kind(e) \in Data \cup {"EOI", "other"}
    BY <1>2
  <2>5. \A i \in from .. at - 1 : Kind(i) \in Skippable \ {"EOI"}
    BY <1>3 DEF Walked, Searching, Marker
  <2>6. Kind(e) \notin Skippable \ {"EOI"}
    BY <2>4 DEF Skippable, Known, Bare, Data
  <2>7. ~(e < at)
    BY <1>1, <2>3, <2>4, <2>5, <2>6
  <2>. QED
    BY <1>1, <2>4, <2>7
<1>4. CASE stage # "end"
  <2>1. Reached(at)
    BY <1>4, SearchReaches DEF Searching
  <2>2. at <= s + 1
    BY <1>1, <1>2, <2>1, ReachEnds
  <2>. QED
    BY <1>1, <1>2, <2>2
<1>. QED
  BY <1>3, <1>4

\* What a search finds.
LEMMA HitFacts ==
    ASSUME JInv, Hit
    PROVE  /\ at \in 1 .. Count(file) /\ from \in 1 .. at
           /\ Kind(at) = Marker /\ Searching
           /\ \A i \in from .. at - 1 : Kind(i) \in Skippable /\ Kind(i) # Marker
           /\ Offset(at) - Offset(from) < limit
           /\ Offset(at) \in Nat /\ Offset(from) \in Nat /\ Offset(from) <= Offset(at)
           /\ limit \in Nat /\ LeftAfterHit \in 0 .. LenMod - 1
<1> USE DEF JInv
<1>1. /\ at \in 1 .. Count(file) + 1 /\ from \in 1 .. Count(file) + 1
      /\ limit \in 0 .. LenMod - 1 /\ Count(file) \in Nat
  BY FileFacts DEF TypeOK
<1>2. /\ at <= Count(file) /\ Kind(at) = Marker /\ Searching
      /\ Offset(at) - Offset(from) < limit
  BY DEF Hit, InLimit
<1>3. from <= at /\ \A i \in from .. at - 1 : Kind(i) \in Skippable /\ Kind(i) # Marker
  BY <1>2 DEF Walked
<1>4. Offset(at) \in Nat /\ Offset(from) \in Nat /\ LenMod \in Nat
  BY <1>1, FileFacts
<1>5. Offset(from) <= Offset(at)
  <2>1. CASE from = at
    BY <1>4, <2>1
  <2>2. CASE from < at
    BY <1>1, <1>4, <2>2, FileFacts
  <2>. QED
    BY <1>1, <1>3, <2>1, <2>2
<1>6. limit \in Nat /\ LenMod > 0
  BY <1>1, <1>4
<1>7. LeftAfterHit \in 0 .. LenMod - 1
  BY <1>4, <1>6 DEF LeftAfterHit
<1>. QED
  BY <1>1, <1>2, <1>3, <1>4, <1>5, <1>6, <1>7

LEMMA TypeStep ==
    ASSUME JInv, Next
    PROVE  TypeOK' /\ (file \in Files)'
<1> USE DEF JInv
<1>1. /\ file' = file /\ file \in Files /\ IsFile(file)
      /\ Count(file) \in Nat /\ LenMod \in Nat /\ FileLen \in Nat /\ FileLen < LenMod
      /\ \A i \in 1 .. Count(file) + 1 : Offset(i) \in Nat
  <2>1. file' = file
    BY DEF Next, Decode, ReadOn, SkipSection, ReadOutside, ImageFound, ImageMissing, Table0Found,
           Table0Missing, Table1Found, Table1Missing, HeaderFound, HeaderMissing,
           SkipScanBytes, EndFound, EndMissing
  <2>. QED
    BY <2>1, FileFacts DEF TypeOK
<1>2. /\ from \in 1 .. Count(file) + 1 /\ at \in 1 .. Count(file) + 1
      /\ limit \in 0 .. LenMod - 1 /\ start \in Nat /\ len \in 0 .. LenMod - 1
      /\ qtable0 \in Nat \cup {NULL} /\ qtable1 \in Nat \cup {NULL}
      /\ outside \in BOOLEAN /\ result \in BOOLEAN
      /\ stage \in {"image", "table0", "table1", "header", "scan", "end", "astray", "done"}
  BY DEF TypeOK
<1>3. ASSUME /\ from' \in 1 .. Count(file) + 1 /\ at' \in 1 .. Count(file) + 1
             /\ limit' \in 0 .. LenMod - 1 /\ start' \in Nat /\ len' \in 0 .. LenMod - 1
             /\ qtable0' \in Nat \cup {NULL} /\ qtable1' \in Nat \cup {NULL},
             outside' \in BOOLEAN /\ result' \in BOOLEAN,
             stage' \in {"image", "table0", "table1", "header", "scan", "end", "astray", "done"}
      PROVE  TypeOK'
  BY <1>1, <1>3 DEF TypeOK
<1>4. /\ Hit => LeftAfterHit \in 0 .. LenMod - 1 /\ at \in 1 .. Count(file)
      /\ 1 \in 1 .. Count(file) + 1
  BY <1>1, HitFacts
<1>5. CASE SkipSection
  <2>1. at + 1 \in 1 .. Count(file) + 1
    BY <1>1, <1>2, <1>5 DEF SkipSection
  <2>. QED
    BY <1>1, <1>2, <1>3, <1>5, <2>1 DEF SkipSection
<1>6. CASE ReadOutside
  BY <1>1, <1>2, <1>3, <1>6 DEF ReadOutside, LeaveFile
<1>7. CASE ImageFound
  BY <1>1, <1>2, <1>3, <1>4, <1>7 DEF ImageFound, Search
<1>8. CASE ImageMissing \/ HeaderMissing \/ EndMissing
  BY <1>1, <1>2, <1>3, <1>8 DEF ImageMissing, HeaderMissing, EndMissing, Return
<1>9. CASE Table0Found
  <2>1. at + 1 \in 1 .. Count(file) + 1 /\ Offset(at) + 5 \in Nat
    BY <1>1, <1>2, <1>4, <1>9 DEF Table0Found
  <2>. QED
    BY <1>1, <1>2, <1>3, <1>4, <1>9, <2>1 DEF Table0Found, Search, NextJpegBlock
<1>10. CASE Table0Missing
  BY <1>1, <1>2, <1>3, <1>4, <1>10 DEF Table0Missing, Search
<1>11. CASE Table1Found
  <2>1. Offset(at) + 5 \in Nat
    BY <1>1, <1>2, <1>4, <1>11 DEF Table1Found
  <2>. QED
    BY <1>1, <1>2, <1>3, <1>4, <1>11, <2>1 DEF Table1Found, Search
<1>12. CASE Table1Missing
  <2>1. Offset(from) + 3 \in Nat
    BY <1>1, <1>2
  <2>2. outside' \in BOOLEAN
    BY <1>12 DEF Table1Missing
  <2>. QED
    BY <1>1, <1>2, <1>3, <1>4, <1>12, <2>1, <2>2 DEF Table1Missing, Search
<1>13. CASE HeaderFound
  <2>1. at + 1 \in 1 .. Count(file) + 1 /\ Offset(at + 1) \in Nat /\ Offset(at) \in Nat
    BY <1>1, <1>2, <1>4, <1>13 DEF HeaderFound
  <2>2. len' \in 0 .. LenMod - 1
    <3>1. len' = (LeftAfterHit - (Offset(at + 1) - (Offset(at) + 2))) % LenMod
      BY <1>13 DEF HeaderFound
    <3>2. LeftAfterHit \in 0 .. LenMod - 1
      BY <1>4, <1>13 DEF HeaderFound
    <3>. QED
      BY <1>1, <2>1, <3>1, <3>2
  <2>. QED
    BY <1>1, <1>2, <1>3, <1>13, <2>1, <2>2 DEF HeaderFound
<1>14. CASE SkipScanBytes
  <2>1. /\ at' \in 1 .. Count(file) + 1 /\ from' \in 1 .. Count(file) + 1
        /\ limit' \in 0 .. LenMod - 1
    BY <1>1, <1>2, <1>14 DEF SkipScanBytes, Search, LeaveFile, ScanEnds
  <2>2. outside' \in BOOLEAN /\ result' \in BOOLEAN /\ stage' \in {"end", "astray"}
    BY <1>2, <1>14 DEF SkipScanBytes, Search, LeaveFile
  <2>. QED
    BY <1>1, <1>2, <1>3, <1>14, <2>1, <2>2 DEF SkipScanBytes
<1>15. CASE EndFound
  <2>1. len' \in 0 .. LenMod - 1
    <3>1. PICK s \in 1 .. Count(file) : start = Offset(s + 1) /\ from \in ScanEnds(s + 1)
      BY <1>15 DEF EndFound, AtScan
    <3>2. /\ at \in 1 .. Count(file) /\ from <= at /\ Kind(at) = "EOI"
      BY <1>15, HitFacts DEF EndFound, Marker
    <3>3. s + 1 <= from
      BY <1>1, <3>1 DEF ScanEnds
    <3>4. Offset(s + 1) <= Offset(at)
      <4>1. CASE s + 1 = at
        BY <1>1, <3>2, <4>1
      <4>2. CASE s + 1 < at
        BY <1>1, <3>2, <4>2, FileFacts
      <4>. QED
        BY <1>1, <1>2, <3>2, <3>3, <4>1, <4>2
    <3>5. Offset(at) + 2 <= FileLen
      <4>1. Offset(at + 1) = Offset(at) + 2
        BY <3>2, FileFacts DEF Bare
      <4>2. Offset(at + 1) <= FileLen
        BY <1>1, <3>2, FileFacts
      <4>. QED
        BY <4>1, <4>2
    <3>6. len' = Offset(at) + 2 - Offset(s + 1)
      BY <1>15, <3>1 DEF EndFound
    <3>7. Offset(at) \in Nat /\ Offset(s + 1) \in Nat
      BY <1>1, <3>2
    <3>. QED
      BY <1>1, <3>4, <3>5, <3>6, <3>7
  <2>. QED
    BY <1>1, <1>2, <1>3, <1>15, <2>1 DEF EndFound, Return
<1>16. CASE ReadOn
  BY <1>1, <1>2, <1>3, <1>16 DEF ReadOn, Return
<1>. QED
  BY <1>1, <1>5, <1>6, <1>7, <1>8, <1>9, <1>10, <1>11, <1>12, <1>13, <1>14, <1>15, <1>16
     DEF Next, Decode

-----------------------------------------------------------------------------
(* Outcomes *)

\* A step that does not return.
LEMMA GoesOn ==
    ASSUME JInv, file' = file, stage # "done", stage' \notin {"astray", "done"},
           result' = result,
           IsFramed(file) => outside' = outside
    PROVE  Outcome'
<1> USE DEF JInv
<1>1. ~result /\ ~result'
  BY DEF ResultRight, TypeOK
<1>2. StaysInside'
  BY DEF StaysInside
<1>3. ResultRight'
  BY <1>1 DEF ResultRight
<1>4. BaselineDone' /\ Astray'
  BY DEF BaselineDone, Astray
<1>. QED
  BY <1>2, <1>3, <1>4 DEF Outcome

\* A step that gives up.
LEMMA Fails ==
    ASSUME JInv, file' = file, stage' = "done", result' = FALSE,
           IsFramed(file) => outside' = outside, ~IsBaseline(file)
    PROVE  (Searches /\ Outcome)'
<1> USE DEF JInv
<1>1. StaysInside'
  BY DEF StaysInside
<1>2. ResultRight' /\ BaselineDone' /\ Astray'
  BY DEF ResultRight, BaselineDone, Astray
<1>3. Walked' /\ Begun' /\ Limits' /\ TablesSought' /\ TablesKept' /\ AtScan'
  BY DEF Walked, Searching, Begun, Limits, TablesSought, TablesKept, AtScan
<1>. QED
  BY <1>1, <1>2, <1>3 DEF Searches, Outcome

\* A step that leaves the file.
LEMMA GoesAstray ==
    ASSUME JInv, file' = file, stage # "done", LeaveFile, ~IsFramed(file)
    PROVE  (Searches /\ Outcome)'
<1> USE DEF JInv
<1>1. stage' = "astray" /\ outside' /\ result' = result /\ ~result
  BY DEF LeaveFile, ResultRight, TypeOK
<1>2. StaysInside' /\ ResultRight' /\ BaselineDone' /\ Astray'
  BY <1>1 DEF StaysInside, ResultRight, BaselineDone, Astray
<1>3. Walked' /\ Begun' /\ Limits' /\ TablesSought' /\ TablesKept' /\ AtScan'
  BY <1>1 DEF Walked, Searching, Begun, Limits, TablesSought, TablesKept, AtScan
<1>. QED
  BY <1>2, <1>3 DEF Searches, Outcome

LEMMA BaselineFacts ==
    ASSUME file \in Files, IsBaseline(file)
    PROVE  \E s \in 1 .. Count(file) :
              /\ FirstScan(file, s)
              /\ s + 2 <= Count(file)
              /\ Kind(s + 1) = "scan" /\ Kind(s + 2) = "EOI"
              /\ Offset(s) \in Nat /\ Offset(s + 1) \in Nat
              /\ Offset(s) + 4 <= Offset(s + 1)
              /\ Offset(s + 1) < FileLen - 2
<1>1. PICK s \in 1 .. Count(file) :
          /\ FirstScan(file, s)
          /\ s + 2 <= Count(file)
          /\ Kind(s + 1) = "scan"
          /\ Kind(s + 2) = "EOI"
  BY DEF IsBaseline, Kind
<1>2. Count(file) \in Nat /\ s \in Nat /\ FileLen \in Nat
  BY <1>1, FileFacts
<1>3. /\ s \in 1 .. Count(file) + 1 /\ s + 1 \in 1 .. Count(file) + 1
      /\ s + 2 \in 1 .. Count(file) /\ (s + 2) + 1 \in 1 .. Count(file) + 1
      /\ s + 2 \in 1 .. Count(file) + 1
  BY <1>1, <1>2
<1>4. /\ Offset(s) \in Nat /\ Offset(s + 1) \in Nat /\ Offset(s + 2) \in Nat
      /\ Offset((s + 2) + 1) \in Nat /\ Offset((s + 2) + 1) <= FileLen
  BY <1>3, FileFacts
<1>5. Offset(s) + 4 <= Offset(s + 1)
  <2>1. Kind(s) \in Known
    BY <1>1 DEF FirstScan, Kind, Known
  <2>. QED
    BY <1>1, <1>4, <2>1, FileFacts
<1>6. Offset(s + 1) < Offset(s + 2)
  BY <1>2, <1>3, FileFacts
<1>7. Offset((s + 2) + 1) = Offset(s + 2) + 2
  BY <1>1, <1>3, FileFacts DEF Bare
<1>8. Offset(s + 1) < FileLen - 2
  BY <1>2, <1>4, <1>6, <1>7
<1>. QED
  BY <1>1, <1>4, <1>5, <1>8

-----------------------------------------------------------------------------
(* The steps *)

LEMMA SkipSectionStep ==
    ASSUME JInv, SkipSection
    PROVE  (Searches /\ Outcome)'
<1> USE DEF JInv
<1>1. /\ file' = file /\ stage' = stage /\ from' = from /\ at' = at + 1
      /\ limit' = limit /\ start' = start /\ len' = len /\ qtable0' = qtable0
      /\ qtable1' = qtable1 /\ outside' = outside /\ result' = result
      /\ Searching /\ Kind(at) \in Skippable /\ Kind(at) # Marker
  BY DEF SkipSection, Skippable
<1>2. stage \in {"image", "table0", "table1", "header", "end"}
  BY <1>1 DEF Searching
<1>3. Walked'
  <2>1. from \in Nat /\ at \in Nat /\ from <= at
    BY <1>1, FileFacts DEF TypeOK, Walked
  <2>2. ASSUME NEW i \in from .. at
        PROVE  Kind(i) \in Skippable \ {Marker}
    <3>1. i = at \/ i \in from .. at - 1
      BY <2>1
    <3>. QED
      BY <1>1, <3>1 DEF Walked
  <2>3. Marker' = Marker
    BY <1>1 DEF Marker
  <2>4. from' <= at' /\ from' .. at' - 1 = from .. at
    BY <1>1, <2>1
  <2>5. \A i : Kind(i)' = Kind(i)
    BY <1>1 DEF Kind
  <2>. QED
    BY <2>2, <2>3, <2>4, <2>5 DEF Walked
<1>4. Begun' /\ Limits'
  BY <1>1, <1>2 DEF Begun, Limits, Reached, Kind, FileLen
<1>5. TablesSought'
  BY <1>1 DEF TablesSought, FirstTable, NextTable, NoTableBelow, Reached, Kind, Offset
<1>6. TablesKept'
  BY <1>1 DEF TablesKept, TablesRight, Offset
<1>7. AtScan'
  BY <1>1, <1>2 DEF AtScan, Offset, ScanEnds, Kind, FileLen
<1>8. Outcome'
  BY <1>1, <1>2, GoesOn
<1>. QED
  BY <1>3, <1>4, <1>5, <1>6, <1>7, <1>8 DEF Searches

LEMMA ReadOutsideStep ==
    ASSUME JInv, ReadOutside
    PROVE  (Searches /\ Outcome)'
<1> USE DEF JInv
<1>1. /\ file' = file /\ LeaveFile /\ stage # "done"
      /\ Searching /\ ~(at <= Count(file))
  BY FileFacts DEF ReadOutside, Searching, TypeOK
<1>2. ~IsFramed(file)
  BY <1>1, FramedSearchEnds
<1>. QED
  BY <1>1, <1>2, GoesAstray

LEMMA ReadOnStep ==
    ASSUME JInv, ReadOn
    PROVE  (Searches /\ Outcome)'
<1> USE DEF JInv
<1>1. file' = file /\ outside' = outside /\ outside /\ stage' = "done"
  BY DEF ReadOn, Return, Astray
<1>2. ~IsFramed(file)
  BY <1>1 DEF StaysInside
<1>3. ~IsBaseline(file)
  BY <1>2, BaselineIsFramed
<1>4. StaysInside' /\ ResultRight' /\ BaselineDone' /\ Astray'
  BY <1>1, <1>2, <1>3 DEF StaysInside, ResultRight, BaselineDone, Astray
<1>5. Walked' /\ Begun' /\ Limits' /\ TablesSought' /\ TablesKept' /\ AtScan'
  BY <1>1, <1>2 DEF Walked, Searching, Begun, Limits, TablesSought, TablesKept, AtScan
<1>. QED
  BY <1>4, <1>5 DEF Searches, Outcome

LEMMA ImageFoundStep ==
    ASSUME JInv, ImageFound
    PROVE  (Searches /\ Outcome)'
<1> USE DEF JInv
<1>1. /\ file' = file /\ stage' = "table0" /\ from' = 1 /\ at' = 1
      /\ len' = LeftAfterHit /\ limit' = len' /\ qtable0' = NULL /\ qtable1' = NULL
      /\ outside' = outside /\ result' = result /\ stage = "image" /\ Hit
  BY DEF ImageFound, Search
<1>2. Outcome'
  BY <1>1, GoesOn
<1>3. Walked' /\ Begun'
  BY <1>1 DEF Walked, Begun
<1>4. Limits'
  <2>1. ASSUME IsBaseline(file)
        PROVE  LeftAfterHit = FileLen - 2
    <3>1. Kind(1) = "SOI" /\ from = 1 /\ limit = FileLen
      BY <1>1, <2>1, BaselineIsFramed DEF Begun, Limits
    <3>2. at \in Nat /\ 1 <= at /\ \A i \in 1 .. at - 1 : Kind(i) # "SOI"
      BY <1>1, <3>1, HitFacts, FileFacts DEF Marker
    <3>3. at = 1
      BY <3>1, <3>2
    <3>4. FileLen \in Nat /\ LenMod \in Nat /\ FileLen < LenMod /\ FileLen >= 2
      BY <2>1, BaselineFacts, FileFacts
    <3>5. Offset(1) = 0
      BY FileFacts
    <3>6. LeftAfterHit = (FileLen - 2) % LenMod
      BY <3>1, <3>3, <3>4, <3>5 DEF LeftAfterHit
    <3>. QED
      BY <3>4, <3>6
  <2>. QED
    BY <1>1, <2>1 DEF Limits, FileLen
<1>5. TablesSought' /\ TablesKept' /\ AtScan'
  BY <1>1 DEF TablesSought, TablesKept, AtScan, ResultRight, TypeOK
<1>. QED
  BY <1>2, <1>3, <1>4, <1>5 DEF Searches

LEMMA ImageMissingStep ==
    ASSUME JInv, ImageMissing
    PROVE  (Searches /\ Outcome)'
<1> USE DEF JInv
<1>1. /\ file' = file /\ stage' = "done" /\ result' = FALSE /\ outside' = outside
      /\ stage = "image" /\ Miss
  BY DEF ImageMissing, Return
<1>2. ~IsBaseline(file)
  <2>1. SUFFICES ASSUME IsBaseline(file) PROVE FALSE
    OBVIOUS
  <2>2. Kind(1) = "SOI" /\ from = 1 /\ limit = FileLen
    BY <1>1, <2>1, BaselineIsFramed DEF Begun, Limits
  <2>3. at \in Nat /\ 1 <= at /\ \A i \in 1 .. at - 1 : Kind(i) # "SOI"
    BY <1>1, <2>2, FileFacts DEF Walked, Searching, Marker, TypeOK
  <2>4. at = 1
    BY <2>2, <2>3
  <2>5. FileLen \in Nat /\ FileLen >= 2 /\ Offset(1) = 0
    BY <2>1, BaselineFacts, FileFacts
  <2>6. InLimit
    BY <2>2, <2>4, <2>5 DEF InLimit
  <2>. QED
    BY <1>1, <2>2, <2>4, <2>6 DEF Miss, Marker
<1>. QED
  BY <1>1, <1>2, Fails

\* A search for a table that fails has come as far as its limit, or no search
\* comes further.
LEMMA TableMissed ==
    ASSUME JInv, stage \in {"table0", "table1"}, Miss
    PROVE  \A j \in from .. Count(file) :
              Kind(j) = "DQT" /\ Reached(j) => Offset(j) - Offset(from) >= limit
<1> USE DEF JInv
<1> SUFFICES ASSUME NEW j \in from .. Count(file), Kind(j) = "DQT", Reached(j)
             PROVE  Offset(j) - Offset(from) >= limit
  OBVIOUS
<1>1. /\ Count(file) \in Nat /\ from \in Nat /\ at \in 1 .. Count(file) + 1
      /\ from \in 1 .. Count(file) + 1 /\ limit \in Nat /\ j \in 1 .. Count(file)
  BY FileFacts DEF TypeOK
<1>2. Marker = "DQT" /\ \A i \in from .. at - 1 : Kind(i) # "DQT"
  BY DEF Marker, Walked, Searching
<1>3. at <= j
  BY <1>1, <1>2
<1>4. Offset(at) <= Offset(j)
  <2>1. CASE at = j
    BY <1>1, <2>1, FileFacts
  <2>2. CASE at < j
    BY <1>1, <2>2, FileFacts
  <2>. QED
    BY <1>1, <1>3, <2>1, <2>2
<1>5. Offset(at) \in Nat /\ Offset(j) \in Nat /\ Offset(from) \in Nat
  BY <1>1, FileFacts
<1>6. CASE ~InLimit
  BY <1>1, <1>4, <1>5, <1>6 DEF InLimit
<1>7. CASE Kind(at) # Marker /\ Kind(at) \in Data \cup {"other"}
  <2>1. Kind(at) \notin Skippable
    BY <1>7 DEF Skippable, Known, Bare, Data
  <2>2. at # j
    BY <1>2, <1>7
  <2>. QED
    BY <1>1, <1>3, <2>1, <2>2 DEF Reached
<1>. QED
  BY <1>6, <1>7 DEF Miss

LEMMA Table0FoundStep ==
    ASSUME JInv, Table0Found
    PROVE  (Searches /\ Outcome)'
<1> USE DEF JInv
<1>1. /\ file' = file /\ stage' = "table1" /\ from' = at + 1 /\ at' = at + 1
      /\ len' = len /\ limit' = LeftAfterHit /\ qtable0' = Offset(at) + 5
      /\ qtable1' = qtable1 /\ outside' = outside /\ result' = result
      /\ stage = "table0" /\ Hit
  BY DEF Table0Found, Search, NextJpegBlock
<1>2. Outcome'
  BY <1>1, GoesOn
<1>3. /\ at \in 1 .. Count(file) /\ from = 1 /\ limit = len /\ Kind(at) = "DQT"
      /\ \A i \in 1 .. at - 1 : Kind(i) # "DQT"
      /\ Offset(at) - Offset(1) < len /\ Offset(1) = 0 /\ Offset(at) \in Nat
  BY <1>1, HitFacts, FileFacts DEF Marker, Begun, Limits
<1>4. Reached(at) /\ Reached(at + 1)
  <2>1. Reached(at)
    BY <1>1, SearchReaches
  <2>2. Kind(at) \in Skippable
    BY <1>3 DEF Skippable, Known
  <2>3. ASSUME NEW i \in 1 .. at
        PROVE  Kind(i) \in Skippable
    <3>1. i = at \/ i \in 1 .. at - 1
      BY <1>3
    <3>. QED
      BY <2>1, <2>2, <3>1 DEF Reached
  <2>4. (at + 1) - 1 = at
    BY <1>3
  <2>. QED
    BY <2>1, <2>3, <2>4 DEF Reached
<1>5. Walked'
  <2>1. from' <= at' /\ from' .. at' - 1 = {}
    BY <1>1, <1>3
  <2>. QED
    BY <2>1 DEF Walked
<1>6. Begun' /\ Limits'
  <2>1. at + 1 > 1
    BY <1>3
  <2>2. Reached(from)'
    BY <1>1, <1>4 DEF Reached, Kind
  <2>3. Begun'
    BY <1>1, <2>1, <2>2 DEF Begun
  <2>4. Limits'
    BY <1>1 DEF Limits, FileLen
  <2>. QED
    BY <2>3, <2>4
<1>7. TablesSought'
  <2>1. from' - 1 = at
    BY <1>1, <1>3
  <2>2. FirstTable(at)
    BY <1>3, <1>4 DEF FirstTable
  <2>3. FirstTable(from - 1)'
    BY <1>1, <2>1, <2>2 DEF FirstTable, Reached, Kind
  <2>4. Offset(at) < len /\ qtable1 = NULL
    BY <1>1, <1>3 DEF TablesSought
  <2>5. limit' = (len - (Offset(at) + 2)) % LenMod
    BY <1>1, <1>3 DEF LeftAfterHit
  <2>6. Offset(from - 1)' = Offset(at)
    BY <1>1, <2>1 DEF Offset
  <2>7. /\ FirstTable(from - 1)' /\ qtable0' = Offset(from - 1)' + 5
        /\ Offset(from - 1)' < len' /\ limit' = (len' - (Offset(from - 1)' + 2)) % LenMod
        /\ qtable1' = NULL
    BY <1>1, <2>3, <2>4, <2>5, <2>6
  <2>. QED
    BY <1>1, <2>7 DEF TablesSought
<1>8. TablesKept' /\ AtScan'
  BY <1>1 DEF TablesKept, AtScan, ResultRight, TypeOK
<1>. QED
  BY <1>2, <1>5, <1>6, <1>7, <1>8 DEF Searches

LEMMA Table0MissingStep ==
    ASSUME JInv, Table0Missing
    PROVE  (Searches /\ Outcome)'
<1> USE DEF JInv
<1>1. /\ file' = file /\ stage' = "header" /\ from' = 1 /\ at' = 1
      /\ len' = len /\ limit' = len /\ qtable0' = qtable0 /\ qtable1' = qtable1
      /\ outside' = outside /\ result' = result /\ stage = "table0" /\ Miss
  BY DEF Table0Missing, Search
<1>2. Outcome'
  BY <1>1, GoesOn
<1>3. NoTableBelow(1, len)
  <2>1. ASSUME NEW j \in 1 .. Count(file), Kind(j) = "DQT", Reached(j)
        PROVE  Offset(j) >= len
    <3>1. from = 1 /\ limit = len /\ Offset(1) = 0
      BY <1>1, FileFacts DEF Begun, Limits
    <3>2. Offset(j) - Offset(1) >= len
      BY <1>1, <2>1, <3>1, TableMissed
    <3>3. Offset(j) \in Nat
      BY FileFacts
    <3>. QED
      BY <3>1, <3>2, <3>3
  <2>. QED
    BY <2>1 DEF NoTableBelow
<1>4. Walked' /\ Begun' /\ Limits'
  BY <1>1 DEF Walked, Begun, Limits, FileLen
<1>5. TablesSought'
  <2>1. NoTableBelow(1, len)'
    BY <1>1, <1>3 DEF NoTableBelow, Reached, Kind, Offset
  <2>. QED
    BY <1>1, <2>1 DEF TablesSought
<1>6. TablesKept' /\ AtScan'
  BY <1>1 DEF TablesKept, AtScan, ResultRight, TypeOK
<1>. QED
  BY <1>2, <1>4, <1>5, <1>6 DEF Searches

LEMMA Table1FoundStep ==
    ASSUME JInv, Table1Found
    PROVE  (Searches /\ Outcome)'
<1> USE DEF JInv
<1>1. /\ file' = file /\ stage' = "header" /\ from' = 1 /\ at' = 1
      /\ len' = len /\ limit' = len /\ qtable0' = qtable0
      /\ qtable1' = Offset(at) + 5
      /\ outside' = outside /\ result' = result /\ stage = "table1" /\ Hit
  BY DEF Table1Found, Search
<1>2. Outcome'
  BY <1>1, GoesOn
<1>3. Walked' /\ Begun' /\ Limits'
  BY <1>1 DEF Walked, Begun, Limits, FileLen
<1>4. /\ FirstTable(from - 1) /\ qtable0 = Offset(from - 1) + 5
      /\ from - 1 \in 1 .. Count(file)
  BY <1>1 DEF TablesSought, FirstTable
<1>5. NextTable(from - 1, at)
  <2>1. /\ at \in 1 .. Count(file) /\ from \in 1 .. at /\ Kind(at) = "DQT"
        /\ \A i \in from .. at - 1 : Kind(i) # "DQT"
    BY <1>1, HitFacts DEF Marker
  <2>2. Reached(at)
    BY <1>1, SearchReaches
  <2>3. (from - 1) + 1 = from
    BY <2>1
  <2>4. at \in from .. Count(file)
    BY <2>1, FileFacts
  <2>. QED
    BY <2>1, <2>2, <2>3, <2>4 DEF NextTable
<1>6. TablesSought'
  <2>1. at \in 1 .. Count(file)
    BY <1>1, HitFacts
  <2>2. /\ FirstTable(from - 1) /\ qtable0 = Offset(from - 1) + 5
        /\ NextTable(from - 1, at) /\ qtable1' = Offset(at) + 5
    BY <1>1, <1>4, <1>5
  <2>3. \E i \in 1 .. Count(file) :
           /\ FirstTable(i) /\ qtable0 = Offset(i) + 5
           /\ \E j \in 1 .. Count(file) : NextTable(i, j) /\ qtable1' = Offset(j) + 5
    BY <1>4, <2>1, <2>2
  <2>. QED
    BY <1>1, <2>3 DEF TablesSought, FirstTable, NextTable, Reached, Kind, Offset
<1>7. TablesKept' /\ AtScan'
  BY <1>1 DEF TablesKept, AtScan, ResultRight, TypeOK
<1>. QED
  BY <1>2, <1>3, <1>6, <1>7 DEF Searches

LEMMA Table1MissingStep ==
    ASSUME JInv, Table1Missing
    PROVE  (Searches /\ Outcome)'
<1> USE DEF JInv
<1>1. /\ file' = file /\ stage' = "header" /\ from' = 1 /\ at' = 1
      /\ len' = len /\ limit' = len /\ qtable0' = qtable0
      /\ outside' = (outside \/ Offset(from) + 2 > FileLen)
      /\ result' = result /\ stage = "table1" /\ Miss
  BY DEF Table1Missing, Search
<1>2. /\ Count(file) \in Nat /\ FileLen \in Nat /\ LenMod \in Nat /\ FileLen < LenMod
      /\ from \in 1 .. Count(file) + 1 /\ len \in Nat /\ len < LenMod
      /\ Offset(from) \in Nat
  BY FileFacts DEF TypeOK
<1>3. /\ FirstTable(from - 1) /\ qtable0 = Offset(from - 1) + 5
      /\ from - 1 \in 1 .. Count(file) /\ Kind(from - 1) = "DQT"
      /\ Offset(from - 1) < len /\ Offset(from - 1) \in Nat
      /\ limit = (len - (Offset(from - 1) + 2)) % LenMod
  BY <1>1, FileFacts DEF TablesSought, FirstTable
<1>4. Reached(from)
  BY <1>1 DEF Begun
<1>5. Outcome'
  <2>1. ASSUME IsFramed(file)
        PROVE  Offset(from) + 2 <= FileLen
    <3>1. PICK s \in 1 .. Count(file) :
              /\ FirstScan(file, s)
              /\ s + 2 <= Count(file)
              /\ Kind(s + 1) = "scan"
      BY <2>1 DEF IsFramed, Kind
    <3>2. from <= s + 1
      BY <1>2, <1>4, <3>1, ReachEnds
    <3>3. from - 1 # s
      BY <1>3, <3>1 DEF FirstScan, Kind
    <3>4. from < s + 1 /\ s + 1 < s + 2 /\ s + 1 \in 1 .. Count(file) + 1
          /\ s + 2 \in 1 .. Count(file) + 1
      BY <1>2, <3>1, <3>2, <3>3
    <3>5. Offset(from) < Offset(s + 1) /\ Offset(s + 1) < Offset(s + 2)
      BY <1>2, <3>4, FileFacts
    <3>6. Offset(s + 1) \in Nat /\ Offset(s + 2) \in Nat /\ Offset(s + 2) <= FileLen
      BY <3>4, FileFacts
    <3>. QED
      BY <1>2, <3>5, <3>6
  <2>2. IsFramed(file) => ~(Offset(from) + 2 > FileLen)
    BY <1>2, <2>1
  <2>3. IsFramed(file) => outside' = outside
    BY <1>1, <2>2 DEF TypeOK
  <2>. QED
    BY <1>1, <2>3, GoesOn
<1>6. NoTableBelow(from, len)
  <2>1. ASSUME NEW j \in from .. Count(file), Kind(j) = "DQT", Reached(j)
        PROVE  Offset(j) >= len
    <3>1. Offset(j) - Offset(from) >= limit
      BY <1>1, <2>1, TableMissed
    <3>2. Offset(from) >= Offset(from - 1) + 4
      <4>1. (from - 1) + 1 = from /\ Kind(from - 1) \in Known
        BY <1>2, <1>3 DEF Known
      <4>. QED
        BY <1>3, <4>1, FileFacts
    <3>3. Offset(j) \in Nat /\ Offset(j) <= FileLen
      BY <1>2, FileFacts
    <3> DEFINE x == Offset(from - 1)  y == Offset(from)  z == Offset(j)
    <3>4. /\ x \in Nat /\ y \in Nat /\ z \in Nat /\ z < LenMod /\ y >= x + 4 /\ x < len
          /\ z - y >= (len - (x + 2)) % LenMod
      BY <1>2, <1>3, <3>1, <3>2, <3>3
    <3> HIDE DEF x, y, z
    <3>5. z >= len
      <4>1. CASE len >= x + 2
        <5>1. len - (x + 2) \in 0 .. LenMod - 1
          BY <1>2, <3>4, <4>1
        <5>2. (len - (x + 2)) % LenMod = len - (x + 2)
          BY <1>2, <5>1
        <5>. QED
          BY <1>2, <3>4, <5>2
      <4>2. CASE len < x + 2
        <5>1. len - (x + 2) = -1
          BY <1>2, <3>4, <4>2
        <5>2. (-1) % LenMod = LenMod - 1
          BY <1>2
        <5>. QED
          BY <1>2, <3>4, <5>1, <5>2
      <4>. QED
        BY <1>2, <3>4, <4>1, <4>2
    <3>. QED
      BY <3>5 DEF z
  <2>. QED
    BY <2>1 DEF NoTableBelow
<1>7. Walked' /\ Begun' /\ Limits'
  BY <1>1 DEF Walked, Begun, Limits, FileLen
<1>8. TablesSought'
  <2>1. (from - 1) + 1 = from
    BY <1>2
  <2>2. \E i \in 1 .. Count(file) :
           FirstTable(i) /\ qtable0 = Offset(i) + 5 /\ NoTableBelow(i + 1, len)
    BY <1>3, <1>6, <2>1
  <2>. QED
    BY <1>1, <2>2 DEF TablesSought, FirstTable, NoTableBelow, Reached, Kind, Offset
<1>9. TablesKept' /\ AtScan'
  BY <1>1 DEF TablesKept, AtScan, ResultRight, TypeOK
<1>. QED
  BY <1>5, <1>7, <1>8, <1>9 DEF Searches

\* The tables of the image are those that the searches have found.
LEMMA HeaderTables ==
    ASSUME JInv, stage = "header", Hit, FirstScan(file, at), IsFramed(file)
    PROVE  TablesRight
<1> USE DEF JInv
<1>1. /\ at \in 1 .. Count(file) /\ Count(file) \in Nat /\ Offset(at) \in Nat
      /\ len \in Nat
  BY HitFacts, FileFacts DEF TypeOK
<1>2. Offset(at) < len
  <2>1. from = 1 /\ limit = len /\ Offset(1) = 0
    BY FileFacts DEF Begun, Limits
  <2>. QED
    BY <1>1, <2>1, HitFacts
<1>3. /\ at + 2 <= Count(file) /\ Kind(at + 1) = "scan" /\ Kind(at) = "SOS"
  <2>1. PICK s \in 1 .. Count(file) :
            FirstScan(file, s) /\ s + 2 <= Count(file) /\ Kind(s + 1) = "scan"
    BY DEF IsFramed, Kind
  <2>2. s = at
    BY <2>1, FirstScanUnique
  <2>. QED
    BY <2>1, <2>2 DEF FirstScan, Kind
\* The tables are those a search from the beginning comes to.
<1>4. ASSUME NEW i \in 1 .. Count(file), Kind(i) = "DQT", Reached(i)
      PROVE  i \in Tables(file)
  <2>1. i <= at + 1
    BY <1>1, <1>3, <1>4, ReachEnds
  <2>2. i # at /\ i # at + 1
    BY <1>3, <1>4
  <2>3. at \in i .. Count(file)
    BY <1>1, <2>1, <2>2
  <2>. QED
    BY <1>4, <2>3 DEF Tables, Kind
<1>5. ASSUME NEW i \in Tables(file)
      PROVE  /\ i \in 1 .. Count(file) /\ Kind(i) = "DQT" /\ Reached(i)
             /\ Offset(i) \in Nat /\ Offset(i) < len
  <2>1. i \in 1 .. Count(file) /\ Kind(i) = "DQT"
    BY DEF Tables, Kind
  <2>2. PICK s \in i .. Count(file) : FirstScan(file, s)
    BY DEF Tables
  <2>3. s = at
    BY <2>2, FirstScanUnique
  <2>4. i < at
    BY <1>1, <1>3, <2>1, <2>2, <2>3
  <2>5. Reached(i)
    BY <1>1, <2>1, <2>4 DEF Reached, FirstScan, Skippable, Kind
  <2>6. Offset(i) \in Nat /\ Offset(i) < Offset(at)
    BY <1>1, <2>1, <2>4, FileFacts
  <2>. QED
    BY <1>1, <1>2, <2>1, <2>5, <2>6
<1>6. CASE qtable0 = NULL /\ qtable1 = NULL /\ NoTableBelow(1, len)
  <2>1. Tables(file) = {}
    <3>1. ASSUME NEW i \in Tables(file)
          PROVE  FALSE
      <4>1. Offset(i) >= len
        BY <1>5, <1>6 DEF NoTableBelow
      <4>. QED
        BY <1>1, <1>5, <4>1
    <3>. QED
      BY <3>1
  <2>. QED
    BY <1>6, <2>1 DEF TablesRight
<1>7. CASE ~(qtable0 = NULL /\ qtable1 = NULL /\ NoTableBelow(1, len))
  <2>1. PICK i \in 1 .. Count(file) :
            /\ FirstTable(i) /\ qtable0 = Offset(i) + 5
            /\ \/ NoTableBelow(i + 1, len)
               \/ \E j \in 1 .. Count(file) : NextTable(i, j) /\ qtable1 = Offset(j) + 5
    BY <1>7 DEF TablesSought
  <2>2. i \in Tables(file)
    BY <1>4, <2>1 DEF FirstTable
  <2>3. ASSUME NEW t \in Tables(file) \ {i}
        PROVE  i < t
    <3>1. t \in 1 .. Count(file) /\ Kind(t) = "DQT"
      BY <1>5
    <3>2. ~(t < i)
      BY <1>1, <2>1, <3>1 DEF FirstTable
    <3>. QED
      BY <1>1, <2>1, <3>1, <3>2
  <2>4. CASE NoTableBelow(i + 1, len)
    <3>1. ASSUME NEW t \in Tables(file) \ {i}
          PROVE  FALSE
      <4>1. t \in i + 1 .. Count(file)
        BY <1>1, <1>5, <2>1, <2>3
      <4>2. Offset(t) >= len
        BY <1>5, <2>4, <4>1 DEF NoTableBelow
      <4>. QED
        BY <1>1, <1>5, <4>2
    <3>2. Tables(file) = {i}
      BY <2>2, <3>1
    <3>. QED
      BY <2>1, <2>2, <2>3, <3>2 DEF TablesRight
  <2>5. CASE \E j \in 1 .. Count(file) : NextTable(i, j) /\ qtable1 = Offset(j) + 5
    <3>1. PICK j \in 1 .. Count(file) : NextTable(i, j) /\ qtable1 = Offset(j) + 5
      BY <2>5
    <3>2. j \in Tables(file) \ {i}
      <4>1. j \in Tables(file)
        BY <1>4, <3>1 DEF NextTable
      <4>2. j > i
        BY <1>1, <2>1, <3>1 DEF NextTable
      <4>. QED
        BY <2>1, <4>1, <4>2
    <3>3. ASSUME NEW t \in Tables(file)
          PROVE  t \in {i, j} \/ j < t
      <4>1. CASE t = i
        BY <4>1
      <4>2. CASE t # i
        <5>1. i < t /\ t \in 1 .. Count(file) /\ Kind(t) = "DQT"
          BY <1>5, <2>3, <4>2
        <5>2. ~(t < j)
          BY <1>1, <2>1, <3>1, <5>1 DEF NextTable
        <5>. QED
          BY <1>1, <3>1, <5>1, <5>2
      <4>. QED
        BY <4>1, <4>2
    <3>. QED
      BY <2>1, <2>2, <2>3, <3>1, <3>2, <3>3 DEF TablesRight
  <2>. QED
    BY <2>1, <2>4, <2>5
<1>. QED
  BY <1>6, <1>7

LEMMA HeaderFoundStep ==
    ASSUME JInv, HeaderFound
    PROVE  (Searches /\ Outcome)'
<1> USE DEF JInv
<1>1. /\ file' = file /\ stage' = "scan" /\ at' = at + 1
      /\ start' = Offset(at + 1)
      /\ len' = (LeftAfterHit - (Offset(at + 1) - (Offset(at) + 2))) % LenMod
      /\ qtable0' = qtable0 /\ qtable1' = qtable1
      /\ outside' = outside /\ result' = result /\ stage = "header" /\ Hit
  BY DEF HeaderFound
<1>2. Outcome'
  BY <1>1, GoesOn
<1>3. /\ at \in 1 .. Count(file) /\ from = 1 /\ limit = len
      /\ Kind(at) = "SOS" /\ \A i \in 1 .. at - 1 : Kind(i) \in Skippable /\ Kind(i) # "SOS"
  BY <1>1, HitFacts DEF Marker, Begun, Limits
<1>4. FirstScan(file, at)
  BY <1>3 DEF FirstScan, Skippable, Kind
<1>5. Walked' /\ Begun' /\ Limits' /\ TablesSought'
  BY <1>1 DEF Walked, Searching, Begun, Limits, TablesSought
<1>6. TablesKept'
  <2>1. IsFramed(file) => TablesRight
    BY <1>1, <1>4, HeaderTables
  <2>. QED
    BY <1>1, <2>1 DEF TablesKept, TablesRight, Offset
<1>7. AtScan'
  <2>1. ASSUME IsBaseline(file)
        PROVE  len' = FileLen - 2 - Offset(at + 1)
    <3>1. PICK s \in 1 .. Count(file) :
              /\ FirstScan(file, s)
              /\ Offset(s) \in Nat /\ Offset(s + 1) \in Nat
              /\ Offset(s) + 4 <= Offset(s + 1)
              /\ Offset(s + 1) < FileLen - 2
      BY <2>1, BaselineFacts
    <3>2. s = at
      BY <1>4, <3>1, FirstScanUnique
    <3>3. /\ limit = FileLen - 2 /\ Offset(1) = 0
          /\ FileLen \in Nat /\ LenMod \in Nat /\ FileLen < LenMod
      BY <1>1, <1>3, <2>1, FileFacts DEF Limits
    <3> DEFINE x == Offset(at)  y == Offset(at + 1)
    <3>4. x \in Nat /\ y \in Nat /\ x + 4 <= y /\ y < FileLen - 2
      BY <3>1, <3>2
    <3>5. LeftAfterHit = (FileLen - 2 - (x + 2 - 0)) % LenMod
      BY <1>3, <3>3 DEF LeftAfterHit
    <3>6. len' = (LeftAfterHit - (y - (x + 2))) % LenMod
      BY <1>1
    <3> HIDE DEF x, y
    <3>7. LeftAfterHit = FileLen - 4 - x
      <4>1. FileLen - 2 - (x + 2 - 0) \in 0 .. LenMod - 1
        BY <3>3, <3>4
      <4>2. (FileLen - 2 - (x + 2 - 0)) % LenMod = FileLen - 2 - (x + 2 - 0)
        BY <3>3, <4>1
      <4>. QED
        BY <3>3, <3>4, <3>5, <4>2
    <3>8. len' = FileLen - 2 - y
      <4>1. LeftAfterHit - (y - (x + 2)) = FileLen - 2 - y
        BY <3>3, <3>4, <3>7
      <4>2. FileLen - 2 - y \in 0 .. LenMod - 1
        BY <3>3, <3>4
      <4>3. (FileLen - 2 - y) % LenMod = FileLen - 2 - y
        BY <3>3, <4>2
      <4>. QED
        BY <3>6, <4>1, <4>3
    <3>. QED
      BY <3>8 DEF y
  <2>2. \E s \in 1 .. Count(file) :
            /\ FirstScan(file, s)
            /\ start' = Offset(s + 1)
            /\ at' = s + 1
            /\ IsBaseline(file) => len' = FileLen - 2 - Offset(s + 1)
    BY <1>1, <1>3, <1>4, <2>1
  <2>. QED
    BY <1>1, <2>2 DEF AtScan, Offset, FileLen
<1>. QED
  BY <1>2, <1>5, <1>6, <1>7 DEF Searches

LEMMA HeaderMissingStep ==
    ASSUME JInv, HeaderMissing
    PROVE  (Searches /\ Outcome)'
<1> USE DEF JInv
<1>1. /\ file' = file /\ stage' = "done" /\ result' = FALSE /\ outside' = outside
      /\ stage = "header" /\ Miss
  BY DEF HeaderMissing, Return
<1>2. ~IsBaseline(file)
  <2>1. SUFFICES ASSUME IsBaseline(file) PROVE FALSE
    OBVIOUS
  <2>2. PICK s \in 1 .. Count(file) :
            /\ FirstScan(file, s)
            /\ s + 2 <= Count(file)
            /\ Kind(s + 1) = "scan"
            /\ Offset(s) \in Nat /\ Offset(s + 1) \in Nat
            /\ Offset(s) + 4 <= Offset(s + 1)
            /\ Offset(s + 1) < FileLen - 2
    BY <2>1, BaselineFacts
  <2>3. /\ from = 1 /\ limit = len /\ len = FileLen - 2 /\ Offset(1) = 0
        /\ Count(file) \in Nat /\ FileLen \in Nat
        /\ at \in 1 .. Count(file) + 1
    BY <1>1, <2>1, FileFacts DEF Begun, Limits, TypeOK
  <2>4. Reached(at) /\ \A i \in 1 .. at - 1 : Kind(i) # "SOS"
    BY <1>1, <2>3, SearchReaches DEF Walked, Searching, Marker
  <2>5. at <= s
    BY <2>2, <2>3, <2>4 DEF FirstScan, Kind
  <2>6. Offset(at) <= Offset(s) /\ Offset(at) \in Nat
    <3>1. CASE at = s
      BY <2>2, <3>1
    <3>2. CASE at < s
      BY <2>2, <2>3, <3>2, FileFacts
    <3>. QED
      BY <2>2, <2>3, <2>5, <3>1, <3>2
  <2>7. InLimit
    BY <2>2, <2>3, <2>6 DEF InLimit
  <2>8. Kind(at) = Marker \/ Kind(at) \notin Data \cup {"other"}
    <3>1. CASE at = s
      BY <1>1, <2>2, <3>1 DEF FirstScan, Kind, Marker
    <3>2. CASE at < s
      <4>1. Kind(at) \in Skippable
        BY <2>2, <2>3, <3>2 DEF FirstScan, Kind, Skippable
      <4>. QED
        BY <4>1 DEF Skippable, Known, Bare, Data
    <3>. QED
      BY <2>2, <2>3, <2>5, <3>1, <3>2
  <2>. QED
    BY <1>1, <2>7, <2>8 DEF Miss
<1>. QED
  BY <1>1, <1>2, Fails

LEMMA SkipScanBytesStep ==
    ASSUME JInv, SkipScanBytes
    PROVE  (Searches /\ Outcome)'
<1> USE DEF JInv
<1>1. /\ file' = file /\ start' = start /\ len' = len /\ qtable0' = qtable0
      /\ qtable1' = qtable1 /\ stage = "scan"
  BY DEF SkipScanBytes
<1>2. PICK s \in 1 .. Count(file) :
          /\ FirstScan(file, s)
          /\ start = Offset(s + 1)
          /\ at = s + 1
          /\ IsBaseline(file) => len = FileLen - 2 - Offset(s + 1)
  BY <1>1 DEF AtScan
<1>3. Count(file) \in Nat /\ at \in 1 .. Count(file) + 1
  BY FileFacts DEF TypeOK
<1>4. ASSUME NEW j \in ScanEnds(at), Search("end", j, len),
             outside' = outside, result' = result
      PROVE  (Searches /\ Outcome)'
  <2>1. /\ stage' = "end" /\ from' = j /\ at' = j /\ limit' = len
        /\ j \in Nat
    BY <1>3, <1>4 DEF Search, ScanEnds
  <2>2. Outcome'
    BY <1>1, <1>4, <2>1, GoesOn
  <2>3. Walked'
    <3>1. from' <= at' /\ from' .. at' - 1 = {}
      BY <2>1
    <3>. QED
      BY <3>1 DEF Walked
  <2>4. Begun' /\ Limits' /\ TablesSought'
    BY <1>1, <2>1 DEF Begun, Limits, TablesSought
  <2>5. TablesKept'
    BY <1>1, <1>4, <2>1 DEF TablesKept, TablesRight, Offset
  <2>6. AtScan'
    BY <1>1, <1>2, <1>4, <2>1 DEF AtScan, ScanEnds, Kind, Offset, FileLen
  <2>. QED
    BY <2>2, <2>3, <2>4, <2>5, <2>6 DEF Searches
<1>5. ASSUME ScanEnds(at) = {}, LeaveFile
      PROVE  (Searches /\ Outcome)'
  <2>1. ~IsFramed(file)
    <3>1. SUFFICES ASSUME IsFramed(file) PROVE FALSE
      OBVIOUS
    <3>2. PICK z \in 1 .. Count(file) :
              FirstScan(file, z) /\ z + 2 <= Count(file) /\ Kind(z + 1) = "scan"
      BY <3>1 DEF IsFramed, Kind
    <3>3. z = s
      BY <1>2, <3>2, FirstScanUnique
    <3>4. /\ at + 1 <= Count(file) /\ Kind(at) = "scan" /\ at \in 1 .. Count(file)
          /\ at < Count(file)
      BY <1>2, <1>3, <3>2, <3>3
    <3>5. Kind(at + 1) \notin Data
      BY <3>4, FileFacts
    <3>6. at + 1 \in ScanEnds(at)
      BY <3>4, <3>5 DEF ScanEnds
    <3>. QED
      BY <1>5, <3>6
  <2>. QED
    BY <1>1, <1>5, <2>1, GoesAstray
<1>. QED
  BY <1>4, <1>5 DEF SkipScanBytes

LEMMA EndFoundStep ==
    ASSUME JInv, EndFound
    PROVE  (Searches /\ Outcome)'
<1> USE DEF JInv
<1>1. /\ file' = file /\ stage' = "done" /\ result' = TRUE
      /\ len' = Offset(at) + 2 - start /\ start' = start
      /\ qtable0' = qtable0 /\ qtable1' = qtable1 /\ outside' = outside
      /\ stage = "end" /\ Hit
  BY DEF EndFound, Return
<1>2. PICK s \in 1 .. Count(file) :
          FirstScan(file, s) /\ start = Offset(s + 1) /\ from \in ScanEnds(s + 1)
  BY <1>1 DEF AtScan
<1>3. /\ at \in 1 .. Count(file) /\ from <= at /\ Kind(at) = "EOI"
      /\ \A i \in from .. at - 1 : Kind(i) \in Skippable /\ Kind(i) # "EOI"
      /\ Offset(at) \in Nat /\ Count(file) \in Nat
  BY <1>1, HitFacts, FileFacts DEF Marker
<1>4. from \in {s + 1, s + 2} /\ (from = s + 2 => Kind(s + 1) = "scan")
  BY <1>2, <1>3 DEF ScanEnds
<1>5. ScanRight'
  <2>1. at \in s + 1 .. Count(file)
    BY <1>3, <1>4
  <2>2. start' + len' = Offset(at + 1)
    <3>1. Offset(at + 1) = Offset(at) + 2
      BY <1>3, FileFacts DEF Bare
    <3>2. start \in Nat
      BY DEF TypeOK
    <3>. QED
      BY <1>1, <1>3, <3>1, <3>2
  <2>3. ASSUME NEW i \in s + 1 .. at - 1
        PROVE  /\ Kind(i) \notin {"EOI", "rest", "other"}
               /\ i \in s + 2 .. at - 1 => Kind(i) # "scan"
    <3>1. CASE i \in from .. at - 1
      BY <1>3, <3>1 DEF Skippable, Known, Bare
    <3>2. CASE i \notin from .. at - 1
      <4>1. from = s + 2 /\ i = s + 1
        BY <1>3, <1>4, <3>2
      <4>. QED
        BY <1>4, <4>1
    <3>. QED
      BY <3>1, <3>2
  <2>4. \A i \in s + 2 .. at - 1 : i \in s + 1 .. at - 1
    BY <1>3
  <2>5. /\ \A i \in s + 1 .. at - 1 : Kind(i) \notin {"EOI", "rest", "other"}
        /\ \A i \in s + 2 .. at - 1 : Kind(i) # "scan"
    BY <2>3, <2>4
  <2>6. \E z \in 1 .. Count(file) :
           /\ FirstScan(file, z)
           /\ start' = Offset(z + 1)
           /\ \E e \in z + 1 .. Count(file) :
                 /\ Kind(e) = "EOI"
                 /\ start' + len' = Offset(e + 1)
                 /\ \A i \in z + 1 .. e - 1 : Kind(i) \notin {"EOI", "rest", "other"}
                 /\ \A i \in z + 2 .. e - 1 : Kind(i) # "scan"
    BY <1>1, <1>2, <1>3, <2>1, <2>2, <2>5
  <2>. QED
    BY <1>1, <2>6 DEF ScanRight, Kind, Offset
<1>6. Outcome'
  <2>1. StaysInside'
    BY <1>1 DEF StaysInside
  <2>2. ResultRight' /\ BaselineDone' /\ Astray'
    BY <1>1, <1>5 DEF ResultRight, BaselineDone, Astray
  <2>. QED
    BY <2>1, <2>2 DEF Outcome
<1>7. Walked' /\ Begun' /\ Limits' /\ TablesSought' /\ AtScan'
  BY <1>1 DEF Walked, Searching, Begun, Limits, TablesSought, AtScan
<1>8. TablesKept'
  BY <1>1 DEF TablesKept, TablesRight, Offset
<1>. QED
  BY <1>6, <1>7, <1>8 DEF Searches

LEMMA EndMissingStep ==
    ASSUME JInv, EndMissing
    PROVE  (Searches /\ Outcome)'
<1> USE DEF JInv
<1>1. /\ file' = file /\ stage' = "done" /\ result' = FALSE /\ outside' = outside
      /\ stage = "end" /\ Miss
  BY DEF EndMissing, Return
<1>2. ~IsBaseline(file)
  <2>1. SUFFICES ASSUME IsBaseline(file) PROVE FALSE
    OBVIOUS
  <2>2. PICK s \in 1 .. Count(file) :
            /\ FirstScan(file, s)
            /\ s + 2 <= Count(file)
            /\ Kind(s + 1) = "scan" /\ Kind(s + 2) = "EOI"
            /\ Offset(s + 1) \in Nat /\ Offset(s + 1) < FileLen - 2
    BY <2>1, BaselineFacts
  <2>3. PICK z \in 1 .. Count(file) :
            /\ FirstScan(file, z) /\ from \in ScanEnds(z + 1)
            /\ len = FileLen - 2 - Offset(z + 1)
    BY <1>1, <2>1 DEF AtScan
  <2>4. z = s
    BY <2>2, <2>3, FirstScanUnique
  <2>5. /\ Count(file) \in Nat /\ FileLen \in Nat /\ limit = len /\ from <= at
        /\ at \in 1 .. Count(file) + 1 /\ from \in 1 .. Count(file) + 1
        /\ \A i \in from .. at - 1 : Kind(i) # "EOI"
    BY <1>1, FileFacts DEF Limits, Walked, Searching, Marker, TypeOK
  <2>6. from = s + 2
    BY <2>2, <2>3, <2>4, <2>5 DEF ScanEnds, Data
  <2>7. at = from
    BY <2>2, <2>5, <2>6
  <2>8. InLimit
    <3>1. Offset(at) \in Nat
      BY <2>5, FileFacts
    <3>. QED
      BY <2>2, <2>3, <2>4, <2>5, <2>7, <3>1 DEF InLimit
  <2>. QED
    BY <1>1, <2>2, <2>6, <2>7, <2>8 DEF Miss, Marker
<1>. QED
  BY <1>1, <1>2, Fails

-----------------------------------------------------------------------------
(* The invariant *)

LEMMA InitJInv == Init => JInv
<1> SUFFICES ASSUME Init PROVE JInv
  OBVIOUS
<1>1. file \in Files
  BY DEF Init
<1>2. /\ Count(file) \in Nat /\ FileLen \in Nat /\ FileLen < LenMod /\ LenMod \in Nat
      /\ IsFile(file)
  BY <1>1, FileFacts, FilesAssumption
<1>3. TypeOK
  <2>1. /\ 1 \in 1 .. Count(file) + 1
        /\ FileLen \in 0 .. LenMod - 1
    BY <1>2
  <2>2. NULL \in Nat \cup {NULL} /\ 0 \in Nat /\ FALSE \in BOOLEAN
    OBVIOUS
  <2>. QED
    BY <1>2, <2>1, <2>2 DEF Init, TypeOK
<1>4. Walked /\ Begun /\ Limits /\ TablesSought /\ AtScan
  BY DEF Init, Walked, Begun, Limits, TablesSought, AtScan
<1>5. StaysInside /\ TablesKept /\ ResultRight /\ BaselineDone /\ Astray
  BY DEF Init, StaysInside, TablesKept, ResultRight, BaselineDone, Astray
<1>. QED
  BY <1>1, <1>3, <1>4, <1>5 DEF JInv

LEMMA NextJInv == JInv /\ [Next]_vars => JInv'
<1> SUFFICES ASSUME JInv, [Next]_vars PROVE JInv'
  OBVIOUS
<1>1. CASE Next
  <2>1. (Searches /\ Outcome)'
    BY <1>1, SkipSectionStep, ReadOutsideStep, ImageFoundStep, ImageMissingStep,
       Table0FoundStep, Table0MissingStep, Table1FoundStep, Table1MissingStep,
       HeaderFoundStep, HeaderMissingStep, SkipScanBytesStep, EndFoundStep,
       EndMissingStep, ReadOnStep DEF Next, Decode
  <2>2. TypeOK' /\ (file \in Files)'
    BY <1>1, TypeStep
  <2>. QED
    BY <2>1, <2>2 DEF JInv, Searches, Outcome
<1>2. CASE UNCHANGED vars
  <2>1. /\ UNCHANGED <<file, stage, from, at, limit, start, len>>
        /\ UNCHANGED <<qtable0, qtable1, outside, result>>
    BY <1>2 DEF vars
  <2>2. TypeOK' /\ (file \in Files)'
    BY <2>1 DEF JInv, TypeOK
  <2>3. Walked' /\ Begun' /\ Limits' /\ AtScan'
    BY <2>1 DEF JInv, Walked, Searching, Marker, Begun, Limits, AtScan, Reached, Kind,
                Offset, FileLen, ScanEnds
  <2>4. TablesSought' /\ TablesKept'
    BY <2>1 DEF JInv, TablesSought, FirstTable, NextTable, NoTableBelow, Reached, Kind,
                Offset, TablesKept, TablesRight
  <2>5. StaysInside' /\ ResultRight' /\ BaselineDone' /\ Astray'
    BY <2>1 DEF JInv, StaysInside, ResultRight, ScanRight, BaselineDone, Astray, Kind, Offset
  <2>. QED
    BY <2>2, <2>3, <2>4, <2>5 DEF JInv
<1>. QED
  BY <1>1, <1>2

LEMMA JInvHolds == Spec => []JInv
  BY InitJInv, NextJInv, PTL DEF Spec

-----------------------------------------------------------------------------
(* Theorems *)

\* The variables of decodeJPEGfile keep their types: its pointers stand at
\* beginnings of pieces or at the end of the file, its lengths are uint32_t.
THEOREM TypeCorrect == Spec => []TypeOK
<1>1. JInv => TypeOK
  BY DEF JInv
<1>. QED
  BY <1>1, JInvHolds, PTL

\* decodeJPEGfile, findJPEGheader, nextJpegBlock and skipScanBytes read no byte
\* behind a file whose scan ends at a marker and which has an end.
THEOREM ReadsInsideTheFile == Spec => []StaysInside
<1>1. JInv => StaysInside
  BY DEF JInv
<1>. QED
  BY <1>1, JInvHolds, PTL

\* What decodeJPEGfile hands out is the scan of the image, up to the end marker.
THEOREM HandsOutTheScan == Spec => []ScanExact
<1>1. JInv => ScanExact
  BY DEF JInv, ResultRight, ScanRight, ScanExact, Accepted
<1>. QED
  BY <1>1, JInvHolds, PTL

\* decodeJPEGfile accepts every baseline image, and leaves none of them.
THEOREM AcceptsBaselineImages == Spec => []BaselineAccepted
<1>1. JInv => BaselineAccepted
  <2> SUFFICES ASSUME JInv, stage = "done", IsBaseline(file) PROVE Accepted
    BY DEF BaselineAccepted
  <2>1. IsFramed(file)
    BY BaselineIsFramed DEF JInv
  <2>. QED
    BY <2>1 DEF JInv, Accepted, StaysInside, BaselineDone, TypeOK
<1>. QED
  BY <1>1, JInvHolds, PTL

\* Of an image that it accepts, decodeJPEGfile has found the first two tables.
THEOREM FindsTheTables == Spec => []TablesFound
<1>1. JInv => TablesFound
  <2> SUFFICES ASSUME JInv, Accepted, IsFramed(file) PROVE TablesRight
    BY DEF TablesFound, TablesRight
  <2>. QED
    BY DEF JInv, Accepted, TablesKept
<1>. QED
  BY <1>1, JInvHolds, PTL
=============================================================================
