----------------------------- MODULE H264Convert -----------------------------
(***************************************************************************)
(* The converter of h264_to_mp4/mp4v2/convert (and Myffmpeg/MP4Encoder):   *)
(* WriteH264File reads an Annex B file through a buffer of BUFFER_SIZE     *)
(* bytes, and WriteH264Data cuts each buffer into NAL units at the start   *)
(* codes 00 00 00 01 and gives them to mp4v2.                              *)
(*                                                                         *)
(* A byte keeps the position it was read from, so that a sample can be     *)
(* compared with the file; position 0 is a byte no read has put there.     *)
(* Buffers are sequences: buffer[i] of the code is element i + 1 here.     *)
(* The reads of the code beyond the bytes it was given cannot change what  *)
(* a scan finds: a start code is looked for in a buffer that ends in one.  *)
(***************************************************************************)
EXTENDS Integers, Sequences, FiniteSets, SequencesExt

CONSTANTS BufferSize,  \* BUFFER_SIZE
          Units,       \* the NAL units a file is made of, without start code
          MaxUnits,    \* bound: the units in a file
          Stale        \* the values of a byte of the buffer no read has set

ASSUME ConvertAssumption ==
  /\ BufferSize \in Nat /\ BufferSize >= 4
  /\ \A u \in Units : u \in Seq(0..255) /\ u # <<>>
  /\ MaxUnits \in Nat
  /\ Stale \subseteq 0..255 /\ Stale # {}

StartCode == <<0, 0, 0, 1>>

VARIABLES file,    \* the bytes of the H.264 file
          offset,  \* how many of them fread has returned
          buffer,  \* buffer[0 .. pos-1]
          sps,     \* sps_str
          pps,     \* pps_str
          samples, \* the samples of the video track
          seams,   \* after which bytes of the file a stale byte was kept
          pc,      \* "open", or "done" once the MP4 file is closed
          failed   \* mp4v2 has refused a track or a sample

vars == <<file, offset, buffer, sps, pps, samples, seams, pc, failed>>

Bytes == [byte : 0..255, at : Nat]

TypeOK ==
  /\ file \in Seq(0..255)
  /\ offset \in 0..Len(file)
  /\ buffer \in Seq(Bytes)
  /\ sps \in BOOLEAN /\ pps \in BOOLEAN /\ (pps => sps)
  /\ samples \in Seq(Seq(Bytes))
  /\ seams \subseteq 1..Len(file)
  /\ pc \in {"open", "done"} /\ failed \in BOOLEAN

\* An Annex B file: every unit after a start code.
Files ==
  UNION {{FlattenSeq([i \in 1..n |-> StartCode \o us[i]]) : us \in [1..n -> Units]}
         : n \in 1..MaxUnits}

Init ==
  /\ file \in Files
  /\ offset = 0 /\ buffer = <<>>
  /\ sps = FALSE /\ pps = FALSE
  /\ samples = <<>> /\ seams = {}
  /\ pc = "open" /\ failed = FALSE

-----------------------------------------------------------------------------
(* The scans for start codes.                                              *)

\* How many bytes of the start code are at i, read forwards; the code reads
\* no further than the first that differs.
MatchedFrom(m, i) ==
  CHOOSE k \in 0..4 :
    /\ \A j \in 1..k : i + j - 1 <= Len(m) /\ m[i + j - 1].byte = StartCode[j]
    /\ k < 4 => i + k > Len(m) \/ m[i + k].byte # StartCode[k + 1]

\* The same backwards from i.
MatchedBefore(m, i) ==
  CHOOSE k \in 0..4 :
    /\ \A j \in 1..k : i - j + 1 >= 1 /\ m[i - j + 1].byte = StartCode[5 - j]
    /\ k < 4 => i - k < 1 \/ m[i - k].byte # StartCode[4 - k]

\* WriteH264File's writelen.  The scan goes back two bytes for one that it
\* reads, so that it does not look at every one.
LastStartCode(m) ==
  LET back[i \in -4..Len(m)] ==
        IF i < 1 THEN 0
        ELSE IF MatchedBefore(m, i) = 4 THEN i
        ELSE back[i - MatchedBefore(m, i) - 2]
  IN  back[Len(m)]

\* Where the first unit starts that ReadOneNaluFromBuf finds in the first n
\* bytes; 0 if it finds none.  The bytes that matched are not read again.
FirstUnit(m, n) ==
  LET scan[i \in 1..(n + 4)] ==
        IF i > n THEN 0
        ELSE IF MatchedFrom(m, i) = 4 THEN i + 4
        ELSE scan[i + MatchedFrom(m, i) + 1]
  IN  scan[1]

\* Where the unit that starts at i ends: at the next start code, or at n.
UnitEnd(m, i, n) ==
  LET codes == {p \in i..(n - 3) : MatchedFrom(m, p) = 4}
  IN  IF codes = {} THEN n ELSE (CHOOSE p \in codes : \A q \in codes : p <= q) - 1

\* The calls of ReadOneNaluFromBuf in WriteH264Data: the units of the first n
\* bytes.  The start code that ends them starts one more unit, an empty one.
UnitsOf(m, n) ==
  LET from[i \in 1..(n + 1)] ==
        LET e == UnitEnd(m, i, n)
        IN  <<[first |-> i, last |-> e]>>
              \o (IF e + 4 <= n THEN from[e + 5] ELSE <<>>)
  IN  IF FirstUnit(m, n) = 0 THEN <<>> ELSE from[FirstUnit(m, n)]

\* nalu.type; an empty unit has the type of the byte after it in the buffer.
NalType(m, u, stale) ==
  (IF u.first <= Len(m) THEN m[u.first].byte ELSE stale) % 32

-----------------------------------------------------------------------------
(* WriteH264Data.                                                          *)

KeptTypes == {1, 5, 6, 7, 8}

Track == [sps : BOOLEAN, pps : BOOLEAN, samples : Seq(Seq(Bytes))]

\* Mutant: nalu.data points behind the header byte.
HandleHeaderless(t, data, track) ==
  CASE t = 7 /\ ~track.sps                        -> [track EXCEPT !.sps = TRUE]
    [] t = 8 /\ track.sps /\ ~track.pps           -> [track EXCEPT !.pps = TRUE]
    [] t \in KeptTypes /\ track.sps /\ track.pps  ->
         IF data = <<>> THEN track ELSE [track EXCEPT !.samples = Append(@, Tail(data))]
    [] OTHER                                      -> track

\* Mutant: the picture parameter set is not waited for.
HandleEarly(t, data, track) ==
  CASE t = 7 /\ ~track.sps             -> [track EXCEPT !.sps = TRUE]
    [] t = 8 /\ ~track.pps             -> [track EXCEPT !.pps = TRUE]
    [] t \in KeptTypes /\ track.sps    -> [track EXCEPT !.samples = Append(@, data)]
    [] OTHER                           -> track

\* What becomes of the track when a unit of type t has been handled.
Handle(t, data, track) ==
  CASE t = 7 /\ ~track.sps                        -> [track EXCEPT !.sps = TRUE]
    [] t = 8 /\ track.sps /\ ~track.pps           -> [track EXCEPT !.pps = TRUE]
    [] t \in KeptTypes /\ track.sps /\ track.pps  -> [track EXCEPT !.samples = Append(@, data)]
    [] OTHER                                      -> track

\* The track after the first k units of m.
HandleUnits(m, units, stale, k) ==
  LET track[j \in 0..k] ==
        IF j = 0 THEN [sps |-> sps, pps |-> pps, samples |-> samples]
        ELSE Handle(NalType(m, units[j], stale), SubSeq(m, units[j].first, units[j].last), track[j - 1])
  IN  track[k]

\* Unit k + 1 makes a call of mp4v2 whose failure ends WriteH264Data.
MayFail(m, units, stale, k) ==
  LET track == HandleUnits(m, units, stale, k)
      t     == NalType(m, units[k + 1], stale)
  IN  t \in KeptTypes /\ IF track.sps THEN track.pps ELSE t = 7

\* Mutant: only the sizes of the units are added up, not their start codes.
WrittenSizes(units) ==
  FoldLeft(LAMBDA n, u : n + u.last - u.first + 1, 0, units)

\* The pos that WriteH264Data returns: the end of the last unit, 0 without one.
Written(units) == IF units = <<>> THEN 0 ELSE Last(units).last

-----------------------------------------------------------------------------
(* WriteH264File: one action for one turn of its loop.                     *)

Fresh == IF BufferSize - Len(buffer) <= Len(file) - offset
         THEN BufferSize - Len(buffer)
         ELSE Len(file) - offset

ReadBytes == [i \in 1..Fresh |-> [byte |-> file[offset + i], at |-> offset + i]]

\* fread returns nothing more: the files are closed.
EndOfFile ==
  /\ pc = "open" /\ Fresh <= 0
  /\ pc' = "done"
  /\ UNCHANGED <<file, offset, buffer, sps, pps, samples, seams, failed>>

SetTrack(track) ==
  sps' = track.sps /\ pps' = track.pps /\ samples' = track.samples

\* Mutant: only an error stops the loop.
NothingWrittenError(written) == written < 0

\* The loop stops when WriteH264Data has found no unit.
NothingWritten(written) == written <= 0

\* What memcpy moves to the front: the bytes after those that were written,
\* and one more, which fread has not set.
Rest(m, written, stale) == Append(SubSeq(m, written + 1, Len(m)), [byte |-> stale, at |-> 0])

Chunk ==
  /\ pc = "open" /\ Fresh > 0
  /\ offset' = offset + Fresh
  /\ \E stale \in Stale :
       LET m     == buffer \o ReadBytes
           units == UnitsOf(m, LastStartCode(m))
       IN  \/ /\ SetTrack(HandleUnits(m, units, stale, Len(units)))
              /\ IF NothingWritten(Written(units))
                 THEN pc' = "done" /\ UNCHANGED <<buffer, seams>>
                 ELSE /\ buffer' = Rest(m, Written(units), stale)
                      /\ seams' = seams \cup {offset'}
                      /\ UNCHANGED pc
              /\ UNCHANGED failed
           \* MP4AddH264VideoTrack or MP4WriteSample fails.
           \/ \E k \in 0..(Len(units) - 1) :
                /\ MayFail(m, units, stale, k)
                /\ SetTrack([HandleUnits(m, units, stale, k) EXCEPT !.sps = TRUE])
                /\ pc' = "done" /\ failed' = TRUE
                /\ UNCHANGED <<buffer, seams>>
  /\ UNCHANGED file

Next == EndOfFile \/ Chunk

Spec == Init /\ [][Next]_vars

-----------------------------------------------------------------------------
(* What a file consists of, said without a scan.                           *)

IsCode(p) == p >= 1 /\ p + 3 <= Len(file) /\ SubSeq(file, p, p + 3) = StartCode

\* The units of the file: from a start code to the next one or to the end.
FileUnits ==
  {u \in (1..Len(file)) \X (1..Len(file)) :
     /\ u[1] <= u[2] /\ IsCode(u[1] - 4)
     /\ u[2] = Len(file) \/ IsCode(u[2] + 1)
     /\ \A p \in u[1]..(u[2] - 3) : ~IsCode(p)}

TypeOf(u) == file[u[1]] % 32

\* A picture parameter set that follows a sequence parameter set is before p.
Configured(p) ==
  \E v, w \in FileUnits : v[1] < w[1] /\ w[1] < p /\ TypeOf(v) = 7 /\ TypeOf(w) = 8

\* What a player needs of the file: the kept units after both parameter sets.
Wanted == {u \in FileUnits : TypeOf(u) \in KeptTypes /\ Configured(u[1])}

WantedBefore(p) == {u \in Wanted : u[1] < p}

Positions(s) == [i \in 1..Len(s) |-> s[i].at]

\* The positions of the bytes of s that were read.
FromFile(s) == {s[i].at : i \in DOMAIN s} \ {0}

IsUnit(s, u) == Positions(s) = [i \in 1..(u[2] - u[1] + 1) |-> u[1] + i - 1]

\* s is the i-th of the units a player needs.
IsWanted(s, i) ==
  \E u \in Wanted : IsUnit(s, u) /\ Cardinality(WantedBefore(u[1])) = i - 1

-----------------------------------------------------------------------------
(* Properties.                                                             *)

\* memcpy never leaves more in the buffer than it can hold, so fread is never
\* asked for a negative number of bytes.
FitsBuffer == Len(buffer) <= BufferSize

\* No byte of the file is written twice, and none before an earlier one,
\* across all reads of the file.
InOrder ==
  \A i, j \in DOMAIN samples : \A a \in DOMAIN samples[i], b \in DOMAIN samples[j] :
    i < j \/ (i = j /\ a < b) =>
      samples[i][a].at = 0 \/ samples[j][b].at = 0 \/ samples[i][a].at < samples[j][b].at

\* A sample is a whole unit of the file, unless the byte that memcpy adds
\* between two reads is in it or in the start code before or after it.
DamageOnlyAtSeams ==
  \A i \in DOMAIN samples :
    LET s == samples[i]
    IN  \/ FromFile(s) = {}
        \/ \E u \in FileUnits : IsUnit(s, u)
        \/ \E q \in seams, p, r \in FromFile(s) : p - 5 <= q /\ q <= r + 4

\* A file that fits the buffer loses units only at its end: what is written
\* are the units a player needs, each whole, from the first one on; only the
\* last sample may be empty, the unit of the start code that ends the scan.
SmallFileIsPrefix ==
  Len(file) <= BufferSize =>
    \A i \in DOMAIN samples :
      IsWanted(samples[i], i) \/ (i = Len(samples) /\ samples[i] = <<>>)

\* MP4Encoder.h:43 "convert H264 file to mp4 file.": when the MP4 file is
\* closed and mp4v2 has refused nothing, every unit a player needs is in it.
NoUnitLost ==
  pc = "done" /\ ~failed =>
    Cardinality({i \in DOMAIN samples : samples[i] # <<>>}) >= Cardinality(Wanted)
=============================================================================
