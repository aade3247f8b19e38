---------------------------- MODULE ArtefactScan ----------------------------
(***************************************************************************)
(* scan_file (attribution.rs 327-391): one pass over a built binary in     *)
(* overlapping windows, and the verdict verify_artefact (417-451) draws    *)
(* from it.  The search inside a window is module HorspoolSearch; here it  *)
(* is what it answers, the first occurrence.                               *)
(***************************************************************************)
EXTENDS Integers, Sequences

CONSTANTS Artefacts,  \* the files to scan, as sequences of bytes
          Wanted,     \* << expected stamp, stamp prefix, marker, ... >>
          CHUNK       \* 1 MiB in the code

ASSUME ScanAssumption ==
    /\ CHUNK \in Nat \ {0}
    /\ Artefacts \subseteq Seq(Nat) /\ Wanted \in Seq(Seq(Nat))
    /\ Len(Wanted) >= 2
    /\ Len(Wanted[2]) <= Len(Wanted[1])
    /\ SubSeq(Wanted[1], 1, Len(Wanted[2])) = Wanted[2]
    /\ \A w \in 1 .. Len(Wanted) : Len(Wanted[w]) > 0

VARIABLES
    file,
    read,      \* the bytes of it that have been read
    buf,       \* buf[0..valid]
    base,      \* the offset in the file of buf[0]
    found,     \* the offset of each needle, or None
    scan       \* "refill", "carry" or "done"

scanVars == << file, read, buf, base, found, scan >>

None == -1
longest == CHOOSE l \in {Len(Wanted[w]) : w \in 1 .. Len(Wanted)} :
              \A w \in 1 .. Len(Wanted) : l >= Len(Wanted[w])

\* A tail one byte short (variant of overlap).
overlapShort == IF longest < 2 THEN 0 ELSE longest - 2
overlap == longest - 1

ScanInit ==
    /\ file \in Artefacts
    /\ read = 0 /\ buf = << >> /\ base = 0
    /\ found = [w \in 1 .. Len(Wanted) |-> None]
    /\ scan = "refill"

OccursIn(text, needle, o) ==
    o + Len(needle) <= Len(text) /\ SubSeq(text, o + 1, o + Len(needle)) = needle

Places(text, needle) == {o \in 0 .. Len(text) : OccursIn(text, needle, o)}

First(text, needle) ==
    IF Places(text, needle) = {} THEN None
    ELSE CHOOSE o \in Places(text, needle) : \A p \in Places(text, needle) : o <= p

\* A read gives any number of the bytes that are left and have room.
Refill ==
    /\ scan = "refill"
    /\ \E k \in 1 .. Len(file) - read :
         /\ Len(buf) + k <= CHUNK + overlap
         /\ buf' = buf \o SubSeq(file, read + 1, read + k)
         /\ read' = read + k
    /\ UNCHANGED << file, base, found, scan >>

\* The whole buffer is searched: `scanned` is 0 whenever the loop gets here.
Search ==
    /\ scan = "refill"
    /\ Len(buf) = CHUNK + overlap \/ read = Len(file)
    /\ found' = [w \in DOMAIN found |->
                   IF found[w] = None /\ First(buf, Wanted[w]) # None
                   THEN base + First(buf, Wanted[w]) ELSE found[w]]
    /\ scan' = IF Len(buf) < CHUNK + overlap THEN "done" ELSE "carry"
    /\ UNCHANGED << file, read, buf, base >>

Carry ==
    /\ scan = "carry"
    /\ buf' = SubSeq(buf, Len(buf) - overlap + 1, Len(buf))
    /\ base' = base + Len(buf) - overlap
    /\ scan' = "refill"
    /\ UNCHANGED << file, read, found >>

ScanNext == Refill \/ Search \/ Carry

ScanSpec == ScanInit /\ [][ScanNext]_scanVars

\* A verdict that asks for the prefix first (variant of StampVerdict).
StampVerdictByPrefix ==
    IF found[2] # None THEN "stale" ELSE IF found[1] # None THEN "current" ELSE "absent"

StampVerdict ==
    IF found[1] # None THEN "current" ELSE IF found[2] # None THEN "stale" ELSE "absent"

\* read_stamp_at: as long as a stamp, unless the file ends before.
StampFound ==
    SubSeq(file, found[2] + 1,
           IF found[2] + Len(Wanted[1]) <= Len(file) THEN found[2] + Len(Wanted[1])
                                                    ELSE Len(file))

MissingMarkers == {w \in 3 .. Len(Wanted) : found[w] = None}
-----------------------------------------------------------------------------
\* SAFETY.  However the reads are cut, each needle is found where it first
\* stands in the file, across the end of a window too, and one that is not
\* found is not there ("the carry-over of overlap bytes still covers a needle
\* that straddles a chunk boundary", 323-326).
FoundIsTheFirst ==
    scan = "done" => \A w \in 1 .. Len(Wanted) : found[w] = First(file, Wanted[w])

\* SAFETY.  A stale verdict names a stamp, and another one than the expected,
\* whatever else in the file looks like the start of one (424-428).
StaleIsAnother ==
    scan = "done" /\ StampVerdict = "stale" =>
        /\ StampFound # Wanted[1]
        /\ SubSeq(StampFound, 1, Len(Wanted[2])) = Wanted[2]

\* SAFETY.  The verdict is about the whole file: "current" if the expected
\* stamp stands anywhere in it, "absent" if not even its beginning does, and a
\* marker is missing if it stands nowhere (417-451).
VerdictIsOfTheFile ==
    scan = "done" =>
        /\ StampVerdict = "current" <=> Places(file, Wanted[1]) # {}
        /\ StampVerdict = "absent" <=> Places(file, Wanted[2]) = {}
        /\ MissingMarkers = {w \in 3 .. Len(Wanted) : Places(file, Wanted[w]) = {}}

\* What is left of a scan: four per byte to be read, and the turns of the loop
\* that can still come without reading one.
ScanLeft ==
    4 * (Len(file) - read)
        + CASE scan = "done"   -> 0
            [] scan = "carry"  -> 2
            [] scan = "refill" -> IF Len(buf) = CHUNK + overlap THEN 3 ELSE 1

\* The offset up to which the file has been searched.
Searched == IF scan # "refill" THEN read ELSE IF base = 0 THEN 0 ELSE base + overlap

\* The inductive invariant: the buffer is a stretch of the file, and what is
\* not found ends nowhere before the place the search has reached.
ScanInv ==
    /\ file \in Seq(Nat) /\ buf \in Seq(Nat) /\ base \in Nat
    /\ scan \in {"refill", "carry", "done"}
    /\ read = base + Len(buf) /\ read <= Len(file)
    /\ \A j \in 1 .. Len(buf) : buf[j] = file[base + j]
    /\ Len(buf) <= CHUNK + overlap
    /\ scan = "carry" => Len(buf) = CHUNK + overlap
    /\ scan = "done" => read = Len(file)
    /\ DOMAIN found = 1 .. Len(Wanted)
    /\ \A w \in 1 .. Len(Wanted) :
         IF found[w] = None
         THEN \A o \in Places(file, Wanted[w]) : o + Len(Wanted[w]) > Searched
         ELSE found[w] = First(file, Wanted[w])
=============================================================================
