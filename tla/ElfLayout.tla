------------------------------ MODULE ElfLayout ------------------------------
(***************************************************************************)
(* What tool/verify_android_bundle.py reads in a shared library: the       *)
(* layout that Android's loader needs (verify_elf) and the identity that   *)
(* survives stripping (binary_identity).  Sizes are in units of the        *)
(* model: the ELF header and a program header are one unit each.           *)
(***************************************************************************)
EXTENDS Integers, Sequences

CONSTANT PAGE_SIZE \* 16 KiB

ElfHeader     == 1
ProgramHeader == 1

\* [load, offset, address, fileSize, memorySize, alignment]
Loads(image) ==
    {image.segments[i] : i \in {j \in DOMAIN image.segments : image.segments[j].load}}

\* The fields of a program header are unsigned.
Unsigned(image) ==
    \A segment \in Loads(image) :
        /\ segment.offset \in Nat /\ segment.address \in Nat
        /\ segment.alignment \in Nat

\* One bit is set: 1 was doubled some number of times.
PowerOfTwo(n) ==
    LET power[k \in 0 .. n] == IF k = 0 THEN 1 ELSE 2 * power[k - 1]
    IN  \E k \in 0 .. n : n = power[k]

ASSUME PageAssumption == PAGE_SIZE \in Nat \ {0} /\ PowerOfTwo(PAGE_SIZE)

Congruent(offset, address, n) == offset % n = address % n

SegmentFits(segment, image) ==
    /\ segment.fileSize <= segment.memorySize
    /\ segment.offset + segment.fileSize <= image.size

\* Mutant: an alignment need not be a power of two, as long as it is large.
ElfOfAnyAlignment(image) ==
    /\ image.aarch64
    /\ image.tableAt >= ElfHeader
    /\ image.tableAt + ProgramHeader * Len(image.segments) <= image.size
    /\ Loads(image) # {}
    /\ \A segment \in Loads(image) :
         /\ segment.alignment >= PAGE_SIZE
         /\ Congruent(segment.offset, segment.address, segment.alignment)
         /\ SegmentFits(segment, image)

\* aarch64: an ELF64 shared object for AArch64 with headers of the known sizes.
verify_elf(image) ==
    /\ image.aarch64
    /\ image.tableAt >= ElfHeader
    /\ image.tableAt + ProgramHeader * Len(image.segments) <= image.size
    /\ Loads(image) # {}
    /\ \A segment \in Loads(image) :
         /\ segment.alignment >= PAGE_SIZE /\ PowerOfTwo(segment.alignment)
         /\ Congruent(segment.offset, segment.address, segment.alignment)
         /\ SegmentFits(segment, image)

\* The first GNU build ID before a note that is cut off, or else the whole file,
\* so that a file without an ID must be the same byte by byte.
binary_identity(binary) ==
    LET notes == binary.notes
        Whole(i) == \A j \in 1 .. i : ~notes[j].truncated
    IN  IF \E i \in DOMAIN notes : notes[i].buildId /\ Whole(i)
        THEN <<"build-id", binary.built>>
        ELSE IF \A i \in DOMAIN notes : Whole(i) THEN <<"sha256", binary>>
        ELSE <<"truncated", binary>>

Identified(binary) == binary_identity(binary)[1] # "truncated"
=============================================================================
