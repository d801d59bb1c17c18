------------------------------- MODULE Mapper -------------------------------
(***************************************************************************)
(* Mapping a PE image (src/src/loaderlib/mapper.c): map_pe with map_pe64   *)
(* or map_pe32, according to the build.                                    *)
(*                                                                         *)
(* A byte of memory is the offset in the file it was copied from, Zero, or *)
(* nothing at all outside the mapping.  Addresses are relative to the      *)
(* start of the mapping; `placed` says whether it is at image_base.        *)
(***************************************************************************)
EXTENDS Integers, Sequences

CONSTANTS
  Page,    \* 0x1000 in the code
  U32,     \* 2^32 in the code
  Inputs   \* the images considered: see InputOK

ASSUME MapperAssumption == Page \in Nat \ {0} /\ U32 \in Nat \ {0} /\ U32 % Page = 0

VARIABLES
  in,      \* the file and the build
  pc,      \* "check", "place", "headers", "sections", "done", "bound"
  status,  \* what map_pe returns; "crash" if it does not return
  mapped,  \* bytes mapped; 0 when there is no mapping
  placed,  \* whether the mapping is where the headers want it
  mem,     \* the mapped bytes
  exec,    \* the pages made executable
  sec      \* section headers processed

vars == <<in, pc, status, mapped, placed, mem, exec, sec>>

Zero == -1

Section == [va : Nat, vsize : Nat, raw : Nat, rawSize : Nat]

(* `header` is what the signatures, machine and magic amount to.           *)
InputOK(i) ==
  /\ i.build \in {64, 32}
  /\ i.header \in {"none", "badMachine", "badMagic", "pe64", "pe32"}
  /\ i.size \in Nat \ {0}                 \* of the file
  /\ i.stripped \in BOOLEAN               \* IMAGE_FILE_RELOCS_STRIPPED
  /\ i.imageSize \in 0..(U32 - 1) /\ i.headerSize \in 0..(U32 - 1)
  /\ i.sections \in Seq(Section)
  /\ i.iat \in [va : Nat, size : Nat]      \* the import address table

ASSUME InputsAssumption == \A i \in Inputs : InputOK(i)

Max2(a, b) == IF a > b THEN a ELSE b
(* (n + 0x1000 - 1) & ~(0x1000 - 1) in 32 bits.                            *)
RoundUp(n) == LET m == (n + Page - 1) % U32 IN m - (m % Page)

(* The file is mapped in whole pages: past its end there are zeros up to   *)
(* the end of the page, and then nothing.                                  *)
FileEnd == in.size + ((-in.size) % Page)
InFile(from, len) == len = 0 \/ from + len <= FileEnd
FileByte(offset) == IF offset < in.size THEN offset ELSE Zero

Finish(s) == pc' = "done" /\ status' = s
-----------------------------------------------------------------------------
(* The checks of map_pe, in their order.                                   *)
CheckStatus ==
  CASE in.header \in {"none", "badMagic"} -> "BAD_FORMAT"
    [] in.header = "badMachine" -> "BAD_ARCH"
    [] in.header = "pe64" -> IF in.build = 64 THEN "SUCCESS" ELSE "BAD_ARCH"
    [] in.header = "pe32" -> IF in.build = 32 THEN "SUCCESS" ELSE "BAD_ARCH"

Check ==
  /\ pc = "check"
  /\ \/ CheckStatus = "SUCCESS" /\ pc' = "place" /\ UNCHANGED status
     \/ CheckStatus # "SUCCESS" /\ Finish(CheckStatus)
  /\ UNCHANGED <<in, mapped, placed, mem, exec, sec>>

(* mmap: it may fail, and must for an empty mapping.  Without relocations  *)
(* the 64-bit build insists on the address and stops the process when it   *)
(* is taken; the 32-bit build gives the mapping back when it is elsewhere, *)
(* and never looks for MAP_FAILED.                                         *)
ImageBytes == RoundUp(in.imageSize)

BadHeaderSize == in.headerSize = 0 \/ in.headerSize > in.imageSize

PlaceFails ==
  /\ pc = "place"
  /\ Finish(CASE in.build = 64 -> IF in.stripped THEN "crash" ELSE "NO_MEM"
              [] in.build = 32 /\ in.stripped -> "NO_MEM"
              [] in.build = 32 /\ ~ in.stripped ->
                   IF BadHeaderSize THEN "BAD_FORMAT" ELSE "crash")
  /\ UNCHANGED <<in, mapped, placed, mem, exec, sec>>

PlaceElsewhere ==
  /\ pc = "place" /\ ImageBytes > 0
  /\ ~ (in.stripped /\ in.build = 64)
  /\ placed' = FALSE
  /\ IF in.stripped
     THEN Finish("NO_MEM") /\ UNCHANGED <<mapped, mem>>
     ELSE /\ pc' = "headers" /\ mapped' = ImageBytes /\ UNCHANGED status
          /\ mem' = [a \in 0..(ImageBytes - 1) |-> Zero]
  /\ UNCHANGED <<in, exec, sec>>

PlaceAtBase ==
  /\ pc = "place" /\ ImageBytes > 0
  /\ placed' = TRUE
  /\ pc' = "headers" /\ mapped' = ImageBytes
  /\ mem' = [a \in 0..(ImageBytes - 1) |-> Zero]
  /\ UNCHANGED <<in, status, exec, sec>>

(* Copying `len` bytes to the mapping: a crash outside it or the file.     *)
Fits_Strict(to, len) == len = 0 \/ to + len < mapped

Fits(to, len) == len = 0 \/ to + len <= mapped

HeadersBad_Leak ==
  /\ pc = "headers"
  /\ BadHeaderSize
  /\ Finish("BAD_FORMAT")
  /\ UNCHANGED <<in, mapped, placed, mem, exec, sec>>

HeadersBad ==
  /\ pc = "headers"
  /\ BadHeaderSize
  /\ Finish("BAD_FORMAT")
  /\ mapped' = 0 /\ mem' = <<>>
  /\ UNCHANGED <<in, placed, exec, sec>>

Headers ==
  /\ pc = "headers"
  /\ ~ BadHeaderSize
  /\ IF Fits(0, in.headerSize) /\ InFile(0, in.headerSize)
     THEN /\ mem' = [a \in DOMAIN mem |-> IF a < in.headerSize THEN FileByte(a) ELSE mem[a]]
          /\ pc' = "sections" /\ UNCHANGED status
     ELSE Finish("crash") /\ UNCHANGED mem
  /\ UNCHANGED <<in, mapped, placed, exec, sec>>

(* One turn of the loop over the sections: copy the raw bytes, clear the   *)
(* rest of the virtual size, make the pages of the virtual size            *)
(* executable.                                                             *)
Copied_RawAtVa(s) ==
  [a \in DOMAIN mem |->
     IF a \in s.va..(s.va + s.rawSize - 1) THEN FileByte(a)
     ELSE IF a \in (s.va + s.rawSize)..(s.va + s.vsize - 1) THEN Zero
     ELSE mem[a]]

Copied(s) ==
  [a \in DOMAIN mem |->
     IF a \in s.va..(s.va + s.rawSize - 1) THEN FileByte(s.raw + a - s.va)
     ELSE IF a \in (s.va + s.rawSize)..(s.va + s.vsize - 1) THEN Zero
     ELSE mem[a]]

PagesOf(s) == {p \in 0..(mapped \div Page) :
                 p >= s.va \div Page /\ p < s.va \div Page + RoundUp(s.vsize) \div Page}

CopySection ==
  /\ pc = "sections"
  /\ sec < Len(in.sections)
  /\ LET s == in.sections[sec + 1]
     IN IF Fits(s.va, Max2(s.rawSize, s.vsize)) /\ InFile(s.raw, s.rawSize)
        THEN /\ mem' = Copied(s)
             /\ exec' = exec \cup PagesOf(s)
             /\ sec' = sec + 1
             /\ UNCHANGED <<pc, status>>
        ELSE Finish("crash") /\ UNCHANGED <<mem, exec, sec>>
  /\ UNCHANGED <<in, mapped, placed>>

SectionsDone ==
  /\ pc = "sections"
  /\ sec = Len(in.sections)
  /\ Finish("SUCCESS")
  /\ UNCHANGED <<in, mapped, placed, mem, exec, sec>>
(* process_imports makes the pages of the import address table writable, a *)
(* page at a time, and with that no longer executable.                     *)
IatPages_Wide ==
  LET first == in.iat.va \div Page
  IN first..(first + (in.iat.size + 2 * Page) \div Page)

IatPages ==
  LET first == in.iat.va \div Page
  IN first..(first + (in.iat.size + 2 * Page - 1) \div Page - 1)

OpenIat ==
  /\ pc = "done" /\ status = "SUCCESS"
  /\ exec' = exec \ IatPages
  /\ pc' = "bound"
  /\ UNCHANGED <<in, status, mapped, placed, mem, sec>>
-----------------------------------------------------------------------------
Init ==
  /\ in \in Inputs
  /\ pc = "check" /\ status = "none" /\ mapped = 0 /\ placed = FALSE
  /\ mem = <<>> /\ exec = {} /\ sec = 0

Step ==
  \/ Check \/ PlaceFails \/ PlaceElsewhere \/ PlaceAtBase
  \/ HeadersBad \/ Headers \/ CopySection \/ SectionsDone \/ OpenIat

Next == Step \/ (pc \in {"done", "bound"} /\ UNCHANGED vars)

Spec == Init /\ [][Next]_vars
-----------------------------------------------------------------------------
(* An image as a linker writes it: the sections come in ascending order    *)
(* and on pages of their own, inside the image, with their bytes in the    *)
(* file; the size of the image can be rounded up in 32 bits.               *)
Extent(s) == Max2(s.rawSize, s.vsize)
WellFormed ==
  /\ in.imageSize <= U32 - Page
  /\ in.headerSize <= in.size
  /\ \A k \in DOMAIN in.sections :
       LET s == in.sections[k]
       IN /\ s.va % Page = 0 /\ s.va >= in.headerSize
          /\ s.va + Extent(s) <= in.imageSize
          /\ s.raw + s.rawSize <= in.size
          /\ \A l \in 1..(k - 1) : in.sections[l].va + Extent(in.sections[l]) <= s.va

Source(a) ==
  LET owners == {k \in DOMAIN in.sections :
                   a \in in.sections[k].va..(in.sections[k].va + Extent(in.sections[k]) - 1)}
  IN IF owners # {}
     THEN LET s == in.sections[CHOOSE k \in owners : TRUE]
          IN IF a - s.va < s.rawSize THEN s.raw + a - s.va ELSE Zero
     ELSE IF a < in.headerSize THEN a ELSE Zero

TypeOK ==
  /\ InputOK(in)
  /\ pc \in {"check", "place", "headers", "sections", "done", "bound"}
  /\ status \in {"none", "SUCCESS", "BAD_FORMAT", "BAD_ARCH", "NO_MEM", "crash"}
  /\ mapped \in 0..(U32 - 1) /\ mapped % Page = 0
  /\ placed \in BOOLEAN /\ sec \in 0..Len(in.sections)
  /\ DOMAIN mem = 0..(mapped - 1)

(* Every byte of a mapped image is the one its section or its header says: *)
(* nothing is lost to the order of the copies, nothing is left uncleared.  *)
ImageFaithful ==
  status = "SUCCESS" /\ WellFormed =>
    /\ mapped >= in.imageSize
    /\ \A a \in 0..(mapped - 1) : mem[a] = Source(a)

(* Mapping a well-formed image with an address of its choice does not      *)
(* crash unless mmap fails in the 32-bit build, where MAP_FAILED goes      *)
(* unnoticed.                                                              *)
WellFormedMaps ==
  status = "crash" /\ WellFormed => mapped = 0 /\ (in.build = 32 \/ in.stripped)

(* An image is never left mapped by a call that failed.                    *)
FailureUnmaps == status \in {"BAD_FORMAT", "BAD_ARCH", "NO_MEM"} => mapped = 0

(* Every byte of a section's virtual size can be executed when map_pe      *)
(* returns.  Binding the imports takes that from the pages of the import   *)
(* address table and from at most one page after them.                     *)
SectionsExecutable ==
  status = "SUCCESS" /\ WellFormed =>
    \A k \in DOMAIN in.sections :
      LET s == in.sections[k]
          last == (in.iat.va + Max2(in.iat.size, 1) - 1) \div Page
      IN \A a \in s.va..(s.va + s.vsize - 1) :
           a \div Page \notin exec =>
             pc = "bound" /\ a \div Page \in (in.iat.va \div Page)..(last + 1)
=============================================================================
