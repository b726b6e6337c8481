----------------------------- MODULE FpgaDriver -----------------------------
(***************************************************************************)
(* The ARM side of the FPGA: register block, memory aperture with its bump *)
(* allocator and the ELF loader of the driver, against the device that     *)
(* docs/architecture/axi_interface.md describes.                           *)
(*                                                                         *)
(* The aperture is a row of cells; a cell holds the path of the kernel     *)
(* whose image was written there, "zero", "data" or "none".                *)
(***************************************************************************)
EXTENDS DriverLoader, SequencesExt

CONSTANTS
    MEM_BASE, MEM_SIZE,     \* the aperture
    HEAP_OFFSET,            \* kDataHeapOffset
    VERIFY_BYTES,           \* kVerifyBytes
    Images                  \* path -> the ELF file there

ASSUME FpgaDriverAssumption ==
    /\ MEM_BASE \in Nat \ {0} /\ MEM_SIZE \in Nat /\ HEAP_OFFSET \in Nat
    /\ MEM_BASE + MEM_SIZE + HOST_MEMORY < SIZE_VALUES

VARIABLES
    driver,     \* FpgaDriver: is it open, next_alloc_ and buffers_
    ram,        \* the aperture
    pc_init,    \* REG_PC_INIT: path of the image whose entry it holds
    dev         \* the device; wanted is the fate of the last START

fpgaVars == <<driver, ram, pc_init, dev>>

Closed == [open |-> FALSE, next_alloc |-> 0, buffers |-> << >>]
Cells == MEM_BASE .. MEM_BASE + MEM_SIZE - 1

FpgaInit ==
    /\ driver = Closed
    /\ ram = [a \in Cells |-> "none"]
    /\ pc_init = NoPath
    /\ dev = [status |-> "IDLE", start |-> FALSE, run |-> NoPath, wanted |-> "none"]
-----------------------------------------------------------------------------
(***************************************************************************)
(* Aperture and allocator.                                                 *)
(***************************************************************************)
HeapStart == MEM_BASE + Min({HEAP_OFFSET, MEM_SIZE \div 2})

\* memAt(): the range lies in the aperture.  Its sum does not wrap: sizes are
\* those of blocks of the host or of 32-bit ELF segments.
MemAt(a, size) == a >= MEM_BASE /\ a + size <= MEM_BASE + MEM_SIZE

\* writeMem() of a range of cells to memory m.
Write(m, a, size, tag) == [x \in Cells |-> IF x \in a .. a + size - 1 THEN tag ELSE m[x]]

\* open(): everything is mapped and the id is right, or all is closed again.
OpenDriver(works) ==
    /\ driver' = IF works THEN [open |-> TRUE, next_alloc |-> HeapStart, buffers |-> << >>]
                 ELSE Closed
    /\ UNCHANGED <<ram, pc_init, dev>>

CloseDriver == driver' = Closed /\ UNCHANGED <<ram, pc_init, dev>>

HasRoom(size) == driver.open /\ Bumped(driver.next_alloc, size) <= MEM_BASE + MEM_SIZE

AllocateBuffer(size) ==
    /\ driver' = [driver EXCEPT !.buffers = WithBuffer(@, driver.next_alloc, size),
                                !.next_alloc = Bumped(@, size)]
    /\ UNCHANGED <<ram, pc_init, dev>>

\* Fault: the freed address is the next one to be handed out.
FreeBufferRewinds(a) ==
    /\ driver' = [driver EXCEPT !.buffers = WithoutBuffer(@, a), !.next_alloc = a]
    /\ UNCHANGED <<ram, pc_init, dev>>

FreeBuffer(a) ==
    /\ driver' = [driver EXCEPT !.buffers = WithoutBuffer(@, a)]
    /\ UNCHANGED <<ram, pc_init, dev>>

CopyToDevice(a, size) ==
    /\ ram' = Write(ram, a, size, "data")
    /\ UNCHANGED <<driver, pc_init, dev>>
-----------------------------------------------------------------------------
(***************************************************************************)
(* loadElfToFpga(): PT_LOAD segments in order; the first that cannot be    *)
(* written ends the load, with what was written before left in place.      *)
(***************************************************************************)
Loadable(seg) == seg.load /\ seg.memsz > 0

\* What the ELF format asks of an image: a segment has no more bytes in the
\* file than in memory, and loadable segments do not overlap.
WellFormed(segs) ==
    /\ segs \in Seq([load: BOOLEAN, in_file: BOOLEAN, vaddr: Nat, filesz: Nat, memsz: Nat])
    /\ \A i \in DOMAIN segs : segs[i].filesz <= segs[i].memsz
    /\ \A i, j \in DOMAIN segs :
          i # j /\ Loadable(segs[i]) /\ Loadable(segs[j]) =>
              \/ segs[i].vaddr + segs[i].memsz <= segs[j].vaddr
              \/ segs[j].vaddr + segs[j].memsz <= segs[i].vaddr

\* Kernels are linked below the heap ("kernel code is never overwritten by
\* gpgpuMalloc()", fpga_driver.cpp:24); the loader does not look.
BelowHeap(segs) ==
    (\A i \in DOMAIN segs : Loadable(segs[i]) => MemAt(segs[i].vaddr, segs[i].memsz)) =>
        \A i \in DOMAIN segs : Loadable(segs[i]) => segs[i].vaddr + segs[i].filesz <= HeapStart

ASSUME ImagesAssumption ==
    \A path \in DOMAIN Images :
        WellFormed(Images[path].segments) /\ BelowHeap(Images[path].segments)

LoadSegment(path, acc, seg) ==
    IF ~acc.ok \/ ~Loadable(seg) THEN acc
    ELSE LET written == IF seg.filesz > 0 /\ MemAt(seg.vaddr, seg.filesz)
                          THEN Write(acc.m, seg.vaddr, seg.filesz, path) ELSE acc.m
             zeroed == Write(written, seg.vaddr + seg.filesz, seg.memsz - seg.filesz, "zero")
             verified == \A x \in seg.vaddr .. seg.vaddr + Min({VERIFY_BYTES, seg.filesz}) - 1 :
                             zeroed[x] = path
         IN  IF ~seg.in_file \/ (seg.filesz > 0 /\ ~MemAt(seg.vaddr, seg.filesz))
               THEN [acc EXCEPT !.ok = FALSE]
             ELSE IF ~MemAt(seg.vaddr, seg.memsz) THEN [ok |-> FALSE, m |-> written]
             ELSE [ok |-> verified, m |-> zeroed]

\* A file that cannot be read or has a bad header writes nothing.
LoadElf(path) ==
    IF path \notin DOMAIN Images \/ ~Images[path].header THEN [ok |-> FALSE, m |-> ram]
    ELSE LET segs == Images[path].segments
             loaded[i \in 0 .. Len(segs)] ==
                 IF i = 0 THEN [ok |-> TRUE, m |-> ram]
                 ELSE LoadSegment(path, loaded[i - 1], segs[i])
         IN  loaded[Len(segs)]

\* The cells that hold file contents once the image is loaded.
CodeCells(path) ==
    UNION {seg.vaddr .. seg.vaddr + seg.filesz - 1 :
              seg \in {s \in Range(Images[path].segments) : Loadable(s)}}
-----------------------------------------------------------------------------
(***************************************************************************)
(* The device.  START is taken within the 10 ms the contract allows; a     *)
(* device that runs, or has failed, ignores it.  A run ends in DONE or in  *)
(* ERROR, RESET returns to IDLE at once.                                   *)
(***************************************************************************)
DeviceTakesStart ==
    /\ dev.start
    /\ dev' = IF dev.status \in {"IDLE", "DONE"}
                THEN [status |-> "RUNNING", start |-> FALSE, run |-> pc_init, wanted |-> "running"]
                ELSE [dev EXCEPT !.start = FALSE]
    /\ UNCHANGED <<driver, ram, pc_init>>

DeviceEnds ==
    /\ dev.status = "RUNNING"
    /\ \E s \in {"DONE", "ERROR"} :
         dev' = [dev EXCEPT !.status = s, !.wanted = IF @ = "running" THEN "ended" ELSE @]
    /\ UNCHANGED <<driver, ram, pc_init>>

\* start()
StartDevice == dev' = [dev EXCEPT !.start = TRUE, !.wanted = "waiting"]

\* reset() and its wait for IDLE.
ResetDevice ==
    /\ dev' = [status |-> "IDLE", start |-> FALSE, run |-> NoPath, wanted |-> "none"]
    /\ UNCHANGED <<driver, ram, pc_init>>
=============================================================================
