------------------------------- MODULE MCHost -------------------------------
(* Files, images and bundles for TLC. *)
EXTENDS HostRuntime

Seg(v, f, m) == [load |-> TRUE, in_file |-> TRUE, vaddr |-> v, filesz |-> f, memsz |-> m]
Note == [Seg(1, 1, 1) EXCEPT !.load = FALSE]

\* good: code and bss; split: its second segment misses the aperture.
MCImages == [good |-> [header |-> TRUE, segments |-> <<Note, Seg(1, 2, 3)>>],
             split |-> [header |-> TRUE, segments |-> <<Seg(2, 1, 1), Seg(9, 1, 1)>>],
             text |-> [header |-> FALSE, segments |-> << >>]]

MCFiles == [good |-> [size |-> 2, blank |-> FALSE, source |-> "k1"],
            split |-> [size |-> 2, blank |-> FALSE, source |-> "k2"],
            text |-> [size |-> 1, blank |-> FALSE, source |-> "k1"],
            empty |-> [size |-> 1, blank |-> TRUE, source |-> ""]]

Elf == {PackKernelBundle("k1", "good", 1), PackKernelBundle("k2", "split", 1)}
Ptx == {PackPtxKernelBundle("k1", "text", 1), PackPtxKernelBundle("k2", "text", 1)}
Broken == {PackKernelBundle("", "good", 1), PackPtxKernelBundle("k1", "empty", 1),
           PackKernelBundle("k1", "good", 0)}

MCManifests == [fpga |-> Elf, sim |-> {PackKernelBundle("k1", "good", 1)} \cup Ptx \cup Broken]
MCSources == [fpga |-> {"k1"}, sim |-> {"k1", "bad"}]
MCSizes == [fpga |-> {1, 3}, sim |-> {0, 1, 4}]

\* Sizes near the end of a size_t: 60 moves the bump pointer back by 4.
NearSizeMax == [fpga |-> {2, 60}]
=============================================================================
