------------------------------ MODULE MCProcVM ------------------------------
(* Instantiation of ProcVM for TLC.                                        *)
EXTENDS ProcVM

\* A read-only text page (1) and a writable stack page (2).
MCUVA == {1, 2}
MCWritable == {2}
\* Loading takes 5 frames and each fork 3; with three processes this leaves
\* room for one copy-on-write frame per process and for reuse after exit.
MCFrames == 1..13
\* Only the writable stack page: a store into a read-only page cannot be
\* what breaks private memories.
MCStackOnly == {2}
=============================================================================
