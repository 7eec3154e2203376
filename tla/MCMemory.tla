------------------------------ MODULE MCMemory ------------------------------
(* Instances of memory management for TLC. *)
EXTENDS Memory

\* A page of init (process 1), and two of the system task (process 2).
OneAndTwo == {9, 16, 17}
\* Two pages of each.
TwoAndTwo == {8, 9, 16, 17}
\* All get the first page of the kernel.
KernelCode == <<<<0, 9>>, <<0, 16>>>>
KernelCodeFirst == <<<<0, 8>>, <<0, 16>>>>
\* A buffer in each segment, and two pointers of process 2 that are past the end of its
\* segment and come around: to the page of process 1, and to the first of its own.
Buffers == {<<1, 0>>, <<2, 0>>, <<2, 24>>, <<2, 31>>}

ASSUME BuffersInUse == BuffersAboveKernel
=============================================================================
