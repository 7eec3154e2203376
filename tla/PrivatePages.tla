---------------------------- MODULE PrivatePages ----------------------------
(***************************************************************************)
(* What memory management promises to the processes (kernel/memory.c):     *)
(* every page of every process has a content of its own, a write changes   *)
(* only the page it is made to, and sharing a page copies its content.     *)
(*                                                                         *)
(* The one exception is the code the processes get from the kernel: until  *)
(* a process writes to such a page it sees the kernel's page itself.       *)
(***************************************************************************)
CONSTANTS UserPages,    \* pages of the processes
          KernelFrames, \* pages of the kernel
          Versions,     \* what can be written to a page
          Zero,         \* the content of a page nobody has written
          NoFrame

VARIABLES content,  \* of each page of the processes and of the kernel
          mirrors   \* the kernel page that a page of a process shows

vars == <<content, mirrors>>

Init ==
    /\ content = [v \in UserPages \cup KernelFrames |-> Zero]
    /\ mirrors = [v \in UserPages |-> NoFrame]

Write(v, n) ==
    /\ content' = [content EXCEPT ![v] = <<v, n>>]
    /\ mirrors' = [mirrors EXCEPT ![v] = NoFrame]

\* A page stops showing the kernel's, with the content it has at that time.
Detach(v) ==
    /\ mirrors' = [mirrors EXCEPT ![v] = NoFrame]
    /\ UNCHANGED content

KernelWrite(f, n) ==
    /\ content' = [v \in UserPages \cup KernelFrames |->
                     IF v = f \/ (v \in UserPages /\ mirrors[v] = f) THEN <<f, n>> ELSE content[v]]
    /\ UNCHANGED mirrors

Share(from, to) ==
    /\ content' = [content EXCEPT ![to] = content[from]]
    /\ mirrors' = [mirrors EXCEPT ![to] = IF from \in KernelFrames THEN from ELSE mirrors[from]]

Next ==
    \/ \E v \in UserPages : Detach(v) \/ \E n \in Versions : Write(v, n)
    \/ \E f \in KernelFrames, n \in Versions : KernelWrite(f, n)
    \/ \E to \in UserPages, from \in UserPages \cup KernelFrames : Share(from, to)

Spec == Init /\ [][Next]_vars
=============================================================================
