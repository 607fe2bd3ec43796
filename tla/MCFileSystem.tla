---------------------------- MODULE MCFileSystem ----------------------------
(* Small disks: five sectors are left for files, and the second of three   *)
(* directory entries lies across the two sectors of the directory.         *)
EXTENDS FileSystem

A == <<101, 102, 103>>
B == <<201, 202, 203, 204, 205, 206>>
Big == B \o B

(* What the main thread and the other thread are told to do.               *)
Fill == <<Copy("a", A), Copy("b", B), RemoveFile("a"), Copy("c", B),
          PrintFile("b")>>
Replace == <<Copy("a", B), Copy("b", A), RemoveFile("a"), Copy("a", A),
             RemoveFile("b"), Copy("c", Big)>>
Measure == <<Copy("b", A)>> \o PerformanceTest("a", A)
           \o <<Copy("b", B), RemoveFile("c")>>

(* The reader prints a file that the main thread does not remove: files    *)
(* are not to be removed while another thread uses them.                   *)
Told(p, q) == [t \in Threads |-> IF t = Main THEN p ELSE q]

MCPrograms ==
    {Told(p, <<>>) : p \in {Fill, Replace, Measure}}
    \cup {Told(Fill, <<PrintFile("b")>>), Told(Measure, <<PrintFile("b")>>),
          Told(Replace, <<PrintFile("c")>>)}
=============================================================================
