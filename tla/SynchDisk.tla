----------------------------- MODULE SynchDisk -----------------------------
(* The disk of the machine (machine/disk.cc) behind the synchronous        *)
(* interface of filesys/synchdisk.cc.  A request moves its sector to or    *)
(* from the UNIX file at once; the interrupt that tells the end comes at   *)
(* any later time, which stands for every latency of Disk.  A thread holds *)
(* the lock from before its request until after the interrupt, so the disk *)
(* has one request at a time.  The lock and the semaphore are taken as     *)
(* what the modules Condition and Semaphore show of them.                  *)
EXTENDS Integers, Sequences

CONSTANTS Threads, NumSectors, NoThread

ASSUME NoThreadIsNone == NoThread \notin Threads

VARIABLES disk,       \* sector -> its cells, the UNIX file DISK
          active,     \* a request is under way (Disk::active)
          lock,       \* the holder of SynchDisk's lock, or NoThread
          semaphore,  \* the value of SynchDisk's semaphore
          request,    \* thread -> the sectors it has still to transfer
          got,        \* thread -> the sectors it has read
          turn        \* thread -> where it is in ReadSector or WriteSector

diskVars == <<disk, active, lock, semaphore, request, got, turn>>

SectorNumbers == 0 .. NumSectors - 1

Reading(s) == [write |-> FALSE, sector |-> s, data |-> <<>>]
Writing(s, data) == [write |-> TRUE, sector |-> s, data |-> data]

(* A new SynchDisk with a new Disk: no request, nobody inside.             *)
NewSynchDisk ==
    /\ active' = FALSE
    /\ lock' = NoThread
    /\ semaphore' = 0
    /\ request' = [t \in Threads |-> <<>>]
    /\ got' = [t \in Threads |-> <<>>]
    /\ turn' = [t \in Threads |-> "out"]

Acquire(t) ==
    /\ turn[t] = "out"
    /\ request[t] # <<>>
    /\ lock = NoThread
    /\ lock' = t
    /\ turn' = [turn EXCEPT ![t] = "locked"]
    /\ UNCHANGED <<disk, active, semaphore, request, got>>

(* The assertions of ReadRequest and WriteRequest.                         *)
RequestAllowed(t) == ~active /\ Head(request[t]).sector \in SectorNumbers

Request(t) ==
    /\ turn[t] = "locked"
    /\ RequestAllowed(t)
    /\ active' = TRUE
    /\ turn' = [turn EXCEPT ![t] = "waiting"]
    /\ UNCHANGED <<lock, semaphore, request>>

ReadRequest(t) ==
    /\ Request(t)
    /\ ~Head(request[t]).write
    /\ got' = [got EXCEPT ![t] = Append(@, disk[Head(request[t]).sector])]
    /\ UNCHANGED disk

WriteRequest(t) ==
    /\ Request(t)
    /\ Head(request[t]).write
    /\ disk' = [disk EXCEPT ![Head(request[t]).sector] = Head(request[t]).data]
    /\ UNCHANGED got

(* The interrupt: HandleInterrupt calls RequestDone, which is V.           *)
HandleInterrupt ==
    /\ active
    /\ active' = FALSE
    /\ semaphore' = semaphore + 1
    /\ UNCHANGED <<disk, lock, request, got, turn>>

(* P, before or after the interrupt.                                       *)
WaitForInterrupt(t) ==
    /\ turn[t] = "waiting"
    /\ semaphore > 0
    /\ semaphore' = semaphore - 1
    /\ turn' = [turn EXCEPT ![t] = "woken"]
    /\ UNCHANGED <<disk, active, lock, request, got>>

(* A mutant of Release: the lock is not given back.                        *)
ReleaseNothing(t) ==
    /\ turn[t] = "woken"
    /\ turn' = [turn EXCEPT ![t] = "out"]
    /\ request' = [request EXCEPT ![t] = Tail(@)]
    /\ UNCHANGED <<disk, active, lock, semaphore, got>>

Release(t) ==
    /\ turn[t] = "woken"
    /\ lock' = NoThread
    /\ turn' = [turn EXCEPT ![t] = "out"]
    /\ request' = [request EXCEPT ![t] = Tail(@)]
    /\ UNCHANGED <<disk, active, semaphore, got>>

SynchDiskStep(t) ==
    \/ Acquire(t)
    \/ ReadRequest(t)
    \/ WriteRequest(t)
    \/ WaitForInterrupt(t)
    \/ Release(t)
=============================================================================
