----------------------------- MODULE FileSystem -----------------------------
(* The file system (filesys/filesys.cc with filehdr.cc, directory.cc,      *)
(* openfile.cc and userprog/bitmap.cc) over the disk of module SynchDisk,  *)
(* and the commands of filesys/fstest.cc that use it.                      *)
(*                                                                         *)
(* A sector is a sequence of SectorSize cells.  A cell holds what the      *)
(* properties tell apart: a number of a header, a field of a directory     *)
(* entry, a piece of text; the bit map of the free sectors is one cell, a  *)
(* set.  Sectors are addressed through headers as in the source, so a      *)
(* directory entry may lie across two sectors, and a write that does not   *)
(* fill its last sector reads that sector first.                           *)
(*                                                                         *)
(* The machine may stop at any step.  What the threads had in memory is    *)
(* lost then, the disk stays, and the next boot opens the file system or   *)
(* formats the disk.                                                       *)
EXTENDS SynchDisk, SequencesExt

CONSTANTS SectorSize,     \* cells of a sector
          NumDirEntries,  \* entries of the directory
          TransferSize,   \* cells that Copy and Print move at a time
          Names,          \* of files
          Main,           \* the thread that boots and changes files
          Programs,       \* what the threads may be told to do
          MaxCrashes,     \* bound on the stops of the machine
          Blank           \* a cell nobody set, and no text

ASSUME FileSystemAssumption ==
    /\ Main \in Threads
    /\ SectorSize > 2

VARIABLES power,      \* "off", "booting" or "on"
          opened,     \* the headers in freeMapFile and directoryFile
          todo,       \* thread -> groups of calls still to make
          at,         \* thread -> the calls of its group that are done
          stage,      \* thread -> how far its call is
          table,      \* thread -> the Directory object of its call
          header,     \* thread -> the FileHeader object of its call
          file,       \* thread -> its OpenFile
          io,         \* thread -> ReadAt and WriteAt it has still to do
          phase,      \* thread -> how far the first of them is
          result,     \* thread -> what its last ReadAt returned
          crashes,    \* stops so far
          formatted,  \* a format has been completed
          damaged,    \* a stop tore the changes of a call
          kept        \* file -> the text it has to keep, or Blank

callVars == <<todo, at, stage, table, header, file>>
ioVars == <<io, phase, result>>
historyVars == <<crashes, formatted, damaged, kept>>
vars == <<diskVars, power, opened, callVars, ioVars, historyVars>>

Blanks(n) == [i \in 1..n |-> Blank]

-----------------------------------------------------------------------------
(* The bit map of the sectors in use: a set of sectors.                    *)

Find(freeMap) ==
    IF SectorNumbers \subseteq freeMap
      THEN -1
      ELSE CHOOSE s \in SectorNumbers \ freeMap :
               \A r \in SectorNumbers \ freeMap : s <= r

NumClear(freeMap) == Cardinality(SectorNumbers \ freeMap)

-----------------------------------------------------------------------------
(* File headers: one sector, with the length, the number of sectors, and   *)
(* the sectors.                                                            *)

divRoundUp(n, s) == (n + s - 1) \div s

FileLength(hdr) == hdr[1]
ByteToSector(hdr, offset) == hdr[3 + (offset \div SectorSize)]
DataSectors(hdr) == {hdr[2 + i] : i \in 1..hdr[2]}

(* Allocate: the header and the bit map it leaves.                         *)
CanAllocate(freeMap, fileSize) ==
    NumClear(freeMap) >= divRoundUp(fileSize, SectorSize)

Allocate(freeMap, fileSize) ==
    LET numSectors == divRoundUp(fileSize, SectorSize)
        TakeOne(a, i) ==
            LET s == Find(a.freeMap)
            IN  [freeMap |-> a.freeMap \cup {s},
                 hdr     |-> [a.hdr EXCEPT ![2 + i] = s]]
    IN  FoldLeft(TakeOne,
                 [freeMap |-> freeMap,
                  hdr |-> <<fileSize, numSectors>> \o Blanks(SectorSize - 2)],
                 [i \in 1..numSectors |-> i])

CanDeallocate(freeMap, hdr) == DataSectors(hdr) \subseteq freeMap
(* A mutant of Deallocate: the loop stops one sector early.                *)
DeallocateAllButLast(freeMap, hdr) ==
    freeMap \ {hdr[2 + i] : i \in 1..(hdr[2] - 1)}
Deallocate(freeMap, hdr) == freeMap \ DataSectors(hdr)

-----------------------------------------------------------------------------
(* The directory: NumDirEntries entries of three cells, inUse, sector and  *)
(* name.                                                                   *)

FreeMapSector == 0
DirectorySector == 1
FreeMapFileSize == 1
DirectoryFileSize == 3 * NumDirEntries
Entries == 0 .. NumDirEntries - 1

InUse(dir, i) == dir[3 * i + 1]
EntrySector(dir, i) == dir[3 * i + 2]
EntryName(dir, i) == dir[3 * i + 3]

NewDirectory ==
    [c \in 1..DirectoryFileSize |-> IF c % 3 = 1 THEN FALSE ELSE Blank]

Lowest(S) == IF S = {} THEN -1 ELSE CHOOSE i \in S : \A j \in S : i <= j

FindIndex(dir, name) ==
    Lowest({i \in Entries : InUse(dir, i) /\ EntryName(dir, i) = name})

FindName(dir, name) ==
    LET i == FindIndex(dir, name)
    IN  IF i # -1 THEN EntrySector(dir, i) ELSE -1

FreeEntry(dir) == Lowest({i \in Entries : ~InUse(dir, i)})

AddEntry(dir, name, sector) ==
    LET i == FreeEntry(dir)
    IN  [dir EXCEPT ![3 * i + 1] = TRUE, ![3 * i + 2] = sector,
                    ![3 * i + 3] = name]

RemoveEntry(dir, name) == [dir EXCEPT ![3 * FindIndex(dir, name) + 1] = FALSE]

-----------------------------------------------------------------------------
(* OpenFile.  A transfer is a call of ReadAt or WriteAt.  FetchFrom and    *)
(* WriteBack of a header move one whole sector: the file of that sector.   *)

ReadAt(hdr, numBytes, position) ==
    [write |-> FALSE, hdr |-> hdr, position |-> position,
     numBytes |-> numBytes, from |-> <<>>]

WriteAt(hdr, from, position) ==
    [write |-> TRUE, hdr |-> hdr, position |-> position,
     numBytes |-> Len(from), from |-> from]

OneSector(s) == <<SectorSize, 1, s>>
FetchHeader(s) == ReadAt(OneSector(s), SectorSize, 0)
WriteHeader(hdr, s) == WriteAt(OneSector(s), hdr, 0)

(* The request checked against the length of the file.                     *)
Amount(x) ==
    LET length == FileLength(x.hdr)
    IN  IF x.numBytes <= 0 \/ x.position >= length THEN 0
        ELSE IF x.position + x.numBytes > length THEN length - x.position
        ELSE x.numBytes

FirstSector(x) == x.position \div SectorSize
LastSector(x) == (x.position + Amount(x) - 1) \div SectorSize
FirstNeverRead(x) == TRUE            \* a mutant of FirstAligned
FirstAligned(x) == x.position = FirstSector(x) * SectorSize
LastAligned(x) == x.position + Amount(x) = (LastSector(x) + 1) * SectorSize

(* The sectors of the file, counted from 0, that a transfer reads: all of  *)
(* a ReadAt's, the partly changed ones of a WriteAt.                       *)
SectorsToRead(x) ==
    CASE Amount(x) = 0 -> <<>>
      [] Amount(x) > 0 /\ ~x.write ->
             [i \in 1..(1 + LastSector(x) - FirstSector(x)) |->
                 FirstSector(x) + i - 1]
      [] OTHER ->
             (IF FirstAligned(x) THEN <<>> ELSE <<FirstSector(x)>>)
             \o (IF ~LastAligned(x)
                      /\ (FirstSector(x) # LastSector(x) \/ FirstAligned(x))
                   THEN <<LastSector(x)>> ELSE <<>>)

ReadRequests(x) ==
    [i \in 1..Len(SectorsToRead(x)) |->
        Reading(ByteToSector(x.hdr, SectorsToRead(x)[i] * SectorSize))]

ReadBytes(x, sectors) ==
    SubSeq(FoldLeft(\o, <<>>, sectors),
           x.position - FirstSector(x) * SectorSize + 1,
           x.position - FirstSector(x) * SectorSize + Amount(x))

(* The buffer of WriteAt: the new text, around it what was read of the     *)
(* partly changed sectors, and nothing set beyond the end of the file.     *)
BufferCell(x, sectors, c) ==
    LET k == c \div SectorSize
        read == {i \in 1..Len(sectors) : SectorsToRead(x)[i] = k}
    IN  IF c \in x.position .. x.position + Amount(x) - 1
          THEN x.from[c - x.position + 1]
        ELSE IF c >= FileLength(x.hdr) \/ read = {} THEN Blank
        ELSE sectors[CHOOSE i \in read : TRUE][1 + (c % SectorSize)]

WriteRequests(x, sectors) ==
    IF Amount(x) = 0 THEN <<>>
    ELSE [i \in 1..(1 + LastSector(x) - FirstSector(x)) |->
             LET k == FirstSector(x) + i - 1
             IN  Writing(ByteToSector(x.hdr, k * SectorSize),
                         [c \in 1..SectorSize |->
                             BufferCell(x, sectors, k * SectorSize + c - 1)])]

(* A thread carries out its transfers one after the other.                 *)
BeginTransfer(t) ==
    /\ io[t] # <<>>
    /\ phase[t] = "begin"
    /\ request' = [request EXCEPT ![t] = ReadRequests(Head(io[t]))]
    /\ got' = [got EXCEPT ![t] = <<>>]
    /\ phase' = [phase EXCEPT ![t] = "reading"]
    /\ UNCHANGED <<disk, active, lock, semaphore, turn, io, result>>

EndReadAt(t) ==
    /\ phase[t] = "reading"
    /\ request[t] = <<>>
    /\ ~Head(io[t]).write
    /\ result' = [result EXCEPT ![t] = ReadBytes(Head(io[t]), got[t])]
    /\ got' = [got EXCEPT ![t] = <<>>]
    /\ io' = [io EXCEPT ![t] = Tail(@)]
    /\ phase' = [phase EXCEPT ![t] = "begin"]
    /\ UNCHANGED <<disk, active, lock, semaphore, turn, request>>

WriteBuffer(t) ==
    /\ phase[t] = "reading"
    /\ request[t] = <<>>
    /\ Head(io[t]).write
    /\ request' = [request EXCEPT ![t] = WriteRequests(Head(io[t]), got[t])]
    /\ got' = [got EXCEPT ![t] = <<>>]
    /\ phase' = [phase EXCEPT ![t] = "writing"]
    /\ UNCHANGED <<disk, active, lock, semaphore, turn, io, result>>

EndWriteAt(t) ==
    /\ phase[t] = "writing"
    /\ request[t] = <<>>
    /\ io' = [io EXCEPT ![t] = Tail(@)]
    /\ phase' = [phase EXCEPT ![t] = "begin"]
    /\ UNCHANGED <<diskVars, result>>

TransferStep(t) ==
    /\ \/ SynchDiskStep(t) /\ UNCHANGED ioVars
       \/ BeginTransfer(t)
       \/ EndReadAt(t)
       \/ WriteBuffer(t)
       \/ EndWriteAt(t)
    /\ UNCHANGED <<power, opened, callVars, historyVars>>

-----------------------------------------------------------------------------
(* The calls.  A group of calls is a routine of fstest.cc: when a Create   *)
(* or an Open fails, the routine returns and its other calls are not made. *)

Group(t) == Head(todo[t])
Call(t) == Group(t)[at[t] + 1]

(* The thread can go on with its call: its transfers are done.             *)
Ready(t, s) ==
    /\ power = "on"
    /\ todo[t] # <<>>
    /\ stage[t] = s
    /\ io[t] = <<>>

GoTo(t, s) == stage' = [stage EXCEPT ![t] = s]
Transfer(t, transfers) == io' = [io EXCEPT ![t] = transfers]

Quiet == UNCHANGED <<diskVars, phase, result, power, opened, crashes,
                     formatted, damaged>>

ReadDirectory ==
    ReadAt(opened.directoryFile, DirectoryFileSize, 0)
ReadFreeMap == ReadAt(opened.freeMapFile, FreeMapFileSize, 0)
WriteDirectory(dir) == WriteAt(opened.directoryFile, dir, 0)
WriteFreeMap(freeMap) == WriteAt(opened.freeMapFile, <<freeMap>>, 0)

NoFile == [name |-> Blank, hdr |-> <<>>, seekPosition |-> 0,
           text |-> <<>>, of |-> Blank]

(* A call returns.  The last one of a group closes the file; if the group  *)
(* is a Copy, the file has to keep its text from then on.                  *)
Return(t, success, openFile) ==
    LET last == ~success \/ at[t] + 1 = Len(Group(t))
        first == Group(t)[1]
    IN  /\ GoTo(t, "start")
        /\ Transfer(t, <<>>)
        /\ at' = [at EXCEPT ![t] = IF last THEN 0 ELSE @ + 1]
        /\ todo' = [todo EXCEPT ![t] = IF last THEN Tail(@) ELSE @]
        /\ table' = [table EXCEPT ![t] = <<>>]
        /\ header' = [header EXCEPT ![t] = <<>>]
        /\ file' = [file EXCEPT ![t] = IF last THEN NoFile ELSE openFile]
        /\ kept' = IF success /\ last /\ first.op = "Create"
                     THEN [kept EXCEPT ![first.name] = first.text]
                     ELSE kept

(* Create, Open and Remove begin with the directory.                       *)
FetchDirectory(t) ==
    /\ Ready(t, "start")
    /\ Call(t).op \in {"Create", "Open", "Remove"}
    /\ Transfer(t, <<ReadDirectory>>)
    /\ GoTo(t, "directory")
    /\ Quiet
    /\ UNCHANGED <<todo, at, table, header, file, kept>>

CreateExisting(t) ==
    /\ Ready(t, "directory")
    /\ Call(t).op = "Create"
    /\ FindName(result[t], Call(t).name) # -1
    /\ Return(t, FALSE, file[t])
    /\ Quiet

CreateFetchMap(t) ==
    /\ Ready(t, "directory")
    /\ Call(t).op = "Create"
    /\ FindName(result[t], Call(t).name) = -1
    /\ table' = [table EXCEPT ![t] = result[t]]
    /\ Transfer(t, <<ReadFreeMap>>)
    /\ GoTo(t, "freeMap")
    /\ Quiet
    /\ UNCHANGED <<todo, at, header, file, kept>>

(* No sector for the header, no entry in the directory, or not enough      *)
(* sectors for the data: nothing is written.                               *)
CreateHasSpace(t, freeMap) ==
    /\ Find(freeMap) # -1
    /\ FreeEntry(table[t]) # -1
    /\ CanAllocate(freeMap \cup {Find(freeMap)}, Len(Call(t).text))

CreateNoSpace(t) ==
    /\ Ready(t, "freeMap")
    /\ Call(t).op = "Create"
    /\ ~CreateHasSpace(t, result[t][1])
    /\ Return(t, FALSE, file[t])
    /\ Quiet

(* Everything worked: the header, the directory and the free map are       *)
(* written, in this order.                                                 *)
CreateFlush(t) ==
    LET freeMap == result[t][1]
        sector == Find(freeMap)
        new == Allocate(freeMap \cup {sector}, Len(Call(t).text))
    IN  /\ Ready(t, "freeMap")
        /\ Call(t).op = "Create"
        /\ CreateHasSpace(t, freeMap)
        /\ Transfer(t, <<WriteHeader(new.hdr, sector),
                         WriteDirectory(AddEntry(table[t], Call(t).name, sector)),
                         WriteFreeMap(new.freeMap)>>)
        /\ GoTo(t, "flush")
        /\ Quiet
        /\ UNCHANGED <<todo, at, table, header, file, kept>>

(* The end of a Create or a Remove.                                        *)
EndFlush(t) ==
    /\ Ready(t, "flush")
    /\ Return(t, TRUE, file[t])
    /\ Quiet

OpenMissing(t) ==
    /\ Ready(t, "directory")
    /\ Call(t).op = "Open"
    /\ FindName(result[t], Call(t).name) = -1
    /\ Group(t)[1].op # "Create"                \* the assertion of Copy
    /\ Return(t, FALSE, file[t])
    /\ Quiet

OpenHeader(t) ==
    /\ Ready(t, "directory")
    /\ Call(t).op = "Open"
    /\ FindName(result[t], Call(t).name) # -1
    /\ Transfer(t, <<FetchHeader(FindName(result[t], Call(t).name))>>)
    /\ GoTo(t, "header")
    /\ Quiet
    /\ UNCHANGED <<todo, at, table, header, file, kept>>

OpenEnd(t) ==
    /\ Ready(t, "header")
    /\ Call(t).op = "Open"
    /\ Return(t, TRUE, [name |-> Call(t).name, hdr |-> result[t],
                        seekPosition |-> 0, text |-> <<>>,
                        of |-> kept[Call(t).name]])
    /\ Quiet

RemoveMissing(t) ==
    /\ Ready(t, "directory")
    /\ Call(t).op = "Remove"
    /\ FindName(result[t], Call(t).name) = -1
    /\ Return(t, FALSE, file[t])
    /\ Quiet

RemoveFetchHeader(t) ==
    /\ Ready(t, "directory")
    /\ Call(t).op = "Remove"
    /\ FindName(result[t], Call(t).name) # -1
    /\ table' = [table EXCEPT ![t] = result[t]]
    /\ Transfer(t, <<FetchHeader(FindName(result[t], Call(t).name))>>)
    /\ GoTo(t, "header")
    /\ Quiet
    /\ UNCHANGED <<todo, at, header, file, kept>>

RemoveFetchMap(t) ==
    /\ Ready(t, "header")
    /\ Call(t).op = "Remove"
    /\ header' = [header EXCEPT ![t] = result[t]]
    /\ Transfer(t, <<ReadFreeMap>>)
    /\ GoTo(t, "freeMap")
    /\ Quiet
    /\ UNCHANGED <<todo, at, table, file, kept>>

(* The sectors of the file ought to be marked.  The free map is written    *)
(* before the directory.                                                   *)
RemoveFlush(t) ==
    LET freeMap == result[t][1]
        name == Call(t).name
        rest == Deallocate(freeMap, header[t]) \ {FindName(table[t], name)}
    IN  /\ Ready(t, "freeMap")
        /\ Call(t).op = "Remove"
        /\ CanDeallocate(freeMap, header[t])
        /\ Transfer(t, <<WriteFreeMap(rest),
                         WriteDirectory(RemoveEntry(table[t], name))>>)
        /\ GoTo(t, "flush")
        /\ kept' = [kept EXCEPT ![name] = Blank]
        /\ file' = [u \in Threads |-> IF file[u].name = name
                                        THEN [file[u] EXCEPT !.of = Blank]
                                        ELSE file[u]]
        /\ Quiet
        /\ UNCHANGED <<todo, at, table, header>>

(* Read of the loop of Print and Write of Copy, at the seek position.      *)
StartReadOrWrite(t) ==
    /\ Ready(t, "start")
    /\ Call(t).op \in {"Read", "Write"}
    /\ Transfer(t, <<IF Call(t).op = "Read"
                       THEN ReadAt(file[t].hdr, TransferSize,
                                   file[t].seekPosition)
                       ELSE WriteAt(file[t].hdr, Call(t).text,
                                    file[t].seekPosition)>>)
    /\ GoTo(t, "transfer")
    /\ Quiet
    /\ UNCHANGED <<todo, at, table, header, file, kept>>

ReadSome(t) ==
    /\ Ready(t, "transfer")
    /\ Call(t).op = "Read"
    /\ result[t] # <<>>
    /\ file' = [file EXCEPT ![t].seekPosition = @ + Len(result[t]),
                            ![t].text = @ \o result[t]]
    /\ GoTo(t, "start")
    /\ Quiet
    /\ UNCHANGED <<todo, at, table, header, io, kept>>

ReadNoMore(t) ==
    /\ Ready(t, "transfer")
    /\ Call(t).op = "Read"
    /\ result[t] = <<>>
    /\ Return(t, TRUE, file[t])
    /\ Quiet

EndWrite(t) ==
    LET amount == Amount(WriteAt(file[t].hdr, Call(t).text,
                                 file[t].seekPosition))
    IN  /\ Ready(t, "transfer")
        /\ Call(t).op = "Write"
        /\ Return(t, TRUE, [file[t] EXCEPT !.seekPosition = @ + amount])
        /\ Quiet

CallStep(t) ==
    \/ FetchDirectory(t)
    \/ CreateExisting(t) \/ CreateFetchMap(t)
    \/ CreateNoSpace(t) \/ CreateFlush(t)
    \/ EndFlush(t)
    \/ OpenMissing(t) \/ OpenHeader(t) \/ OpenEnd(t)
    \/ RemoveMissing(t) \/ RemoveFetchHeader(t)
    \/ RemoveFetchMap(t) \/ RemoveFlush(t)
    \/ StartReadOrWrite(t) \/ ReadSome(t) \/ ReadNoMore(t) \/ EndWrite(t)

-----------------------------------------------------------------------------
(* The routines of fstest.cc, and the option -r, as groups of calls.       *)

CallOf(op, name, text) == [op |-> op, name |-> name, text |-> text]

Copy(name, text) ==
    <<CallOf("Create", name, text), CallOf("Open", name, <<>>)>>
    \o [i \in 1..divRoundUp(Len(text), TransferSize) |->
           CallOf("Write", name,
                  SubSeq(text, (i - 1) * TransferSize + 1,
                         IF i * TransferSize < Len(text)
                           THEN i * TransferSize ELSE Len(text)))]

PrintFile(name) == <<CallOf("Open", name, <<>>), CallOf("Read", name, <<>>)>>

RemoveFile(name) == <<CallOf("Remove", name, <<>>)>>

(* The file is created with no length, so its first Write writes nothing   *)
(* and FileWrite gives up, as FileRead does at its first Read.             *)
FileWrite(name, contents) ==
    <<CallOf("Create", name, <<>>), CallOf("Open", name, <<>>),
      CallOf("Write", name, contents)>>

PerformanceTest(name, contents) ==
    <<FileWrite(name, contents), PrintFile(name), RemoveFile(name)>>

OnlyReads(group) == group[1].op = "Open"

-----------------------------------------------------------------------------
(* The constructor of FileSystem, run by the main thread at boot.          *)

MapAllocation == Allocate({FreeMapSector, DirectorySector}, FreeMapFileSize)
DirectoryAllocation == Allocate(MapAllocation.freeMap, DirectoryFileSize)

(* The first boot formats the disk, and so does the boot after a stop that *)
(* came in the middle of a format.  After a stop that tore the changes of  *)
(* a call the disk is formatted, or files are only read.                   *)
Boot(format) ==
    /\ power = "off"
    /\ format \/ formatted
    /\ format => ~formatted \/ damaged
    /\ power' = "booting"
    /\ NewSynchDisk
    /\ todo' = IF damaged /\ ~format
                 THEN [t \in Threads |-> SelectSeq(todo[t], OnlyReads)]
                 ELSE todo
    /\ GoTo(Main, IF format THEN "format" ELSE "open")
    /\ Transfer(Main, IF format
                        THEN <<WriteHeader(MapAllocation.hdr, FreeMapSector),
                               WriteHeader(DirectoryAllocation.hdr,
                                           DirectorySector),
                               FetchHeader(FreeMapSector)>>
                        ELSE <<FetchHeader(FreeMapSector)>>)
    /\ formatted' = (formatted /\ ~format)
    /\ damaged' = (damaged /\ ~format)
    /\ kept' = IF format THEN [n \in Names |-> Blank] ELSE kept
    /\ UNCHANGED <<disk, opened, at, table, header, file, phase, result,
                   crashes>>

BootReady(s) ==
    /\ power = "booting"
    /\ stage[Main] \in s
    /\ io[Main] = <<>>
    /\ UNCHANGED <<diskVars, phase, result, todo, at, table, header, file,
                   crashes, damaged, kept>>

(* Both OpenFiles are read from the disk, also after a format.             *)
OpenFreeMap ==
    /\ BootReady({"format", "open"})
    /\ opened' = [opened EXCEPT !.freeMapFile = result[Main]]
    /\ Transfer(Main, <<FetchHeader(DirectorySector)>>)
    /\ GoTo(Main, IF stage[Main] = "format" THEN "formatFiles" ELSE "openFiles")
    /\ UNCHANGED <<power, formatted>>

OpenDirectory ==
    /\ BootReady({"openFiles", "formatFiles"})
    /\ opened' = [opened EXCEPT !.directoryFile = result[Main]]
    /\ Transfer(Main, IF stage[Main] = "openFiles" THEN <<>>
                      ELSE <<WriteAt(opened.freeMapFile,
                                     <<DirectoryAllocation.freeMap>>, 0),
                             WriteAt(result[Main], NewDirectory, 0)>>)
    /\ GoTo(Main, "booted")
    /\ UNCHANGED <<power, formatted>>

Booted ==
    /\ BootReady({"booted"})
    /\ power' = "on"
    /\ formatted' = TRUE
    /\ GoTo(Main, "start")
    /\ UNCHANGED <<opened, io>>

-----------------------------------------------------------------------------
(* What the disk says.                                                     *)

Cells(hdr) ==
    [c \in 1..FileLength(hdr) |->
        disk[ByteToSector(hdr, c - 1)][1 + ((c - 1) % SectorSize)]]

FreeMapOnDisk == Cells(disk[FreeMapSector])[1]
DirectoryOnDisk == Cells(disk[DirectorySector])

UsedEntries == {i \in Entries : InUse(DirectoryOnDisk, i)}

SectorsOfFile(s) == {s} \cup DataSectors(disk[s])
SectorsOfEntry(i) == SectorsOfFile(EntrySector(DirectoryOnDisk, i))
SystemSectors == SectorsOfFile(FreeMapSector) \cup SectorsOfFile(DirectorySector)

(* Exactly the sectors of the files are marked, none belongs to two files, *)
(* and no name is used twice.                                              *)
Consistent ==
    /\ FreeMapOnDisk =
           SystemSectors \cup UNION {SectorsOfEntry(i) : i \in UsedEntries}
    /\ \A i \in UsedEntries :
           /\ SectorsOfEntry(i) \cap SystemSectors = {}
           /\ \A j \in UsedEntries \ {i} :
                  /\ SectorsOfEntry(i) \cap SectorsOfEntry(j) = {}
                  /\ EntryName(DirectoryOnDisk, i)
                        # EntryName(DirectoryOnDisk, j)

Flushing == \E t \in Threads : todo[t] # <<>> /\ stage[t] = "flush"

-----------------------------------------------------------------------------
(* The machine stops.  The user gives the routines that were not finished  *)
(* again or leaves them out.                                               *)

Unfinished(t) ==
    todo[t] # <<>> /\ (at[t] > 0 \/ stage[t] \in {"directory", "header",
                                  "freeMap", "flush", "transfer"})

Crash ==
    /\ power # "off"
    /\ crashes < MaxCrashes
    /\ crashes' = crashes + 1
    /\ power' = "off"
    /\ damaged' = (damaged \/ (Flushing /\ ~Consistent))
    /\ \E again \in BOOLEAN :
           todo' = [t \in Threads |->
                       IF Unfinished(t) /\ ~again THEN Tail(todo[t])
                                                  ELSE todo[t]]
    /\ at' = [t \in Threads |-> 0]
    /\ stage' = [t \in Threads |-> "start"]
    /\ table' = [t \in Threads |-> <<>>]
    /\ header' = [t \in Threads |-> <<>>]
    /\ file' = [t \in Threads |-> NoFile]
    /\ io' = [t \in Threads |-> <<>>]
    /\ phase' = [t \in Threads |-> "begin"]
    /\ result' = [t \in Threads |-> <<>>]
    /\ opened' = [freeMapFile |-> <<>>, directoryFile |-> <<>>]
    /\ NewSynchDisk
    /\ UNCHANGED <<disk, formatted, kept>>

(* Nothing is left to do: the machine halts.                               *)
Finished == power = "on" /\ \A t \in Threads : todo[t] = <<>>

Init ==
    /\ todo \in Programs
    /\ disk = [s \in SectorNumbers |-> Blanks(SectorSize)]
    /\ active = FALSE
    /\ lock = NoThread
    /\ semaphore = 0
    /\ request = [t \in Threads |-> <<>>]
    /\ got = [t \in Threads |-> <<>>]
    /\ turn = [t \in Threads |-> "out"]
    /\ power = "off"
    /\ opened = [freeMapFile |-> <<>>, directoryFile |-> <<>>]
    /\ at = [t \in Threads |-> 0]
    /\ stage = [t \in Threads |-> "start"]
    /\ table = [t \in Threads |-> <<>>]
    /\ header = [t \in Threads |-> <<>>]
    /\ file = [t \in Threads |-> NoFile]
    /\ io = [t \in Threads |-> <<>>]
    /\ phase = [t \in Threads |-> "begin"]
    /\ result = [t \in Threads |-> <<>>]
    /\ crashes = 0
    /\ formatted = FALSE
    /\ damaged = FALSE
    /\ kept = [n \in Names |-> Blank]

Interrupted ==
    /\ HandleInterrupt
    /\ UNCHANGED <<power, opened, callVars, ioVars, historyVars>>

Running ==
    \/ \E t \in Threads : TransferStep(t) \/ CallStep(t)
    \/ Interrupted
    \/ OpenFreeMap
    \/ OpenDirectory
    \/ Booted

Next ==
    \/ Running
    \/ \E format \in BOOLEAN : Boot(format)
    \/ Crash

Spec ==
    /\ Init
    /\ [][Next]_vars
    /\ WF_vars(Interrupted)
    /\ WF_vars(OpenFreeMap \/ OpenDirectory \/ Booted)
    /\ \A t \in Threads : WF_vars(TransferStep(t) \/ CallStep(t))

-----------------------------------------------------------------------------
(* A file that Copy has filled keeps its text, in its own sectors and      *)
(* under its name, until a Remove of it starts to write: whatever other    *)
(* files are created and removed, however transfers of other threads come  *)
(* in between, and wherever the machine stops and boots again.  And Print  *)
(* reads that text.                                                        *)
FilesKept ==
    /\ \A n \in Names : kept[n] # Blank =>
           LET s == FindName(DirectoryOnDisk, n)
           IN  s # -1 /\ Cells(disk[s]) = kept[n]
    /\ \A t \in Threads : file[t].of # Blank => IsPrefix(file[t].text, file[t].of)

(* Unless a stop tore the changes of a call, exactly the sectors of the    *)
(* files are marked whenever no Create or Remove is writing its changes:   *)
(* a failed Create leaves nothing behind, and nothing is lost or shared.   *)
FreeMapExact ==
    power = "on" /\ ~Flushing /\ ~damaged => Consistent

(* Once the machine runs, every command comes to its end unless the        *)
(* machine is stopped: no interrupt of the disk is lost, no thread waits   *)
(* for another, and no assertion of these files stops the machine.         *)
CommandsEnd == power # "off" ~> (Finished \/ power = "off")
=============================================================================
