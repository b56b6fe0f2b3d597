----------------------------- MODULE DurableFile -----------------------------
(***************************************************************************)
(* Writing a file: `write_private` of platform.rs, which replaces a file   *)
(* through a temporary one beside it, and `fs::write`, which truncates it  *)
(* in place.                                                               *)
(*                                                                         *)
(* disk[f] is what a process reads at f.  stable[f] is the set of contents *)
(* f may have when the power comes back: until a sync, the old and the new *)
(* are both possible, and so is a part of the new.  What the kernel writes *)
(* back by itself only makes that set smaller, and is left out.  Names are *)
(* lost or kept one by one, which allows more than a journal would.        *)
(*                                                                         *)
(* The temporary file of process p (its name carries the pid) is at p.     *)
(* Nobody looks for one after a power failure: they are taken as lost.     *)
(* With a directory that may be lost all its files may be.                 *)
(***************************************************************************)
EXTENDS Naturals, Sequences

CONSTANTS
    Process,
    Path,           \* the other files
    Whole,          \* contents a file can be given
    NoFile,
    Torn,           \* a part of a content, perhaps nothing of it
    NoWrite,        \* a process that writes no file
    System,         \* the systems this may run on: "unix", "windows"
    DiskFails       \* whether a step of a write may fail

VARIABLES
    os,
    disk,
    stable,
    writing         \* writing[p]: [how, path, bytes, at, data]

fileVars == <<os, disk, stable, writing>>

Place    == Path \cup Process
Contents == Whole \cup {NoFile, Torn}

\* Faulty variants: the directory is not synced; the destination is removed first on
\* every system.
ProgramNoDirSync(how) ==
    IF how = "plain" THEN <<"truncate", "fill">>
    ELSE IF os = "unix" THEN <<"create", "write", "sync", "rename">>
    ELSE <<"create", "write", "sync", "remove", "rename">>

ProgramRemoveFirst(how) ==
    IF how = "plain" THEN <<"truncate", "fill">>
    ELSE <<"create", "write", "sync", "remove", "rename", "sync_dir">>

\* The order of the calls.  On Windows the destination is removed first.
WriteProgram(how) ==
    IF how = "plain" THEN <<"truncate", "fill">>
    ELSE IF os = "unix" THEN <<"create", "write", "sync", "rename", "sync_dir">>
    ELSE <<"create", "write", "sync", "remove", "rename">>

Write == [how : {"plain", "private"}, path : Path, bytes : Whole,
          at : 1 .. 5, data : SUBSET Contents]

ASSUME FileAssumption ==
    /\ Process \cap Path = {}
    /\ NoFile # Torn /\ {NoFile, Torn} \cap Whole = {} /\ NoWrite \notin Write
    /\ System \subseteq {"unix", "windows"}
    /\ DiskFails \in BOOLEAN

FilesTypeOK ==
    /\ os \in System
    /\ disk \in [Place -> Contents]
    /\ stable \in [Place -> SUBSET Contents]
    /\ \A f \in Place : disk[f] \in stable[f]
    /\ writing \in [Process -> Write \cup {NoWrite}]

\* The files there are at first.
FilesInit(there) ==
    /\ os \in System
    /\ disk = [f \in Place |-> IF f \in Path THEN there[f] ELSE NoFile]
    /\ stable = [f \in Place |-> {disk[f]}]
    /\ writing = [p \in Process |-> NoWrite]

-----------------------------------------------------------------------------

StartWrite(p, how, path, bytes) ==
    /\ writing[p] = NoWrite
    /\ writing' = [writing EXCEPT ![p] =
           [how |-> how, path |-> path, bytes |-> bytes, at |-> 1, data |-> {}]]
    /\ UNCHANGED <<os, disk, stable>>

Doing(p, label) ==
    /\ writing[p] # NoWrite
    /\ WriteProgram(writing[p].how)[writing[p].at] = label

\* The last call returned: the writer is done.
Advance(p, data) ==
    LET w == writing[p] IN
    writing' = [writing EXCEPT ![p] =
        IF w.at = Len(WriteProgram(w.how)) THEN NoWrite
        ELSE [w EXCEPT !.at = @ + 1, !.data = data]]

\* f gets the content c, and nothing says when that will be durable.
Put(f, c) ==
    /\ disk' = [disk EXCEPT ![f] = c]
    /\ stable' = [stable EXCEPT ![f] = @ \cup {c}]

\* The steps that change the temporary file only, or one name.
Create(p) ==
    /\ Doing(p, "create") /\ Put(p, Torn) /\ Advance(p, {}) /\ UNCHANGED os

WriteAll(p) ==
    /\ Doing(p, "write") /\ Put(p, writing[p].bytes) /\ Advance(p, {}) /\ UNCHANGED os

\* fsync makes the bytes durable, not the name.
SyncAll(p) ==
    /\ Doing(p, "sync")
    /\ stable' = [stable EXCEPT ![p] = {NoFile, disk[p]}]
    /\ Advance(p, {})
    /\ UNCHANGED <<os, disk>>

RemoveDestination(p) ==
    /\ Doing(p, "remove") /\ Put(writing[p].path, NoFile) /\ Advance(p, {}) /\ UNCHANGED os

\* The new name has what the temporary file may have.
RenameOver(p) ==
    /\ Doing(p, "rename")
    /\ LET path == writing[p].path
           data == stable[p] \ {NoFile}
       IN  /\ disk' = [disk EXCEPT ![path] = disk[p], ![p] = NoFile]
           /\ stable' = [stable EXCEPT ![path] = @ \cup data, ![p] = {NoFile}]
           /\ Advance(p, data)
    /\ UNCHANGED os

\* The names are durable: the old content is gone for good.
SyncDir(p) ==
    /\ Doing(p, "sync_dir")
    /\ LET path == writing[p].path IN
       stable' = [stable EXCEPT ![path] = writing[p].data \cup {disk[path]}]
    /\ Advance(p, {})
    /\ UNCHANGED <<os, disk>>

\* The directory cannot be opened (the path has no directory part, there are no more
\* descriptors, it may not be read): nothing is synced, and that is no error.
SkipDirSync(p) ==
    /\ Doing(p, "sync_dir") /\ Advance(p, {}) /\ UNCHANGED <<os, disk, stable>>

Truncate(p) ==
    /\ Doing(p, "truncate") /\ Put(writing[p].path, Torn) /\ Advance(p, {}) /\ UNCHANGED os

Fill(p) ==
    /\ Doing(p, "fill") /\ Put(writing[p].path, writing[p].bytes) /\ Advance(p, {})
    /\ UNCHANGED os

WriteStep(p) ==
    \/ Create(p) \/ WriteAll(p) \/ SyncAll(p) \/ RemoveDestination(p)
    \/ RenameOver(p) \/ SyncDir(p) \/ Truncate(p) \/ Fill(p)

\* A step fails: the temporary file is removed, if it is still one; what was
\* truncated stays so.  The rename of Unix fails with the destination in place;
\* that of Windows has removed it before, so that both files are gone.
WriteFails(p) ==
    /\ DiskFails /\ writing[p] # NoWrite
    /\ LET there == writing[p].how = "private" /\ ~Doing(p, "sync_dir") IN
       /\ disk' = IF there THEN [disk EXCEPT ![p] = NoFile] ELSE disk
       /\ stable' = IF there THEN [stable EXCEPT ![p] = {NoFile}] ELSE stable
    /\ writing' = [writing EXCEPT ![p] = NoWrite]
    /\ UNCHANGED os

\* The process is killed: the files stay as they are.
WriterDies(p) ==
    /\ writing' = [writing EXCEPT ![p] = NoWrite]
    /\ UNCHANGED <<os, disk, stable>>

\* Every file comes back as one of the contents it may have, but those whose
\* directory is gone.
LosePower(gone) ==
    /\ LET open == {f \in Path \ gone : stable[f] # {disk[f]}} IN
       \E after \in [open -> UNION {stable[f] : f \in open}] :
          /\ \A f \in open : after[f] \in stable[f]
          /\ disk' = [f \in Place |-> IF f \in gone \cup Process THEN NoFile
                                      ELSE IF f \in open THEN after[f] ELSE disk[f]]
    /\ stable' = [f \in Place |-> {disk'[f]}]
    /\ writing' = [p \in Process |-> NoWrite]
    /\ UNCHANGED os
=============================================================================
