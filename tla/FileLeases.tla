----------------------------- MODULE FileLeases -----------------------------
(***************************************************************************)
(* Path leases of the SD card (main/rodakos_adapters/file_service.cc and      *)
(* file_path_lease.cc) under their two long writers: a recording             *)
(* (recording_service.cc) and an upload (web_file_system_service.cc).        *)
(*                                                                         *)
(* The lease is taken under io_mutex_, and the writer then opens, writes,     *)
(* closes and after a failure removes its file by path without that mutex,   *)
(* while every other operation of the file service is one step under it.    *)
(* A path is the sequence of its segments after NormalizeStoragePath, and two *)
(* such sequences name two places of the card. The code folds ASCII case,     *)
(* separators and "." only: names the file system takes for the same file in  *)
(* another way (a trailing dot or space, an 8.3 alias) are outside the model. *)
(***************************************************************************)
EXTENDS Naturals, SequencesExt

CONSTANTS
    Recorder, Upload,   \* the two writers
    Candidates,         \* the names a recording tries, in this order
    Targets,            \* the paths an upload may name
    Roots,              \* what the other clients delete, rename and write
    MaxChanges          \* bound on the changes the other clients make

Writers == {Recorder, Upload}
Nothing == "nothing"
Dir     == "directory"
Other   == "other"          \* a file that belongs to no running writer

\* A path is a sequence of segments. A recording has a first candidate, a file of
\* /recordings (BuildRecordingPath).
ASSUME PathsAssumption ==
    /\ Candidates \in Seq(Seq(STRING)) /\ Candidates # <<>> /\ Len(Candidates[1]) = 2
    /\ Targets \cup Roots \subseteq Seq(STRING)
    /\ MaxChanges \in Nat /\ Writers \cap {Nothing, Dir, Other} = {}

VARIABLES
    fs,         \* what each existing path is: Dir, Other, or a writer's file
    leases,     \* active_paths_
    writer,     \* each writer: pc, path, and the number of its candidate
    changes     \* changes left to the other clients

fileVars == <<fs, leases, writer, changes>>

ContentAt(path) == IF path \in DOMAIN fs THEN fs[path] ELSE Nothing
Parent(path)    == Front(path)
Put(path, what) == [p \in DOMAIN fs \cup {path} |-> IF p = path THEN what ELSE fs[p]]
Without(paths)  == [p \in DOMAIN fs \ paths |-> fs[p]]
Below(path) == {p \in DOMAIN fs : IsPrefix(path, p)}

\* StoragePathsConflict
\* Bug: only the leased path itself is refused, not the directories above it.
ConflictExact(left, right) == left = right

Conflict(left, right) == IsPrefix(left, right) \/ IsPrefix(right, left)
Conflicts(path) == \E active \in leases : Conflict(active, path)

(***************************************************************************)
(* The writers: WithWriteLease around the whole life of their file.         *)
(***************************************************************************)
Move(w, pc) == writer' = [writer EXCEPT ![w].pc = pc]

\* The folder comes first, without the lease (PrepareStorage, EnsureDirectory); the
\* folders above it are created like any other (CreateDirectory).
Begin(w, path) ==
    /\ writer[w].pc = "idle" /\ changes > 0
    /\ writer' = [writer EXCEPT ![w] = [pc |-> "acquire", path |-> path, next |-> 1]]
    /\ \/ ContentAt(Parent(path)) # Nothing /\ UNCHANGED fs
       \/ /\ ContentAt(Parent(path)) = Nothing /\ ContentAt(Parent(Parent(path))) = Dir
          /\ ~Conflicts(Parent(path)) /\ fs' = Put(Parent(path), Dir)
    /\ UNCHANGED <<leases, changes>>

\* A recording that finds its name taken tries the next candidate.
TryNext(w) ==
    IF w = Recorder /\ writer[w].next < Len(Candidates)
    THEN writer' = [writer EXCEPT ![w] = [pc |-> "acquire", path |-> Candidates[@.next + 1],
                                          next |-> @.next + 1]]
    ELSE Move(w, "idle")

Acquire(w) ==
    /\ writer[w].pc = "acquire" /\ UNCHANGED <<fs, changes>>
    /\ IF Conflicts(writer[w].path)
       THEN TryNext(w) /\ UNCHANGED leases
       ELSE leases' = leases \cup {writer[w].path} /\ Move(w, "open")

\* fopen: a recording creates its file exclusively, an upload replaces one.
Open(w) ==
    /\ writer[w].pc = "open" /\ UNCHANGED <<leases, changes>>
    /\ LET path == writer[w].path
           taken == IF w = Recorder THEN {Dir, Other} ELSE {Dir}
       IN  IF ContentAt(path) \in taken \/ ContentAt(Parent(path)) # Dir
           THEN Move(w, IF ContentAt(path) # Nothing THEN "taken" ELSE "release") /\ UNCHANGED fs
           ELSE fs' = Put(path, w) /\ Move(w, "write")

\* Data, header, flush and close; the result is a file nobody owns any more.
Saved(w) ==
    /\ writer[w].pc = "write" /\ fs' = Put(writer[w].path, Other)
    /\ Move(w, "release") /\ UNCHANGED <<leases, changes>>

\* A failed or cancelled one is removed, by its path.
Failed(w) ==
    /\ writer[w].pc = "write" /\ fs' = Without({writer[w].path})
    /\ Move(w, "release") /\ UNCHANGED <<leases, changes>>

Release(w) ==
    /\ writer[w].pc \in {"release", "taken"} /\ leases' = leases \ {writer[w].path}
    /\ IF writer[w].pc = "taken" THEN TryNext(w) ELSE Move(w, "idle")
    /\ UNCHANGED <<fs, changes>>

(***************************************************************************)
(* The other clients, each operation in one step under io_mutex_.           *)
(***************************************************************************)
Change == changes > 0 /\ changes' = changes - 1 /\ UNCHANGED <<leases, writer>>

\* WriteFile, WriteNewFile
Write(path) ==
    /\ Change /\ ~Conflicts(path) /\ ContentAt(path) \in {Nothing, Other} /\ ContentAt(Parent(path)) = Dir
    /\ fs' = Put(path, Other)

CreateDirectory(path) ==
    /\ Change /\ ContentAt(path) = Nothing /\ ~Conflicts(path) /\ ContentAt(Parent(path)) = Dir
    /\ fs' = Put(path, Dir)

\* DeleteFile, and DeleteDirectory with everything below it
Delete(path) ==
    /\ Change /\ ContentAt(path) # Nothing /\ ~Conflicts(path)
    /\ fs' = Without(Below(path))

Rename(old, new) ==
    /\ Change /\ ~Conflicts(old) /\ ~Conflicts(new) /\ ~IsPrefix(old, new)
    /\ ContentAt(old) # Nothing /\ ContentAt(new) = Nothing /\ ContentAt(Parent(new)) = Dir
    /\ LET from(p) == IF IsPrefix(new, p) THEN old \o SubSeq(p, Len(new) + 1, Len(p)) ELSE p
           moved   == {new \o SubSeq(p, Len(old) + 1, Len(p)) : p \in Below(old)}
       IN  fs' = [p \in (DOMAIN fs \ Below(old)) \cup moved |-> fs[from(p)]]

FilesInit ==
    /\ fs = [p \in {<<>>, Parent(Candidates[1]), Candidates[1]} |->
                IF p = Candidates[1] THEN Other ELSE Dir]
    /\ leases = {}
    /\ writer = [w \in Writers |-> [pc |-> "idle", path |-> <<>>, next |-> 1]]
    /\ changes = MaxChanges

FilesNext ==
    \/ Begin(Recorder, Candidates[1]) \/ \E path \in Targets : Begin(Upload, path)
    \/ \E w \in Writers : Acquire(w) \/ Open(w) \/ Saved(w) \/ Failed(w) \/ Release(w)
    \/ \E path \in Roots : Write(path) \/ CreateDirectory(path) \/ Delete(path)
    \/ \E old, new \in Roots : Rename(old, new)

FilesSpec == FilesInit /\ [][FilesNext]_fileVars

FilesTypeOK ==
    /\ \A p \in DOMAIN fs : fs[p] \in {Dir, Other} \cup Writers
    /\ \A w \in Writers : writer[w].pc \in {"idle", "acquire", "open", "write", "taken", "release"}
    /\ leases \subseteq {writer[w].path : w \in Writers} /\ changes \in 0 .. MaxChanges

\* While a writer writes, the file at its path is the one it created: nobody
\* deleted, renamed or replaced it or a directory above it, so its data reach the
\* library and a cleanup after a failure removes no other file.
WriterKeepsItsFile ==
    \A w \in Writers : writer[w].pc = "write" => ContentAt(writer[w].path) = w
=============================================================================
