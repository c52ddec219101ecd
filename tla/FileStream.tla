----------------------------- MODULE FileStream ------------------------------
(***************************************************************************)
(* Files and directories (ref_stream_file.hpp): opening files in every     *)
(* mode, files that are removed with their stream, and the operations on   *)
(* names, from several executors, in one directory.                        *)
(*                                                                         *)
(* A listing reads the directory entry by entry while other executors      *)
(* change it, into a buffer that grows.                                    *)
(***************************************************************************)
EXTENDS Integers, Sequences, FiniteSets

CONSTANTS FileExecutors,   \* the executors that call
          Names,           \* names in the directory
          NameLength,      \* the length of every name
          NameMax,         \* NAME_MAX
          Slots,           \* stream references (numbers)
          FileScenarios    \* [entries, program]: the directory at the start
                           \* and the calls every executor makes

Dots == {".", ".."}
FileTypes == {"Regular", "Directory", "Symlink"}

ASSUME FileAssumption ==
  /\ IsFiniteSet(FileExecutors) /\ IsFiniteSet(Names) /\ IsFiniteSet(Slots)
  /\ Slots \subseteq Nat /\ NameMax \in Nat /\ NameMax > 2
  /\ NameLength \in [Names -> 1..NameMax] /\ Names \cap Dots = {}
  /\ \A c \in FileScenarios :
       c.files \in Seq(FileTypes) /\ c.entries \in [Names -> 0..Len(c.files)]

VARIABLES
  entries,    \* the directory: 0, or the file behind a name
  files,      \* what has been created: Regular, Directory or Symlink
  fstreams,   \* file streams: [path, mode, auto, file], file = 0: not open
  fprogram,   \* the calls every executor has yet to make
  listing,    \* the listing or count every executor is in
  fresult,    \* what every executor's last call gave
  excused     \* names whose file was taken away from its creator (history)

fileVars == <<entries, files, fstreams, fprogram, listing, fresult, excused>>

Modes == {"Create", "CreateNew", "Open", "OpenReadOnly", "OpenOrCreate", "Append"}
NoFile == [path |-> "none", mode |-> "none", auto |-> FALSE, file |-> 0]
NoListing == [stage |-> "done", op |-> "none", left |-> {}, head |-> 0, size |-> 0,
              got |-> {}, count |-> 0, links |-> FALSE, always |-> {}, ever |-> {}]
Type(n) == IF entries[n] = 0 THEN "None" ELSE files[entries[n]]

FilesInit ==
  /\ \E c \in FileScenarios :
       /\ entries = c.entries /\ files = c.files /\ fprogram = c.program
  /\ fstreams = [s \in Slots |-> NoFile]
  /\ listing = [e \in FileExecutors |-> NoListing]
  /\ fresult = [e \in FileExecutors |-> "None"]
  /\ excused = {}

CanFileCall(e, op) ==
  /\ listing[e].stage = "done"
  /\ fprogram[e] # <<>> /\ Head(fprogram[e]) = op
  /\ fprogram' = [fprogram EXCEPT ![e] = Tail(@)]

Report(e, r) == fresult' = [fresult EXCEPT ![e] = r]

\* Entries that go, and one that comes, while listings are under way: one
\* that comes may be read by them or not.
Gone(N) ==
  listing' = [e \in FileExecutors |->
    IF listing[e].stage = "done" THEN listing[e] ELSE [listing[e] EXCEPT !.always = @ \ N]]

Appears(n, N) ==
  \E E \in SUBSET {e \in FileExecutors : listing[e].stage = "read"} :
    listing' = [e \in FileExecutors |->
      IF listing[e].stage = "done" THEN listing[e]
      ELSE [listing[e] EXCEPT !.always = @ \ N, !.ever = @ \cup {n},
                              !.left = IF e \in E /\ n \notin listing[e].ever THEN @ \cup {n} ELSE @]]
-----------------------------------------------------------------------------
(***************************************************************************)
(* Streams.                                                                *)
(***************************************************************************)
\* The flags of open() for every mode.
Creates(m) == m \in {"Create", "CreateNew", "OpenOrCreate", "Append"}
Writes(m)  == m # "OpenReadOnly"

\* O_EXCL forgotten.
ExclusiveNever(m) == FALSE

Exclusive(m) == m = "CreateNew"

FreeSlot == CHOOSE s \in Slots : fstreams[s] = NoFile /\ \A x \in Slots : fstreams[x] = NoFile => s <= x

\* openFileStream: an error of open() is reported, the stream exists anyway
\* and keeps the path.
OpenFileStream(e, n, m, auto) ==
  LET new == Len(files) + 1
      Keep(f) == fstreams' = [fstreams EXCEPT ![FreeSlot] =
                    [path |-> n, mode |-> m, auto |-> auto, file |-> f]]
      Error(err) == Keep(0) /\ Report(e, err) /\ UNCHANGED <<entries, files, listing>>
  IN /\ CanFileCall(e, <<"open", m>>) /\ \E s \in Slots : fstreams[s] = NoFile
     /\ \/ /\ entries[n] = 0 /\ Creates(m)
           /\ entries' = [entries EXCEPT ![n] = new]
           /\ files' = Append(files, "Regular") /\ Appears(n, {})
           /\ Keep(new) /\ Report(e, "None")
        \/ /\ entries[n] = 0 /\ ~Creates(m) /\ Error("FileNotFound")
        \/ /\ entries[n] # 0 /\ Exclusive(m) /\ Error("FileAlreadyExists")
        \/ /\ Type(n) = "Directory" /\ ~Exclusive(m) /\ Writes(m) /\ Error("FileIsDirectory")
        \/ /\ entries[n] # 0 /\ ~Exclusive(m) /\ (Type(n) = "Directory" => ~Writes(m))
           /\ Keep(entries[n]) /\ Report(e, "None") /\ UNCHANGED <<entries, files, listing>>
     /\ UNCHANGED excused

\* ~FileStreamRef: close, then unlink() the path, whatever is there now.
FreeFileStream(s) ==
  LET f == fstreams[s]
      unlinks == f.auto /\ Type(f.path) \in {"Regular", "Symlink"}
  IN /\ f # NoFile
     /\ fstreams' = [fstreams EXCEPT ![s] = NoFile]
     /\ IF unlinks
        THEN /\ entries' = [entries EXCEPT ![f.path] = 0]
             /\ excused' = IF f.mode = "CreateNew" /\ entries[f.path] = f.file
                           THEN excused ELSE excused \cup {f.path}
             /\ Gone({f.path})
        ELSE UNCHANGED <<entries, excused, listing>>
     /\ UNCHANGED <<files, fprogram, fresult>>
-----------------------------------------------------------------------------
(***************************************************************************)
(* Operations on names.                                                    *)
(***************************************************************************)
\* getFileType (a link is not followed), getFileSize and
\* getFileModTimeSinceMicro (a link is followed and may lead nowhere).
GetFileType(e, n) ==
  /\ CanFileCall(e, <<"type">>) /\ Report(e, Type(n))
  /\ UNCHANGED <<entries, files, fstreams, listing, excused>>

StatFile(e, n) ==
  /\ CanFileCall(e, <<"stat">>)
  /\ \/ Type(n) \in {"Regular", "Directory", "Symlink"} /\ Report(e, "None")
     \/ Type(n) \in {"None", "Symlink"} /\ Report(e, "FileNotFound")
  /\ UNCHANGED <<entries, files, fstreams, listing, excused>>

CreateFileDir(e, n) ==
  /\ CanFileCall(e, <<"mkdir">>)
  /\ \/ /\ entries[n] = 0 /\ Report(e, "None")
        /\ entries' = [entries EXCEPT ![n] = Len(files) + 1]
        /\ files' = Append(files, "Directory") /\ Appears(n, {})
     \/ /\ entries[n] # 0 /\ Report(e, "FileAlreadyExists")
        /\ UNCHANGED <<entries, files, listing>>
  /\ UNCHANGED <<fstreams, excused>>

\* removeFile and removeFileDir.
Remove(e, n, op) ==
  LET fits == IF op = "rmdir" THEN Type(n) = "Directory" ELSE Type(n) \in {"Regular", "Symlink"}
  IN /\ CanFileCall(e, <<op>>)
     /\ \/ /\ fits /\ Report(e, "None")
           /\ entries' = [entries EXCEPT ![n] = 0] /\ excused' = excused \cup {n}
           /\ Gone({n})
        \/ /\ ~fits
           /\ Report(e, IF Type(n) = "None" THEN "FileNotFound"
                        ELSE IF op = "rmdir" THEN "FileIsNotDirectory" ELSE "FileIsDirectory")
           /\ UNCHANGED <<entries, excused, listing>>
     /\ UNCHANGED <<files, fstreams>>

\* renameFile replaces what the new name stood for.
RenameFile(e, old, new) ==
  LET clash == Type(new) # "None" /\ (Type(old) = "Directory") # (Type(new) = "Directory")
  IN /\ CanFileCall(e, <<"rename">>) /\ old # new
     /\ \/ /\ Type(old) # "None" /\ ~clash /\ Report(e, "None")
           /\ entries' = [entries EXCEPT ![old] = 0, ![new] = entries[old]]
           /\ excused' = excused \cup {old, new}
           /\ Appears(new, {old, new})
        \/ /\ Type(old) = "None" \/ clash
           /\ Report(e, IF Type(old) = "None" THEN "FileNotFound"
                        ELSE IF Type(new) = "Directory" THEN "FileIsDirectory"
                        ELSE "FileIsNotDirectory")
           /\ UNCHANGED <<entries, excused, listing>>
     /\ UNCHANGED <<files, fstreams>>
-----------------------------------------------------------------------------
(***************************************************************************)
(* fileDirList and fileDirCount.                                           *)
(***************************************************************************)
Present == {n \in Names : entries[n] # 0}

\* opendir(), or the reason why not.
OpenDir(e, op, links) ==
  /\ CanFileCall(e, <<op>>)
  /\ \/ /\ listing' = [listing EXCEPT ![e] =
             [NoListing EXCEPT !.stage = "read", !.op = op, !.links = links,
                               !.left = Present \cup Dots, !.always = Present, !.ever = Present,
                               !.count = -2]]
        /\ UNCHANGED fresult
     \/ Report(e, "FileNotFound") /\ UNCHANGED listing
  /\ UNCHANGED <<entries, files, fstreams, excused>>

Grows(l, len) == l.head + 1 + len + 1 >= l.size

\* Twice the buffer, the first one for two names of any length.
NewSize(l) == IF l.size = 0 THEN NameMax * 2 ELSE l.size * 2

Listed(l, n) ==
  LET grown == IF Grows(l, NameLength[n]) THEN NewSize(l) ELSE l.size
  IN [l EXCEPT !.left = @ \ {n}, !.got = @ \cup {n}, !.size = grown,
               !.head = @ + NameLength[n] + 2]

\* readdir() yields some entry: links are skipped unless asked for; a
\* listing skips the two dots, a count has subtracted them beforehand.
ReadDir(e, n) ==
  LET l == listing[e]
      skip == ~l.links /\ n \in Names /\ Type(n) = "Symlink"
  IN /\ l.stage = "read" /\ n \in l.left
     /\ listing' = [listing EXCEPT ![e] =
          IF skip \/ (l.op = "list" /\ n \in Dots) \/ (n \in Names /\ entries[n] = 0)
          THEN [l EXCEPT !.left = @ \ {n}]
          ELSE IF l.op = "list" THEN Listed(l, n)
          ELSE [l EXCEPT !.left = @ \ {n}, !.count = @ + 1]]
     /\ UNCHANGED <<entries, files, fstreams, fprogram, fresult, excused>>

\* closedir(); memory may have run out before.
CloseDir(e) ==
  LET l == listing[e]
  IN /\ l.stage = "read" /\ l.left = {}
     /\ listing' = [listing EXCEPT ![e].stage = "done"]
     /\ Report(e, "None")
     /\ UNCHANGED <<entries, files, fstreams, fprogram, excused>>

ListAllocFails(e) ==
  /\ listing[e].stage = "read" /\ listing[e].op = "list"
  /\ \E n \in listing[e].left \ Dots : Grows(listing[e], NameLength[n])
  /\ listing' = [listing EXCEPT ![e] = NoListing] /\ Report(e, "AllocFailed")
  /\ fprogram' = [fprogram EXCEPT ![e] = <<>>]
  /\ UNCHANGED <<entries, files, fstreams, excused>>

FileStep(e) ==
  \/ \E n \in Names, m \in Modes, auto \in BOOLEAN : OpenFileStream(e, n, m, auto)
  \/ \E n \in Names : GetFileType(e, n) \/ StatFile(e, n) \/ CreateFileDir(e, n)
  \/ \E n \in Names, op \in {"remove", "rmdir"} : Remove(e, n, op)
  \/ \E old, new \in Names : RenameFile(e, old, new)
  \/ \E op \in {"list", "count"}, links \in BOOLEAN : OpenDir(e, op, links)
  \/ \E n \in Names \cup Dots : ReadDir(e, n)
  \/ CloseDir(e) \/ ListAllocFails(e)

FilesNext ==
  \/ \E e \in FileExecutors : FileStep(e)
  \/ \E s \in Slots : FreeFileStream(s)

FilesSpec == FilesInit /\ [][FilesNext]_fileVars
-----------------------------------------------------------------------------
(***************************************************************************)
(* Properties.                                                             *)
(***************************************************************************)
\* A listing never writes past its buffer, whatever the lengths of the
\* names, and when it ends it has every entry that was there all the time
\* and none that never was; a count agrees with it, although one skips the
\* two dots and the other subtracts them (ref_stream_file.hpp:528, 576).
Shown(l, S) == IF l.links THEN S ELSE {n \in S : Type(n) # "Symlink"}

ListingsSound ==
  \A e \in FileExecutors :
    LET l == listing[e]
    IN /\ l.head <= l.size
       /\ l.stage = "read" /\ l.left = {} /\ l.op = "list" =>
            Shown(l, l.always) \subseteq l.got /\ l.got \subseteq l.ever
       /\ l.stage = "read" /\ l.left = {} /\ l.op = "count" =>
            Cardinality(Shown(l, l.always)) <= l.count /\ l.count <= Cardinality(l.ever)

\* CreateNew is a lock: no two streams that created the file of a name
\* exist together, unless its file was removed or renamed under its
\* creator, explicitly or by freeing an AutoRemoveFile stream of that name
\* that is not its creator's (ref_stream_file.hpp:52, 243).
ExclusiveCreate ==
  \A s, t \in Slots :
    s # t /\ fstreams[s].mode = "CreateNew" /\ fstreams[t].mode = "CreateNew"
      /\ fstreams[s].file # 0 /\ fstreams[t].file # 0 /\ fstreams[s].path = fstreams[t].path
      => fstreams[s].path \in excused

\* Both: names behave under concurrent change (ref_stream_file.hpp:234, 520).
FilesSound == ListingsSound /\ ExclusiveCreate
-----------------------------------------------------------------------------
(***************************************************************************)
(* The inductive invariant of both.                                        *)
(***************************************************************************)
FileStreamSet ==
  [path : Names \cup {"none"}, mode : Modes \cup {"none"}, auto : BOOLEAN, file : Nat]

ListingSet ==
  [stage : {"read", "done"}, op : {"none", "list", "count"}, left : SUBSET (Names \cup Dots),
   head : Nat, size : Nat, got : SUBSET Names, count : Int, links : BOOLEAN,
   always : SUBSET Names, ever : SUBSET Names]

FilesTypeOK ==
  /\ files \in Seq(FileTypes) /\ entries \in [Names -> 0..Len(files)]
  /\ fstreams \in [Slots -> FileStreamSet] /\ listing \in [FileExecutors -> ListingSet]
  /\ excused \subseteq Names

\* Who created a file in CreateNew mode still has it, or is excused.
CreatorsKept ==
  \A s \in Slots :
    LET f == fstreams[s]
    IN /\ f = NoFile \/ f.path \in Names
       /\ f.mode = "CreateNew" /\ f.file # 0 =>
            f.path \in excused \/ entries[f.path] = f.file

\* Once there is a buffer it holds two names of any length.
RoomLeft(l) == l.head <= l.size /\ (l.size = 0 \/ l.size >= 2 * NameMax)

Links == {n \in Names : Type(n) = "Symlink"}
Seen(l, links) == IF l.links THEN l.always ELSE l.always \ links

\* A listing l under way: what was there all the time has been got or is
\* left to read, and a count is between what has been read of that and what
\* has been read at all.
ReadSound(l, present, links) ==
  /\ l.always \subseteq present /\ l.left \subseteq l.ever \cup Dots
  /\ l.op = "list" => Seen(l, links) \subseteq l.got \cup l.left /\ l.got \subseteq l.ever
  /\ l.op = "count" =>
       /\ Cardinality((Seen(l, links) \cup Dots) \ l.left) <= l.count + 2
       /\ l.count + 2 <= Cardinality((l.ever \cup Dots) \ l.left)

ReadsSound ==
  \A e \in FileExecutors :
    RoomLeft(listing[e]) /\ (listing[e].stage = "read" => ReadSound(listing[e], Present, Links))

FilesInv == FilesTypeOK /\ CreatorsKept /\ ExclusiveCreate /\ ReadsSound
=============================================================================
