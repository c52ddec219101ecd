------------------------------ MODULE IOWatcher ------------------------------
(***************************************************************************)
(* The file watcher (iowatcher_linux.cpp): executors take turns waiting    *)
(* for the next file that was written anywhere below a directory.          *)
(*                                                                         *)
(* The system watches single directories, so the watcher keeps a watch     *)
(* for every directory of the tree and sets new ones up when an event      *)
(* tells of a new directory, one system call after the other, while the    *)
(* tree goes on changing.  A watch follows its directory when it moves,    *)
(* the path the watcher remembers for it does not.                         *)
(***************************************************************************)
EXTENDS Naturals, Sequences, FiniteSets, Functions

CONSTANTS WatchExecutors,  \* the executors that wait
          Dirs,            \* directories that can be made
          DirNames,        \* names of directories
          Trees,           \* [parent, label]: what there is at the start
          MaxChanges,      \* bound: changes of the tree
          MaxEvents,       \* the system's event queue
          PathMax          \* the longest path a caller has room for

Root == "root"
Outside == "outside"
Inodes == Dirs \cup {Root, Outside}
None == "none"

ASSUME WatcherAssumption ==
  /\ IsFiniteSet(WatchExecutors) /\ IsFiniteSet(Dirs) /\ IsFiniteSet(DirNames)
  /\ {Root, Outside, None} \cap Dirs = {} /\ None \notin DirNames /\ None \notin WatchExecutors
  /\ MaxChanges \in Nat /\ MaxEvents \in Nat \ {0}

VARIABLES
  parent,    \* the tree: where each directory is (none: it does not exist)
  label,     \* its name there
  changes,   \* changes made so far
  kernel,    \* the directories the system watches
  queue,     \* its events: [mask, wd, name]
  watches,   \* m_watches: the path remembered for each watch (none: no watch)
  buffer,    \* events read and not yet handled
  setup,     \* the frames of setupWatchesReq
  sticky,    \* the watcher's error
  lost,      \* has the queue overflowed? (history)
  refCount,  \* the watcher's reference counter
  mutex,     \* who holds its mutex (none)
  wpc,       \* where each executor is
  wanswer,   \* the file each executor's last call returned
  released,  \* has the collector destroyed the reference?
  destroyed, \* has the watcher been deleted?
  ending     \* has run() aborted the executors?

watcherVars == <<parent, label, changes, kernel, queue, watches, buffer, setup, sticky, lost,
                 refCount, mutex, wpc, wanswer, released, destroyed, ending>>
treeVars == <<parent, label, changes>>
memoryVars == <<refCount, mutex, released, destroyed, ending>>

Exists(d) == d \in Dirs => parent[d] # None

\* The directories above d and d itself: the least set that holds d and
\* where each of its directories is.
Above(d) ==
  {a \in Inodes : \A S \in SUBSET Inodes :
     d \in S /\ (\A x \in S \cap Dirs : parent[x] # None => parent[x] \in S) => a \in S}

InTree(d) == Root \in Above(d)

\* A path leads from the root on, name by name, to a directory.
Leads(p, d) ==
  \E c \in [DOMAIN p -> Inodes] :
    /\ p # <<>> /\ p[1] = Root /\ c[1] = Root /\ c[Len(p)] = d
    /\ \A i \in 2 .. Len(p) : c[i] \in Dirs /\ parent[c[i]] = c[i - 1] /\ label[c[i]] = p[i]

\* What a path leads to now.
Resolve(p) == {d \in Inodes : Leads(p, d)}

\* A tree: what a directory is in exists, nothing lies in itself, and names
\* are unique where they are.
IsTree ==
  /\ parent \in [Dirs -> Inodes \cup {None}] /\ label \in [Dirs -> DirNames \cup {None}]
  /\ \A d \in Dirs : parent[d] # None => label[d] # None /\ Exists(parent[d]) /\ d \notin Above(parent[d])
  /\ \A d, e \in Dirs : parent[d] = parent[e] /\ label[d] = label[e] /\ parent[d] # None => d = e

WatcherInit ==
  /\ \E t \in Trees : parent = t.parent /\ label = t.label
  /\ IsTree
  /\ changes = 0
  /\ kernel = {} /\ queue = <<>>
  /\ watches = [d \in Inodes |-> <<>>] /\ buffer = <<>>
  /\ \/ /\ setup = <<[path |-> <<Root>>, stage |-> "open", dir |-> None, left |-> {},
                        missing |-> FALSE]>>
        /\ sticky = "None"
     \/ setup = <<>> /\ sticky = "FileTooManyOpenFiles"  \* inotify_init() failed
  /\ lost = FALSE
  /\ refCount = 1 /\ mutex = None
  /\ wpc = [e \in WatchExecutors |-> "out"] /\ wanswer = [e \in WatchExecutors |-> <<>>]
  /\ released = FALSE /\ destroyed = FALSE /\ ending = FALSE
-----------------------------------------------------------------------------
(***************************************************************************)
(* The tree changes, and the system queues events for watched directories. *)
(***************************************************************************)
Event(mask, d, n) == [mask |-> mask, wd |-> d, name |-> n]

\* Only watched directories have events.
Observed(v) == IF v.wd \in kernel THEN <<v>> ELSE <<>>

\* A full queue drops what does not fit and says so.
Queue(evs) ==
  IF Len(queue) + Len(evs) <= MaxEvents THEN queue' = queue \o evs /\ UNCHANGED lost
  ELSE queue' = Append(queue, Event("Q_OVERFLOW", None, None)) /\ lost' = TRUE

Change == changes < MaxChanges /\ changes' = changes + 1
TreeFrame == UNCHANGED <<watches, buffer, setup, sticky, memoryVars, wpc, wanswer>>
Taken(p, n) == \E d \in Dirs : parent[d] = p /\ label[d] = n

MakeDir(d, p, n) ==
  /\ Change /\ parent[d] = None /\ label[d] = None /\ Exists(p) /\ ~Taken(p, n)
  /\ parent' = [parent EXCEPT ![d] = p] /\ label' = [label EXCEPT ![d] = n]
  /\ Queue(Observed(Event("CREATE_DIR", p, n)))
  /\ UNCHANGED kernel /\ TreeFrame

\* Its number is not used again.
RemoveDir(d) ==
  /\ Change /\ parent[d] # None /\ \A x \in Dirs : parent[x] # d
  /\ parent' = [parent EXCEPT ![d] = None] /\ UNCHANGED label
  /\ kernel' = kernel \ {d}
  /\ Queue(Observed(Event("DELETE_SELF", d, None)) \o Observed(Event("IGNORED", d, None)))
  /\ TreeFrame

MoveDir(d, p, n) ==
  /\ Change /\ parent[d] # None /\ Exists(p) /\ ~Taken(p, n)
  /\ d \notin Above(p)
  /\ parent' = [parent EXCEPT ![d] = p] /\ label' = [label EXCEPT ![d] = n]
  /\ Queue(Observed(Event("MOVED_TO_DIR", p, n)) \o Observed(Event("MOVE_SELF", d, None)))
  /\ UNCHANGED kernel /\ TreeFrame

\* A file is written and closed.
WriteFile(d) ==
  /\ Change /\ Exists(d)
  /\ Queue(Observed(Event("CLOSE_WRITE", d, "file")))
  /\ UNCHANGED <<parent, label, kernel>> /\ TreeFrame

TreeStep ==
  \/ \E d \in Dirs, p \in Inodes, n \in DirNames : MakeDir(d, p, n) \/ MoveDir(d, p, n)
  \/ \E d \in Dirs : RemoveDir(d)
  \/ \E d \in Inodes \ {Outside} : WriteFile(d)
-----------------------------------------------------------------------------
(***************************************************************************)
(* setupWatchesReq, one system call a step; the innermost frame is first.  *)
(***************************************************************************)
SetupFrame == UNCHANGED <<treeVars, queue, lost, buffer, memoryVars, wpc, wanswer>>
Top == setup[1]
WithTop(f) == <<f>> \o Tail(setup)

\* opendir(): a directory that is gone is no error below the root.
OpenDirectory ==
  /\ setup # <<>> /\ Top.stage = "open"
  /\ \/ \E d \in Resolve(Top.path) :
          setup' = WithTop([Top EXCEPT !.stage = "add", !.dir = d]) /\ UNCHANGED sticky
     \/ /\ Resolve(Top.path) = {} /\ setup' = Tail(setup)
        /\ sticky' = IF Top.missing THEN sticky ELSE "FileNotFound"
  /\ UNCHANGED <<kernel, watches>> /\ SetupFrame

\* A watch of a directory that has one already keeps its number; its path
\* is replaced.
WatchPath(d, p) == [watches EXCEPT ![d] = p]

\* inotify_add_watch() by path: what is there now, which need not be what
\* was opened; if nothing is, the watcher fails although the directory may
\* be missing.
AddWatch ==
  /\ setup # <<>> /\ Top.stage = "add"
  /\ \/ \E d \in Resolve(Top.path) :
          /\ kernel' = kernel \cup {d} /\ watches' = WatchPath(d, Top.path)
          /\ setup' = WithTop([Top EXCEPT !.stage = "list"]) /\ UNCHANGED sticky
     \/ /\ Resolve(Top.path) = {} /\ setup' = Tail(setup) /\ sticky' = "FileNotFound"
        /\ UNCHANGED <<kernel, watches>>
  /\ SetupFrame

\* readdir() of the opened directory.
ListDirectory ==
  /\ setup # <<>> /\ Top.stage = "list"
  /\ setup' = WithTop([Top EXCEPT !.stage = "descend",
                                  !.left = {label[d] : d \in {x \in Dirs : parent[x] = Top.dir}}])
  /\ UNCHANGED <<kernel, watches, sticky>> /\ SetupFrame

NewFrame(p) == [path |-> p, stage |-> "open", dir |-> None, left |-> {}, missing |-> TRUE]

Descend ==
  /\ setup # <<>> /\ Top.stage = "descend"
  /\ \/ \E n \in Top.left :
          setup' = <<NewFrame(Append(Top.path, n))>> \o WithTop([Top EXCEPT !.left = @ \ {n}])
     \/ Top.left = {} /\ setup' = Tail(setup)
  /\ UNCHANGED <<kernel, watches, sticky>> /\ SetupFrame

SetupStep == OpenDirectory \/ AddWatch \/ ListDirectory \/ Descend
-----------------------------------------------------------------------------
(***************************************************************************)
(* ioWatcherGet.                                                           *)
(***************************************************************************)
At(e, l) == wpc[e] = l
WGoto(e, l) == wpc' = [wpc EXCEPT ![e] = l]
GetFrame == UNCHANGED <<treeVars, kernel, lost, setup>>
Created == setup = <<>> \/ \E e \in WatchExecutors : mutex = e

\* ioWatcherCreate has set the tree up; WatcherRef counts the caller.
GetBegins(e) ==
  /\ At(e, "out") /\ ~released /\ ~ending /\ Created
  /\ refCount' = refCount + 1 /\ WGoto(e, "lock")
  /\ wanswer' = [wanswer EXCEPT ![e] = <<>>]
  /\ UNCHANGED <<queue, watches, buffer, sticky, mutex, released, destroyed, ending>> /\ GetFrame

\* The mutex, as Paused, then trap(), then the watcher's error.
GetLocks(e) ==
  /\ At(e, "lock") /\ mutex = None
  /\ mutex' = e
  /\ WGoto(e, IF ending \/ sticky # "None" THEN "unlock" ELSE "next")
  /\ UNCHANGED <<queue, watches, buffer, sticky, refCount, released, destroyed, ending, wanswer>>
  /\ GetFrame

\* readEvents: blocks in read() as Paused, then trap().
ReadEvents(e) ==
  /\ At(e, "next") /\ buffer = <<>> /\ setup = <<>>
  /\ \/ /\ queue # <<>> /\ ~ending
        /\ buffer' = queue /\ queue' = <<>> /\ UNCHANGED <<wpc, sticky>>
     \/ /\ ending /\ WGoto(e, "unlock") /\ UNCHANGED <<buffer, queue, sticky>>
     \/ /\ ~ending /\ sticky' = "IOWatcherUnknownError"  \* read() fails
        /\ WGoto(e, "unlock") /\ UNCHANGED <<buffer, queue>>
  /\ UNCHANGED <<watches, memoryVars, wanswer>> /\ GetFrame

\* A directory that arrives by a move is not looked at.
NewDirOnlyCreated(v) == v.mask = "CREATE_DIR"

NewDir(v) == v.mask \in {"CREATE_DIR", "MOVED_TO_DIR"}

\* One event of getNextModifiedFile: unknown watches are skipped, a closed
\* file is the answer, new directories are set up, ended watches forgotten.
HandleEvent(e) ==
  LET v == Head(buffer)
      known == v.mask # "Q_OVERFLOW" /\ watches[v.wd] # <<>>
  IN /\ At(e, "next") /\ buffer # <<>> /\ setup = <<>>
     /\ buffer' = Tail(buffer)
     /\ IF known /\ v.mask = "CLOSE_WRITE"
        THEN /\ WGoto(e, "unlock")
             /\ IF Len(watches[v.wd]) < PathMax
                THEN wanswer' = [wanswer EXCEPT ![e] = Append(watches[v.wd], v.name)] /\ UNCHANGED sticky
                ELSE sticky' = "IOWatcherUnknownError" /\ UNCHANGED wanswer
        ELSE UNCHANGED <<wanswer, wpc, sticky>>
     /\ setup' = IF known /\ NewDir(v) THEN <<NewFrame(Append(watches[v.wd], v.name))>> ELSE setup
     /\ watches' = IF known /\ v.mask = "IGNORED" THEN [watches EXCEPT ![v.wd] = <<>>] ELSE watches
     /\ UNCHANGED <<treeVars, kernel, queue, lost, memoryVars>>

\* The loop of ioWatcherGet: an error ends it, and so does an abort.
LoopEnds(e) ==
  /\ At(e, "next") /\ setup = <<>> /\ (sticky # "None" \/ ending)
  /\ WGoto(e, "unlock")
  /\ UNCHANGED <<queue, watches, buffer, sticky, memoryVars, wanswer>> /\ GetFrame

\* The lock_guard is destroyed before the WatcherRef.
GetUnlocks(e) ==
  /\ At(e, "unlock")
  /\ mutex' = None /\ WGoto(e, "unref")
  /\ UNCHANGED <<queue, watches, buffer, sticky, refCount, released, destroyed, ending, wanswer>>
  /\ GetFrame

\* watcherRefDec: whoever takes the last reference deletes the watcher.
watcherRefDec(n) == refCount' = refCount - n /\ destroyed' = (destroyed \/ refCount = n)

GetEnds(e) ==
  /\ At(e, "unref")
  /\ watcherRefDec(1) /\ WGoto(e, IF ending THEN "gone" ELSE "out")
  /\ UNCHANGED <<queue, watches, buffer, sticky, mutex, released, ending, wanswer>> /\ GetFrame

\* ioWatcherDestroy: the collector, when no executor holds the reference,
\* or run() at the end, when executors may still be inside.
Release ==
  /\ ~released /\ setup = <<>>
  /\ ending \/ \A e \in WatchExecutors : At(e, "out")
  /\ released' = TRUE /\ watcherRefDec(1)
  /\ UNCHANGED <<queue, watches, buffer, sticky, mutex, ending, wpc, wanswer>> /\ GetFrame

EndRun ==
  /\ ~ending /\ ending' = TRUE
  /\ UNCHANGED <<queue, watches, buffer, sticky, refCount, mutex, released, destroyed, wpc, wanswer>>
  /\ GetFrame

WatcherNext ==
  \/ TreeStep \/ SetupStep \/ Release \/ EndRun
  \/ \E e \in WatchExecutors :
       GetBegins(e) \/ GetLocks(e) \/ ReadEvents(e) \/ HandleEvent(e) \/ LoopEnds(e)
         \/ GetUnlocks(e) \/ GetEnds(e)

WatcherSpec == WatcherInit /\ [][WatcherNext]_watcherVars
-----------------------------------------------------------------------------
(***************************************************************************)
(* Properties.                                                             *)
(***************************************************************************)
\* When every event has been handled, every directory of the tree is
\* watched under the path it has, whatever was made, moved and removed
\* while watches were being set up (iowatcher_linux.cpp:165).  The two
\* excuses are the queue's overflow and the watcher's error.
DirectoriesWatched ==
  setup = <<>> /\ queue = <<>> /\ buffer = <<>> /\ sticky = "None" /\ ~lost =>
    \A d \in Inodes : InTree(d) => d \in kernel /\ Leads(watches[d], d)

\* Nobody is inside ioWatcherGet when the watcher is deleted, and it is
\* deleted as soon as the last of its users is gone: the mutex is released
\* before the reference is (iowatcher_linux.cpp:328).
WatcherKept ==
  /\ destroyed => mutex = None /\ \A e \in WatchExecutors : wpc[e] \in {"out", "gone"}
  /\ released /\ (\A e \in WatchExecutors : wpc[e] \in {"out", "gone"}) => destroyed
  /\ \A e \in WatchExecutors : wpc[e] \in {"next", "unlock"} <=> mutex = e

\* Both: the watcher misses no directory and outlives its users
\* (iowatcher_linux.cpp:165, 328).
WatcherSound == DirectoriesWatched /\ WatcherKept
-----------------------------------------------------------------------------
(***************************************************************************)
(* The inductive invariant of the watcher's memory and mutex.              *)
(***************************************************************************)
\* The executors that hold a reference: from the first line of
\* ioWatcherGet to its last.
Users == {e \in WatchExecutors : wpc[e] \in {"lock", "next", "unlock", "unref"}}

\* The watcher's memory has its values.
WatcherTypeOK ==
  /\ wpc \in [WatchExecutors -> {"out", "lock", "next", "unlock", "unref", "gone"}]
  /\ mutex \in WatchExecutors \cup {None}
  /\ refCount \in Nat /\ released \in BOOLEAN /\ destroyed \in BOOLEAN

\* The counter counts the collector's reference and the users.
UsersCounted == refCount = (IF released THEN 0 ELSE 1) + Cardinality(Users)

\* The watcher is deleted when nobody is counted, and only then.
DeletedAtZero == destroyed <=> refCount = 0

\* Whoever is between the two ends of the critical section has the mutex.
HolderInside == \A e \in WatchExecutors : wpc[e] \in {"next", "unlock"} <=> mutex = e

WatcherInv == WatcherTypeOK /\ UsersCounted /\ DeletedAtZero /\ HolderInside
-----------------------------------------------------------------------------
(***************************************************************************)
(* The inductive invariant of the watched tree.                            *)
(***************************************************************************)
Watched(d) == d \in kernel /\ Leads(watches[d], d)

Events == Range(queue) \cup Range(buffer)

\* An event still to be handled tells of d or of a directory above it.
Announced(d) ==
  \E a \in Above(d) \cap Dirs, v \in Events : NewDir(v) /\ v.wd = parent[a] /\ v.name = label[a]

\* A frame of setupWatchesReq will come to d: what it is going to open, add
\* a watch for, list or descend to is d or above d.
Reaches(f, d) ==
  \/ f.stage = "open" /\ \E a \in Above(d) : Leads(f.path, a)
  \/ f.stage = "add" /\ f.dir \in Above(d) /\ Leads(f.path, f.dir)
  \/ f.stage = "list" /\ f.dir \in Above(d) \ {d} /\ Leads(f.path, f.dir)
  \/ f.stage = "descend" /\ \E b \in Above(d) \cap Dirs : label[b] \in f.left /\ Leads(f.path, parent[b])

Attended(d) == Watched(d) \/ Announced(d) \/ \E f \in Range(setup) : Reaches(f, d)

Paths == Seq(DirNames \cup {Root})

Masks == {"CREATE_DIR", "MOVED_TO_DIR", "MOVE_SELF", "DELETE_SELF", "IGNORED", "CLOSE_WRITE", "Q_OVERFLOW"}

EventType == [mask : Masks, wd : Inodes \cup {None}, name : DirNames \cup {None, "file"}]

FrameType == [path : Paths, stage : {"open", "add", "list", "descend"}, dir : Inodes \cup {None},
              left : SUBSET DirNames, missing : BOOLEAN]

EventOK(v) ==
  /\ NewDir(v) => v.wd \in Inodes /\ v.name \in DirNames
  /\ v.mask = "IGNORED" => v.wd \in Dirs /\ parent[v.wd] = None /\ label[v.wd] # None
  /\ v.mask # "Q_OVERFLOW" => v.wd \in Inodes

TreeInv ==
  /\ IsTree
  /\ watches \in [Inodes -> Paths]
  /\ queue \in Seq(EventType) /\ buffer \in Seq(EventType) /\ setup \in Seq(FrameType)
  /\ \A v \in Events : EventOK(v)
  /\ \A f \in Range(setup) : f.stage \in {"add", "list"} => f.dir \in Inodes
  /\ lost \/ sticky # "None" \/ \A d \in Inodes : InTree(d) => Attended(d)

=============================================================================
