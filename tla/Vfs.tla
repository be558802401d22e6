--------------------------------- MODULE Vfs ---------------------------------
(***************************************************************************)
(* Who owns a file descriptor when a game comes as virtual files.  Every   *)
(* VFSFile owns the descriptor it was given and closes its number when it  *)
(* is destroyed.  A game of several files, or one that wants paths, leaves *)
(* them to class VFS, whose open() duplicates the descriptor and whose     *)
(* close() closes the duplicate twice, once through its FILE.  A game of   *)
(* one file is read at once and its descriptor closed, and the VFSFile     *)
(* closes the number again when the load returns.                          *)
(*                                                                         *)
(* The table of the process maps a number to what it refers to; an open    *)
(* takes the lowest free one.  Everything else in the process that opens   *)
(* and closes files, the core included, is "other".                        *)
(***************************************************************************)
EXTENDS Integers, FiniteSetsExt

CONSTANTS
  VirtualFiles,
  MaxFD               \* size of the table

ASSUME VfsAssumption == MaxFD \in Nat \ {0}

VARIABLES
  table,              \* the descriptors of the process
  wrapper,            \* the number in each VFSFile, 0 when there is none
  loadUsingVFS,
  loading,            \* LibretroDroid::loadGameFromVirtualFiles and destroy
  streams,            \* the streams that VFS has open, by number
  halfClosed,         \* those whose FILE is closed, but not yet their number
  others,               \* history: the numbers that others opened and not closed
  raced               \* history: a number was opened that was about to be
                      \* closed for the second time

vfsVars == <<table, wrapper, loadUsingVFS, loading, streams, halfClosed, others, raced>>

Numbers == 1..MaxFD
Free == "free"
FilesOf == {"game", "stream", "other", Free}

VfsTypeOK ==
  /\ table \in [Numbers -> FilesOf]
  /\ wrapper \in [VirtualFiles -> Numbers \cup {0}]
  /\ loadUsingVFS \in BOOLEAN /\ raced \in BOOLEAN
  /\ loading \in {"detach", "loadGame", "loaded", "destroyed"}
  /\ streams \subseteq Numbers /\ halfClosed \subseteq streams
  /\ others \subseteq Numbers

VfsInit ==
  /\ table = [n \in Numbers |-> Free]
  /\ wrapper = [f \in VirtualFiles |-> 0]
  /\ loadUsingVFS \in BOOLEAN
  /\ loading = "detach"
  /\ streams = {} /\ halfClosed = {} /\ others = {} /\ raced = FALSE

-----------------------------------------------------------------------------
(* Variants of the definitions below with one fault each.                  *)

\* An open that shares the descriptor of the file.
OpenShared(f) ==
  /\ loading = "loaded" /\ loadUsingVFS
  /\ wrapper[f] \notin streams
  /\ streams' = streams \cup {wrapper[f]}
  /\ UNCHANGED <<table, wrapper, loadUsingVFS, loading, halfClosed, others, raced>>

\* A deinitialization that forgets the files without closing them.
ForgetAll ==
  /\ wrapper' = [f \in VirtualFiles |-> 0]
  /\ table' = table

-----------------------------------------------------------------------------
FreeNumbers == {n \in Numbers : table[n] = Free}
Lowest == Min(FreeNumbers)

\* The numbers that their owner has closed and will close again.
Stale ==
  halfClosed \cup
  (IF loading = "loadGame"
   THEN {wrapper[f] : f \in VirtualFiles} ELSE {})

OpenedMeanwhile == raced' = (raced \/ Lowest \in Stale)

-----------------------------------------------------------------------------
\* detachFd(), file by file: the descriptor is open, and the VFSFile has it.
Detach(f) ==
  /\ loading = "detach" /\ wrapper[f] = 0
  /\ loadUsingVFS \/ \A g \in VirtualFiles : wrapper[g] = 0
  /\ FreeNumbers # {}
  /\ table' = [table EXCEPT ![Lowest] = "game"]
  /\ wrapper' = [wrapper EXCEPT ![f] = Lowest]
  /\ UNCHANGED <<loadUsingVFS, loading, streams, halfClosed, others, raced>>

\* A load through VFS takes the files over, all of them.
InitializeVFS ==
  /\ loading = "detach" /\ loadUsingVFS
  /\ \A f \in VirtualFiles : wrapper[f] # 0
  /\ loading' = "loaded"
  /\ UNCHANGED <<table, wrapper, loadUsingVFS, streams, halfClosed, others, raced>>

\* readFileAsBytes of the only file.
ReadBytes(f) ==
  /\ loading = "detach" /\ ~loadUsingVFS /\ wrapper[f] # 0
  /\ table' = [table EXCEPT ![wrapper[f]] = Free]
  /\ loading' = "loadGame"
  /\ UNCHANGED <<wrapper, loadUsingVFS, streams, halfClosed, others, raced>>

\* The number of every VFSFile is closed, whatever it refers to by now.
CloseAll ==
  /\ wrapper' = [f \in VirtualFiles |-> 0]
  /\ table' = [n \in Numbers |->
                 IF \E f \in VirtualFiles : wrapper[f] = n THEN Free ELSE table[n]]

\* retro_load_game has returned or failed, and the argument goes out of scope.
LoadReturns ==
  /\ loading = "loadGame" /\ loading' = "loaded"
  /\ CloseAll
  /\ UNCHANGED <<loadUsingVFS, streams, halfClosed, others, raced>>

-----------------------------------------------------------------------------
(* The file interface of the core: virtualOpen and                         *)
(* retro_vfs_file_close_impl.                                              *)

\* With a full table dup() fails and the code goes on with a null FILE.
VirtualOpen(f) ==
  /\ loading = "loaded" /\ loadUsingVFS
  /\ FreeNumbers # {}
  /\ table' = [table EXCEPT ![Lowest] = "stream"]
  /\ streams' = streams \cup {Lowest}
  /\ OpenedMeanwhile
  /\ UNCHANGED <<wrapper, loadUsingVFS, loading, halfClosed, others>>

CloseFile(n) ==
  /\ n \in streams \ halfClosed
  /\ table' = [table EXCEPT ![n] = Free]
  /\ halfClosed' = halfClosed \cup {n}
  /\ UNCHANGED <<wrapper, loadUsingVFS, loading, streams, others, raced>>

CloseNumber(n) ==
  /\ n \in halfClosed
  /\ table' = [table EXCEPT ![n] = Free]
  /\ streams' = streams \ {n} /\ halfClosed' = halfClosed \ {n}
  /\ UNCHANGED <<wrapper, loadUsingVFS, loading, others, raced>>

-----------------------------------------------------------------------------
\* The engine is destroyed: the core closes its streams first.
DeinitializeVFS ==
  /\ loading = "loaded" /\ streams = {}
  /\ loading' = "destroyed"
  /\ CloseAll
  /\ UNCHANGED <<loadUsingVFS, streams, halfClosed, others, raced>>

-----------------------------------------------------------------------------
(* Others.                                                                 *)

OpenOther ==
  /\ FreeNumbers # {}
  /\ table' = [table EXCEPT ![Lowest] = "other"]
  /\ others' = others \cup {Lowest}
  /\ OpenedMeanwhile
  /\ UNCHANGED <<wrapper, loadUsingVFS, loading, streams, halfClosed>>

CloseOther(n) ==
  /\ n \in others
  /\ table' = [table EXCEPT ![n] = Free]
  /\ others' = others \ {n}
  /\ UNCHANGED <<wrapper, loadUsingVFS, loading, streams, halfClosed, raced>>

VfsNext ==
  \/ \E f \in VirtualFiles : Detach(f) \/ ReadBytes(f) \/ VirtualOpen(f)
  \/ InitializeVFS \/ LoadReturns \/ DeinitializeVFS
  \/ \E n \in Numbers : CloseFile(n) \/ CloseNumber(n) \/ CloseOther(n)
  \/ OpenOther

VfsSpec == VfsInit /\ [][VfsNext]_vfsVars

-----------------------------------------------------------------------------
\* The comment of VFSFile, "File ownership has to be preserved": while the game
\* is loaded every registered file stays open under its number, and no file of
\* another part of the process is ever closed; the second close of a number does
\* no harm unless an open took that number between it and the first.
OwnershipPreserved ==
  ~raced =>
    /\ \A f \in VirtualFiles :
         wrapper[f] # 0 /\ wrapper[f] \notin Stale => table[wrapper[f]] = "game"
    /\ \A n \in others : table[n] = "other"
    /\ \A n \in streams \ halfClosed : table[n] = "stream"

\* A destroyed engine leaves no descriptor of the game open, on either path.
NothingLeaks ==
  loading = "destroyed" => \A n \in Numbers : table[n] \in {"other", Free}
=============================================================================
