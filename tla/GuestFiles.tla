----------------------------- MODULE GuestFiles -----------------------------
(* The files of the guest (shim_libc.c): a writable overlay over the read-only *)
(* files of the bundle.  A path is mapped to a host path for every call; the   *)
(* mappings for reading are cached, a call that writes first copies the file   *)
(* of the bundle into the overlay.  The process may end at any step of that    *)
(* copy.  The contents of a file is a version: 1 is the bundle's.              *)
EXTENDS Naturals
CONSTANTS Paths, Bundled,    \* the paths of the game, those the bundle has
          Dir(_), Slot(_),   \* directory of a path; its slot in PATH_CACHE
          MaxVersion         \* bound on the versions that are written
VARIABLES overlay,   \* what DATA_ROOT has: path -> version, Absent or Partial
          dirs,      \* the directories it has
          paths,     \* PATH_CACHE: slot -> [guest, layer], or NoPath
          copying,   \* the call that waits for copy_from_base, or NoCall
          temporary  \* the copies under a temporary name
vars == <<overlay, dirs, paths, copying, temporary>>
-----------------------------------------------------------------------------
Partial == 0       \* half of a file
Original == 1      \* what the bundle has
Absent == MaxVersion + 1
NoPath == [guest |-> "none"]
NoCall == [op |-> "none"]
DirsOfGame == {Dir(p) : p \in Paths}
Slots == {Slot(p) : p \in Paths}

\* map_path_uncached for reading: the overlay first, then the bundle.
map_path_uncached(p) ==
    IF overlay[p] # Absent \/ p \notin Bundled THEN "overlay" ELSE "bundle"

\* map_path_mode for reading: the layer a call that reads p goes to.
Cached(p) == paths[Slot(p)].guest = p
map_path(p) == IF Cached(p) THEN paths[Slot(p)].layer ELSE map_path_uncached(p)
path_cache_flush == paths' = [s \in Slots |-> NoPath]

\* What a program that opens p for reading now gets, and what it should get.
Read(p) == IF map_path(p) = "overlay" THEN overlay[p] ELSE Original
Newest(p) == IF overlay[p] # Absent THEN overlay[p] ELSE IF p \in Bundled THEN Original ELSE Absent
-----------------------------------------------------------------------------
Init ==
    /\ overlay = [p \in Paths |-> Absent]
    /\ dirs = {}
    /\ paths = [s \in Slots |-> NoPath]
    /\ copying = NoCall
    /\ temporary = {}

\* s_fopen and s_open for reading, s_stat, s_opendir.
OpenToRead(p) ==
    /\ paths' = [paths EXCEPT ![Slot(p)] = [guest |-> p, layer |-> map_path(p)]]
    /\ UNCHANGED <<overlay, dirs, copying, temporary>>

\* The calls that write: the modes of fopen and open, remove and rename.
Calls == [op : {"create", "append", "update", "remove"}, path : Paths]
         \cup [op : {"rename"}, path : Paths, to : Paths]
Fresh == {v \in 2..MaxVersion : \A p \in Paths : overlay[p] # v}

\* The call itself, on the files f and directories of the overlay; it may also
\* fail, for want of a slot in FILES or of a descriptor.
Perform(call, f, d) ==
    \/ overlay' = f
    \/ /\ call.op \in {"create", "append"} \/ (call.op = "update" /\ f[call.path] # Absent)
       /\ Dir(call.path) \in d
       /\ \E v \in Fresh : overlay' = [f EXCEPT ![call.path] = v]
    \/ /\ call.op = "remove"
       /\ overlay' = [f EXCEPT ![call.path] = Absent]
    \/ /\ call.op = "rename"
       /\ f[call.path] # Absent /\ Dir(call.to) \in d
       /\ overlay' = [f EXCEPT ![call.path] = IF call.to = call.path THEN @ ELSE Absent,
                               ![call.to] = f[call.path]]


\* map_path_mode for writing when the file has to be copied: the parents are
\* made and the copy is begun under a temporary name.
CopyFromBase(call) ==
    /\ overlay[call.path] = Absent /\ call.path \in Bundled
    /\ dirs' = dirs \cup {Dir(call.path)}
    /\ copying' = call
    /\ temporary' = temporary \cup {call.path}
    /\ UNCHANGED <<overlay, paths>>

\* A mutation: the cache keeps its entries.
CopyEnds_Unflushed ==
    /\ copying # NoCall
    /\ \/ Perform(copying, [overlay EXCEPT ![copying.path] = Original], dirs)
       \/ UNCHANGED overlay
    /\ temporary' = temporary \ {copying.path}
    /\ copying' = NoCall
    /\ UNCHANGED <<dirs, paths>>

\* It is complete and renamed, or given up; then comes the call, on the empty
\* path, which fails, if there is no copy.
CopyEnds ==
    /\ copying # NoCall
    /\ \/ Perform(copying, [overlay EXCEPT ![copying.path] = Original], dirs)
       \/ UNCHANGED overlay
    /\ temporary' = temporary \ {copying.path}
    /\ copying' = NoCall
    /\ path_cache_flush
    /\ UNCHANGED dirs

\* The file need not be copied.
Write(call) ==
    /\ overlay[call.path] # Absent \/ call.path \notin Bundled
    /\ Perform(call, overlay, dirs)
    /\ path_cache_flush
    /\ UNCHANGED <<dirs, copying, temporary>>

\* s_mkdir and s_rmdir: the overlay only.
Mkdir(d) == dirs' = dirs \cup {d} /\ path_cache_flush /\ UNCHANGED <<overlay, copying, temporary>>
Rmdir(d) ==
    /\ \A p \in Paths : Dir(p) = d => overlay[p] = Absent /\ p \notin temporary
    /\ dirs' = dirs \ {d}
    /\ path_cache_flush
    /\ UNCHANGED <<overlay, copying, temporary>>

\* A change of the language (mr_shim_path_cache_flush).
Flush == path_cache_flush /\ UNCHANGED <<overlay, dirs, copying, temporary>>

\* The process ends, at any step of a copy too, and starts again.
Restart == path_cache_flush /\ copying' = NoCall /\ UNCHANGED <<overlay, dirs, temporary>>

Call ==
    /\ copying = NoCall
    /\ \/ \E p \in Paths : OpenToRead(p)
       \/ \E call \in Calls : Write(call) \/ CopyFromBase(call)
       \/ \E d \in DirsOfGame : Mkdir(d) \/ Rmdir(d)
       \/ Flush

Next == Call \/ CopyEnds \/ Restart
Spec == Init /\ [][Next]_vars
-----------------------------------------------------------------------------
(* A file that is opened for reading is the one of the overlay if it has one   *)
(* and the one of the bundle otherwise, whatever was read, copied, written,    *)
(* renamed or removed since its path was cached (PATH_CACHE, map_path_mode).   *)
ReadsSeeTheOverlay == copying = NoCall => \A p \in Paths : Read(p) = Newest(p)

(* A program never finds half of a file, although the process may end in the   *)
(* middle of a copy (the temporary name and the rename of copy_from_base).     *)
NoHalfCopies == copying = NoCall => \A p \in Paths : Read(p) # Partial

(* Every read gets the newest version of its file, and all of it.              *)
ReadsAreCurrent == ReadsSeeTheOverlay /\ NoHalfCopies
=============================================================================
