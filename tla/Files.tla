------------------------------- MODULE Files -------------------------------
(***************************************************************************)
(* The file manager (src/src/daemon/files/) and the way an upload reaches  *)
(* it (open_file_write, write_file, write_file_content): one directory,    *)
(* the names in it and the files behind them.  Two names may be one file   *)
(* (create_link).  Calls run beside each other, each on a thread of its    *)
(* own, and no lock keeps them apart.                                      *)
(*                                                                         *)
(* An upload is two threads: the handler, which reads the client's body    *)
(* and sends it chunk by chunk into a bounded channel, and the worker,     *)
(* which writes what it receives and commits when the channel is closed.   *)
(***************************************************************************)
EXTENDS Naturals

CONSTANTS
  Names,      \* the names in the directory
  Calls,      \* calls that run beside each other
  UploadSize,  \* chunks of an upload
  ChunkSlots,  \* chunks the channel holds (4)
  MaxFileCalls, MaxFileFails   \* bounds: calls, failing system calls and ends of the daemon

NoName == "none"
FilesAssumption ==
  /\ {MaxFileCalls, MaxFileFails} \subseteq Nat
  /\ {UploadSize, ChunkSlots} \subseteq Nat \ {0}
  /\ NoName \notin Names

VARIABLES
  entry,     \* the directory: the file behind each name, or NoFile
  content,   \* what is in each file: who wrote it, and whether all of it is there
  parts,     \* the files under a temporary name, .asc-upload-*.part
  stale,     \* those of them that no call works on any more
  good,      \* the files that a call reported as written, or the user's own
  task,      \* the calls
  limits     \* bounds: calls and failures so far

filesVars == <<entry, content, parts, stale, good, task, limits>>

NoFile == 0
Inodes == 1 .. MaxFileCalls + 1
Content == [by : {"user", "upload", "copy", "archive"}, whole : BOOLEAN]
FileCall ==
  [kind : {"none", "upload", "copy", "archive", "move"},
   at : {"idle", "body", "settle", "rename", "open", "data"},
   from : Names \union {NoName}, to : Names \union {NoName},
   ino : Inodes \union {NoFile},    \* the file it writes, or would create
   src : Inodes \union {NoFile},    \* the file it reads
   sent : 0..UploadSize, written : 0..UploadSize, body : {"open", "ended", "cut"},
   met : BOOLEAN]                   \* another call wrote what it reads or writes
NewCall(kind, at, from, to, ino) ==
  [kind |-> kind, at |-> at, from |-> from, to |-> to, ino |-> ino, src |-> NoFile,
   sent |-> 0, written |-> 0, body |-> "open", met |-> FALSE]
NoCall == NewCall("none", "idle", NoName, NoName, NoFile)

FilesTypeOK ==
  /\ entry \in [Names -> Inodes \union {NoFile}] /\ content \in [Inodes -> Content]
  /\ parts \subseteq Inodes /\ stale \subseteq parts /\ good \subseteq Inodes
  /\ task \in [Calls -> FileCall]
  /\ limits \in [calls : 0..MaxFileCalls, fails : 0..MaxFileFails]

(* One file is there; the others get their content when they are made.     *)
FilesInit ==
  /\ \E first \in Names : entry = [n \in Names |-> IF n = first THEN 1 ELSE NoFile]
  /\ content = [i \in Inodes |-> [by |-> "user", whole |-> TRUE]]
  /\ parts = {} /\ stale = {} /\ good = {1}
  /\ task = [c \in Calls |-> NoCall]
  /\ limits = [calls |-> 0, fails |-> 0]

Runs(c, kind, at) == task[c].kind = kind /\ task[c].at = at
CallWorks == UNCHANGED limits
FileFails == limits.fails < MaxFileFails /\ limits' = [limits EXCEPT !.fails = @ + 1]
Goes(c, at) == task' = [task EXCEPT ![c].at = at]
CallEnds(c) == task' = [task EXCEPT ![c] = NoCall]
Asks == limits.calls < MaxFileCalls /\ limits' = [limits EXCEPT !.calls = @ + 1]
Begins(c, kind, at, from, to) ==
  task' = [task EXCEPT ![c] = NewCall(kind, at, from, to, limits.calls + 2)]

-----------------------------------------------------------------------------
(* Uploads                                                                 *)

(* WriteHandle::open makes the temporary file.                             *)
Upload(c) ==
  /\ task[c].at = "idle" /\ Asks
  /\ LET new == limits.calls + 2
     IN /\ content' = [content EXCEPT ![new] = [by |-> "upload", whole |-> FALSE]]
        /\ parts' = parts \union {new}
  /\ \E n \in Names : Begins(c, "upload", "body", n, n)
  /\ UNCHANGED <<entry, stale, good>>

(* The handler: a chunk of the body, its end, or its failure.  The channel *)
(* is closed by the last two alike, for the sender is dropped either way.  *)
Send(c) ==
  /\ Runs(c, "upload", "body") /\ task[c].body = "open"
  /\ task[c].sent < UploadSize /\ task[c].sent - task[c].written < ChunkSlots
  /\ task' = [task EXCEPT ![c].sent = @ + 1]
  /\ UNCHANGED <<entry, content, parts, stale, good, limits>>
BodyEnds(c) ==
  /\ Runs(c, "upload", "body") /\ task[c].body = "open" /\ task[c].sent = UploadSize
  /\ task' = [task EXCEPT ![c].body = "ended"]
  /\ UNCHANGED <<entry, content, parts, stale, good, limits>>
BodyIsCut(c) ==
  /\ Runs(c, "upload", "body") /\ task[c].body = "open" /\ task[c].sent < UploadSize
  /\ task' = [task EXCEPT ![c].body = "cut"]
  /\ UNCHANGED <<entry, content, parts, stale, good, limits>>

(* The worker: a chunk is written, or the handle is dropped with its file. *)
WriteChunk(c) ==
  /\ Runs(c, "upload", "body") /\ task[c].written < task[c].sent
  /\ \/ /\ task' = [task EXCEPT ![c].written = @ + 1]
        /\ content' = [content EXCEPT ![task[c].ino].whole = task[c].written + 1 = UploadSize]
        /\ CallWorks /\ UNCHANGED parts
     \/ /\ CallEnds(c) /\ FileFails
        /\ parts' = parts \ {task[c].ino}
        /\ UNCHANGED content
  /\ UNCHANGED <<entry, stale, good>>

(* Mutant: the channel is closed before it is empty.                       *)
ClosedEarly(c) ==
  /\ Runs(c, "upload", "body") /\ task[c].body # "open"
  /\ Goes(c, "settle")
  /\ UNCHANGED <<entry, content, parts, stale, good, limits>>
(* The channel is closed and empty: commit.                                *)
ChannelCloses(c) ==
  /\ Runs(c, "upload", "body") /\ task[c].body # "open" /\ task[c].written = task[c].sent
  /\ Goes(c, "settle")
  /\ UNCHANGED <<entry, content, parts, stale, good, limits>>

(* commit has taken the file out of the handle: when the sync, the mode or *)
(* the rename fails, drop leaves the temporary file where it is.           *)
Stranded(c) == CallEnds(c) /\ FileFails /\ stale' = stale \union {task[c].ino}
Settle(c) ==
  /\ Runs(c, "upload", "settle")
  /\ \/ Goes(c, "rename") /\ CallWorks /\ UNCHANGED stale
     \/ Stranded(c)
  /\ UNCHANGED <<entry, content, parts, good>>
Commit(c) ==
  /\ Runs(c, "upload", "rename")
  /\ \/ /\ entry' = [entry EXCEPT ![task[c].to] = task[c].ino]
        /\ parts' = parts \ {task[c].ino}
        /\ good' = IF task[c].body = "ended" THEN good \union {task[c].ino} ELSE good
        /\ CallEnds(c) /\ CallWorks /\ UNCHANGED stale
     \/ Stranded(c) /\ UNCHANGED <<entry, parts, good>>
  /\ UNCHANGED content

-----------------------------------------------------------------------------
(* Copies and archives are written where they stay.                        *)

AskFor(c) ==
  /\ task[c].at = "idle" /\ Asks
  /\ \E m, n \in Names :
       /\ m # n
       /\ \/ \E kind \in {"copy", "archive"} : Begins(c, kind, "open", m, n)
          \/ Begins(c, "move", "rename", m, n)
  /\ UNCHANGED <<entry, content, parts, stale, good>>

Writers == {c \in Calls : task[c].at = "data"}

(* The file of that name is truncated, or a new one made.                  *)
Truncate(c, src) ==
  LET dst == IF entry[task[c].to] = NoFile THEN task[c].ino ELSE entry[task[c].to]
      Touched(d) == task[d].at = "data" /\ dst \in {task[d].ino, task[d].src}
      met == \E d \in Writers : task[d].ino \in {src, dst}
  IN /\ entry' = [entry EXCEPT ![task[c].to] = dst]
     /\ content' = [content EXCEPT ![dst] = [by |-> task[c].kind, whole |-> FALSE]]
     /\ good' = good \ {dst}
     /\ task' = [d \in Calls |->
          IF d = c THEN [task[c] EXCEPT !.at = "data", !.src = src, !.ino = dst, !.met = met]
          ELSE [task[d] EXCEPT !.met = @ \/ Touched(d)]]

CopyOpens(c) ==
  /\ Runs(c, "copy", "open")
  /\ \/ entry[task[c].from] # NoFile /\ Truncate(c, entry[task[c].from]) /\ CallWorks
     \/ /\ (entry[task[c].from] = NoFile /\ CallWorks) \/ FileFails
        /\ CallEnds(c) /\ UNCHANGED <<entry, content, good>>
  /\ UNCHANGED <<parts, stale>>
ArchiveOpens(c) ==
  /\ Runs(c, "archive", "open")
  /\ \/ Truncate(c, NoFile) /\ CallWorks
     \/ FileFails /\ CallEnds(c) /\ UNCHANGED <<entry, content, good>>
  /\ UNCHANGED <<parts, stale>>

(* What was read is written; two that write one file, or a file that is    *)
(* written while it is read, may give anything.  A file copied onto itself *)
(* by its other name was truncated before it is read.                      *)
Written(c, src, full) ==
  LET i == task[c].ino
      met == task[c].met \/ \E d \in Writers \ {c} : task[d].ino = src
  IN /\ \E whole \in IF src = i THEN {FALSE} ELSE IF met THEN BOOLEAN ELSE {full} :
          content' = [content EXCEPT ![i].whole = whole]
     /\ good' = IF met \/ src \notin good THEN good ELSE good \union {i}
CopyEnds(c) ==
  /\ Runs(c, "copy", "data") /\ CallEnds(c)
  /\ \/ Written(c, task[c].src, content[task[c].src].whole) /\ CallWorks
     \/ FileFails /\ UNCHANGED <<content, good>>
  /\ UNCHANGED <<entry, parts, stale>>
ArchiveEnds(c) ==
  /\ Runs(c, "archive", "data") /\ CallEnds(c)
  /\ LET src == entry[task[c].from]
     IN \/ src # NoFile /\ Written(c, src, TRUE) /\ CallWorks
        \/ ((src = NoFile /\ CallWorks) \/ FileFails) /\ UNCHANGED <<content, good>>
  /\ UNCHANGED <<entry, parts, stale>>

(* move_path renames; two names of one file stay both.                     *)
Moves(c) ==
  /\ Runs(c, "move", "rename") /\ CallEnds(c)
  /\ LET i == entry[task[c].from]
     IN \/ /\ i \notin {NoFile, entry[task[c].to]} /\ CallWorks
           /\ entry' = [entry EXCEPT ![task[c].from] = NoFile, ![task[c].to] = i]
        \/ ((i \in {NoFile, entry[task[c].to]} /\ CallWorks) \/ FileFails) /\ UNCHANGED entry
  /\ UNCHANGED <<content, parts, stale, good>>

(* delete_paths, create_link                                               *)
DeletePath ==
  /\ Asks
  /\ \E n \in Names : entry[n] # NoFile /\ entry' = [entry EXCEPT ![n] = NoFile]
  /\ UNCHANGED <<content, parts, stale, good, task>>
Link ==
  /\ Asks
  /\ \E m, n \in Names :
       /\ entry[m] # NoFile /\ entry[n] = NoFile
       /\ entry' = [entry EXCEPT ![n] = entry[m]]
  /\ UNCHANGED <<content, parts, stale, good, task>>

(* The daemon ends, and its calls with it.                                 *)
DaemonDies ==
  /\ FileFails /\ task' = [c \in Calls |-> NoCall] /\ stale' = parts
  /\ UNCHANGED <<entry, content, parts, good>>

FilesNext ==
  \/ \E c \in Calls :
       \/ Upload(c) \/ Send(c) \/ BodyEnds(c) \/ BodyIsCut(c) \/ WriteChunk(c)
       \/ ChannelCloses(c) \/ Settle(c) \/ Commit(c)
       \/ AskFor(c) \/ CopyOpens(c) \/ ArchiveOpens(c)
       \/ CopyEnds(c) \/ ArchiveEnds(c) \/ Moves(c)
  \/ DeletePath \/ Link \/ DaemonDies

FilesSpec == FilesInit /\ [][FilesNext]_filesVars

-----------------------------------------------------------------------------
(* What a call reported as written is whole, whatever runs beside it: an   *)
(* upload whose body ended, and a copy or an archive that nobody wrote     *)
(* into.                                                                   *)
ReportedIsWhole == \A i \in good : content[i].whole

(* A temporary file belongs to an upload at work, unless its commit failed *)
(* or the daemon died, and is not in the directory under a name.           *)
PartsAreOwned ==
  /\ \A i \in parts \ stale : \E c \in Calls : task[c].kind = "upload" /\ task[c].ino = i
  /\ \A n \in Names : entry[n] \notin parts
FilesAreKept == ReportedIsWhole /\ PartsAreOwned

(* "An interrupted upload never leaves a truncated file where a good one   *)
(* used to be" (docs/english/files.md:50, files/mod.rs:855-857).           *)
NeverTruncated ==
  \A n \in Names :
    entry[n] # NoFile /\ content[entry[n]].by = "upload" => content[entry[n]].whole
=============================================================================
