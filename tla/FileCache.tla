----------------------------- MODULE FileCache ------------------------------
(***************************************************************************)
(* The cache of downloaded attachments: get_file and get_thread calls that *)
(* fetch the same or different files at the same time, requests to the     *)
(* file endpoint, downloads that break off and processes that are killed.  *)
(*                                                                         *)
(* Files on disk are inodes with so many chunks written.  A temporary file *)
(* is named by its inode: CreateTemp's random names do not come up twice.  *)
(* A download that ends without an error has delivered the whole file, as  *)
(* the Bot API's Content-Length makes sure.                                *)
(***************************************************************************)
EXTENDS Naturals, FiniteSets

CONSTANTS
  Calls,      \* tool calls and download requests
  Files,      \* file_unique_ids
  Keys,       \* link keys, one per auth token
  Size,       \* chunks of a whole file
  TTL,        \* life of a link
  MaxInodes,  \* bound: temporary files created
  MaxTime,    \* bound: ticks of the clock
  MaxLinks    \* bound: links handed out

ASSUME FileCacheAssumption ==
  Size \in Nat \ {0} /\ TTL \in Nat /\ MaxInodes \in Nat /\ MaxTime \in Nat /\ MaxLinks \in Nat

VARIABLES
  \* the data directory
  entries,    \* Files -> the inode at its cache path, 0: not cached
  temps,      \* inodes in the temp directory
  data,       \* inode -> chunks written
  lastInode,
  litter,     \* history: temporary files a killed process left
  \* outside
  now,
  links,      \* download urls handed out
  \* the process
  key,        \* derived from its auth token
  calls       \* Calls -> where it is, its file, its descriptor, what it read

disk == <<entries, temps, data, lastInode, litter>>
vars == <<disk, now, links, key, calls>>

Inodes == 1..MaxInodes
Idle == [pc |-> "idle"]
Saving == {"write", "close", "rename", "remove"}

At(c, pc) == calls[c].pc = pc
Goto(c, pc) == calls' = [calls EXCEPT ![c].pc = pc]

-----------------------------------------------------------------------------
Init ==
  /\ entries = [f \in Files |-> 0] /\ temps = {} /\ data = [n \in Inodes |-> 0]
  /\ lastInode = 0 /\ litter = {}
  /\ now = 0 /\ links = {} /\ key \in Keys
  /\ calls = [c \in Calls |-> Idle]

Tick == now < MaxTime /\ now' = now + 1 /\ UNCHANGED <<disk, links, key, calls>>

(* The process is killed and started again, maybe with another token.      *)
Restart ==
  /\ calls' = [c \in Calls |-> Idle]
  /\ key' \in Keys
  /\ litter' = temps
  /\ UNCHANGED <<entries, temps, data, lastInode, now, links>>

(* cachedFile: a hit, or the attachment has to be fetched. *)
Fetch(c) ==
  /\ At(c, "idle")
  /\ \E f \in Files :
       calls' = [calls EXCEPT ![c] = [pc |-> IF entries[f] # 0 THEN "ready" ELSE "resolve",
                                      file |-> f, fd |-> 0, stored |-> FALSE, size |-> Size, got |-> Size]]
  /\ UNCHANGED <<disk, now, links, key>>

(* getFile fails, or the temp file cannot be created. *)
Unresolved(c) == At(c, "resolve") /\ Goto(c, "failed") /\ UNCHANGED <<disk, now, links, key>>

(* Mutant of CreateTemp: one temporary name per file, truncated if taken.  *)
CreatePart(c) ==
  /\ At(c, "resolve")
  /\ \/ \E o \in Calls \ {c} : /\ calls[o].pc \in Saving /\ calls[o].file = calls[c].file
                               /\ calls[o].fd \in temps
                               /\ data' = [data EXCEPT ![calls[o].fd] = 0]
                               /\ calls' = [calls EXCEPT ![c].pc = "write", ![c].fd = calls[o].fd]
                               /\ UNCHANGED <<temps, lastInode>>
     \/ /\ lastInode < MaxInodes /\ lastInode' = lastInode + 1
        /\ temps' = temps \union {lastInode'}
        /\ calls' = [calls EXCEPT ![c].pc = "write", ![c].fd = lastInode']
        /\ UNCHANGED data
  /\ UNCHANGED <<entries, litter, now, links, key>>

(* SaveFile begins: a temporary file of its own. *)
CreateTemp(c) ==
  /\ At(c, "resolve") /\ lastInode < MaxInodes
  /\ lastInode' = lastInode + 1
  /\ temps' = temps \union {lastInode'}
  /\ calls' = [calls EXCEPT ![c].pc = "write", ![c].fd = lastInode']
  /\ UNCHANGED <<entries, data, litter, now, links, key>>

Download(c) ==
  /\ At(c, "write") /\ data[calls[c].fd] < Size
  /\ data' = [data EXCEPT ![calls[c].fd] = @ + 1]
  /\ UNCHANGED <<entries, temps, lastInode, litter, now, links, key, calls>>

Downloaded(c) ==
  /\ At(c, "write") /\ data[calls[c].fd] = Size
  /\ Goto(c, "close")
  /\ UNCHANGED <<disk, now, links, key>>

(* Mutant of Broken: what was written is kept. *)
BrokenKeeps(c) ==
  /\ calls[c].pc \in {"write", "close"}
  /\ Goto(c, "failed")
  /\ UNCHANGED <<disk, now, links, key>>

(* The download, the disk or the caller's context gives out. *)
Broken(c) ==
  /\ calls[c].pc \in {"write", "close"}
  /\ Goto(c, "remove")
  /\ UNCHANGED <<disk, now, links, key>>

Closed(c) == At(c, "close") /\ Goto(c, "rename") /\ UNCHANGED <<disk, now, links, key>>

Rename(c) ==
  /\ At(c, "rename") /\ calls[c].fd \in temps
  /\ entries' = [entries EXCEPT ![calls[c].file] = calls[c].fd]
  /\ temps' = temps \ {calls[c].fd}
  /\ calls' = [calls EXCEPT ![c].pc = "remove", ![c].stored = TRUE]
  /\ UNCHANGED <<data, lastInode, litter, now, links, key>>

RenameFails(c) == At(c, "rename") /\ Goto(c, "remove") /\ UNCHANGED <<disk, now, links, key>>

(* Mutant of Remove: a failed download clears the cache path as well. *)
RemoveEntry(c) ==
  /\ At(c, "remove")
  /\ temps' = temps \ {calls[c].fd}
  /\ entries' = IF calls[c].stored THEN entries ELSE [entries EXCEPT ![calls[c].file] = 0]
  /\ Goto(c, IF calls[c].stored THEN "ready" ELSE "failed")
  /\ UNCHANGED <<data, lastInode, litter, now, links, key>>

(* The deferred close and remove. *)
Remove(c) ==
  /\ At(c, "remove")
  /\ temps' = temps \ {calls[c].fd}
  /\ Goto(c, IF calls[c].stored THEN "ready" ELSE "failed")
  /\ UNCHANGED <<entries, data, lastInode, litter, now, links, key>>

(* What a path or a descriptor holds, nothing when it is not there. *)
Content(inode) == IF inode = 0 THEN 0 ELSE data[inode]

(* getFile, threadImage: the size on disk, which decides what is inlined.  *)
Stat(c) ==
  /\ At(c, "ready")
  /\ calls' = [calls EXCEPT ![c].pc = "stat", ![c].size = Content(entries[calls[c].file])]
  /\ UNCHANGED <<disk, now, links, key>>

(* inlineContent reads the file by its path; a thread reads nothing else.  *)
Inline(c) ==
  /\ At(c, "stat")
  /\ calls' = [calls EXCEPT ![c].pc = "done", ![c].got = Content(entries[calls[c].file])]
  /\ UNCHANGED <<disk, now, links, key>>

(* fileURL *)
Link(c) ==
  /\ At(c, "stat") /\ Cardinality(links) < MaxLinks
  /\ links' = links \union {[file |-> calls[c].file, exp |-> now + TTL, key |-> key]}
  /\ Goto(c, "done")
  /\ UNCHANGED <<disk, now, key>>

(* fileAuth: whether the link is ours comes before whether it has expired. *)
Request(c) ==
  /\ At(c, "idle")
  /\ \E l \in links :
       calls' = [calls EXCEPT ![c] = [pc |-> CASE l.key # key -> "401"
                                              [] l.key = key /\ now > l.exp -> "410"
                                              [] OTHER -> "open",
                                      file |-> l.file, fd |-> 0, stored |-> FALSE, size |-> Size, got |-> Size]]
  /\ UNCHANGED <<disk, now, links, key>>

(* serveFile: looked up, opened, and sent from what was opened. *)
Open(c) ==
  /\ At(c, "open")
  /\ calls' = [calls EXCEPT ![c].pc = IF entries[calls[c].file] = 0 THEN "404" ELSE "send",
                            ![c].fd = entries[calls[c].file]]
  /\ UNCHANGED <<disk, now, links, key>>

Send(c) ==
  /\ At(c, "send")
  /\ calls' = [calls EXCEPT ![c].pc = "done", ![c].got = Content(calls[c].fd)]
  /\ UNCHANGED <<disk, now, links, key>>

Finish(c) ==
  /\ calls[c].pc \in {"done", "failed", "401", "410", "404"}
  /\ calls' = [calls EXCEPT ![c] = Idle]
  /\ UNCHANGED <<disk, now, links, key>>

SaveFile(c) ==
  \/ CreateTemp(c) \/ Download(c) \/ Downloaded(c) \/ Broken(c) \/ Closed(c)
  \/ Rename(c) \/ RenameFails(c) \/ Remove(c)

GetFile(c) == Fetch(c) \/ Unresolved(c) \/ SaveFile(c) \/ Stat(c) \/ Inline(c) \/ Link(c)

ServeFile(c) == Request(c) \/ Open(c) \/ Send(c)

Next == Tick \/ Restart \/ \E c \in Calls : GetFile(c) \/ ServeFile(c) \/ Finish(c)

Spec == Init /\ [][Next]_vars

-----------------------------------------------------------------------------
(* "An interrupted download never leaves a truncated file behind": what    *)
(* the cache holds is whole, with fetches of one file side by side and     *)
(* kills at any point (store/files.go:46-78).                              *)
CachedWhole == \A f \in Files : entries[f] # 0 => data[entries[f]] = Size

(* Whoever reads an attachment, from a path looked up earlier or from a    *)
(* descriptor opened before a second download replaced the file, reads all *)
(* of it, and the size it reported is that of what it read                 *)
(* (server/files.go:84-93, 259-288, 396-425).                              *)
ReadsWhole ==
  \A c \in Calls : calls[c] # Idle => calls[c].size = Size /\ calls[c].got = Size

(* A link that has not expired leads to its file, after failed downloads   *)
(* of the same file and restarts as well: no valid link is answered 404    *)
(* (server.go:198-225, server/files.go:396-408).                           *)
LinksHonoured == \A c \in Calls : ~At(c, "404")

(* Temporary files belong to a download at work; only a killed process     *)
(* leaves one behind, since SaveFile removes its own on every path out     *)
(* (store/files.go:63-66).                                                 *)
TempsAccounted ==
  temps \subseteq litter \union {calls[c].fd : c \in {c \in Calls : calls[c].pc \in Saving}}
=============================================================================
