--------------------------- MODULE FileCacheProofs --------------------------
(***************************************************************************)
(* For any number of calls, files, chunks, keys and links: what is cached  *)
(* and read is whole, no valid link leads nowhere, and every temporary     *)
(* file has an owner or a killed process to blame.                         *)
(***************************************************************************)
EXTENDS FileCache, TLAPS

PCs ==
  {"resolve", "write", "close", "rename", "remove", "ready", "stat", "open", "send",
   "done", "failed", "401", "410", "404"}

Call ==
  [pc : PCs, file : Files, fd : 0..MaxInodes, stored : BOOLEAN, size : {Size}, got : {Size}]

Cached(f, E) == E[f] # 0
Whole(n, D) == n \in Inodes /\ D[n] = Size

(* What a call relies on, wherever it is: E are the entries, D the data.   *)
Sound(x, E, D) ==
  /\ x.pc \in Saving => x.fd \in Inodes
  /\ x.pc \in {"close", "rename", "send"} => Whole(x.fd, D)
  /\ x.stored \/ x.pc \in {"ready", "stat", "open"} => Cached(x.file, E)
  /\ x.pc # "404"

CacheInv ==
  /\ entries \in [Files -> 0..MaxInodes]
  /\ data \in [Inodes -> 0..Size]
  /\ lastInode \in 0..MaxInodes
  /\ calls \in [Calls -> {Idle} \union Call]
  /\ \A f \in Files : Cached(f, entries) => Whole(entries[f], data)
  /\ \A l \in links : l.file \in Files /\ Cached(l.file, entries)
  /\ \A c \in Calls : calls[c] # Idle => Sound(calls[c], entries, data)
  /\ TempsAccounted

-----------------------------------------------------------------------------
(* A step that takes nothing out of the cache and truncates no file keeps  *)
(* what the other calls and the links rely on.                             *)
Grows ==
  /\ \A f \in Files : Cached(f, entries) => Cached(f, entries')
  /\ \A n \in Inodes : data[n] = Size => data'[n] = Size

LEMMA SoundStays ==
  ASSUME Grows, NEW x \in Call, Sound(x, entries, data) PROVE Sound(x, entries', data')
  BY DEF Grows, Sound, Whole, Call

LEMMA NotIdle == Idle \notin Call /\ Idle.pc = "idle" /\ \A x \in Call : x.pc # "idle"
<1>1. Idle.pc = "idle" /\ \A x \in Call : x.pc \in PCs
  BY DEF Idle, Call
<1>2. "idle" \notin PCs
  BY DEF PCs
<1> QED
  BY <1>1, <1>2

(* One call moves to a sound place, the rest stay where they are.          *)
LEMMA OneMoves ==
  ASSUME CacheInv, Grows, NEW c \in Calls, NEW x \in {Idle} \union Call,
         calls' = [calls EXCEPT ![c] = x],
         x # Idle => Sound(x, entries', data')
  PROVE  /\ calls' \in [Calls -> {Idle} \union Call]
         /\ \A d \in Calls : calls'[d] # Idle => Sound(calls'[d], entries', data')
<1>1. calls' \in [Calls -> {Idle} \union Call]
  BY DEF CacheInv
<1>2. ASSUME NEW d \in Calls, calls'[d] # Idle PROVE Sound(calls'[d], entries', data')
  <2>1. CASE d = c
    <3>1. calls'[d] = x
      BY <2>1 DEF CacheInv
    <3> QED
      BY <1>2, <3>1
  <2>2. CASE d # c
    <3>1. calls'[d] = calls[d] /\ calls[d] \in Call /\ Sound(calls[d], entries, data)
      BY <1>2, <2>2 DEF CacheInv
    <3> QED
      BY <3>1, SoundStays
  <2> QED
    BY <2>1, <2>2
<1> QED
  BY <1>1, <1>2

(* Temporary files stay accounted for when one call moves on without       *)
(* leaving one behind.                                                     *)
LEMMA TempsStay ==
  ASSUME CacheInv, NEW c \in Calls, NEW x \in {Idle} \union Call,
         calls' = [calls EXCEPT ![c] = x], litter' = litter, temps' \subseteq temps,
         calls[c].pc \in Saving => (x.pc \in Saving /\ x.fd = calls[c].fd) \/ calls[c].fd \notin temps'
  PROVE  TempsAccounted'
<1> SUFFICES ASSUME NEW n \in temps', n \notin litter
             PROVE  \E d \in Calls : calls'[d].pc \in Saving /\ calls'[d].fd = n
  BY DEF TempsAccounted
<1>1. PICK d \in Calls : calls[d].pc \in Saving /\ calls[d].fd = n
  BY DEF CacheInv, TempsAccounted
<1>2. CASE d = c
  <2>1. calls'[c] = x
    BY DEF CacheInv
  <2> QED
    BY <1>1, <1>2, <2>1
<1>3. CASE d # c
  <2>1. calls'[d] = calls[d]
    BY <1>3 DEF CacheInv
  <2> QED
    BY <1>1, <2>1
<1> QED
  BY <1>2, <1>3

-----------------------------------------------------------------------------
LEMMA InitCacheInv == Init => CacheInv
<1> SUFFICES ASSUME Init PROVE CacheInv
  OBVIOUS
<1> USE FileCacheAssumption
<1>1. /\ entries \in [Files -> 0..MaxInodes] /\ data \in [Inodes -> 0..Size]
      /\ lastInode \in 0..MaxInodes /\ links = {}
  BY DEF Init, Inodes
<1>2. \A f \in Files : ~Cached(f, entries)
  BY DEF Init, Cached
<1>3. \A c \in Calls : calls[c] = Idle
  BY DEF Init
<1>4. calls \in [Calls -> {Idle} \union Call] /\ TempsAccounted
  BY DEF Init, TempsAccounted
<1> QED
  BY <1>1, <1>2, <1>3, <1>4 DEF CacheInv

LEMMA TickInv == CacheInv /\ Tick => CacheInv'
  BY DEF CacheInv, Tick, disk, TempsAccounted, Cached, Whole, Sound

LEMMA RestartInv == CacheInv /\ Restart => CacheInv'
<1> SUFFICES ASSUME CacheInv, Restart PROVE CacheInv'
  OBVIOUS
<1>1. \A c \in Calls : calls'[c] = Idle
  BY DEF Restart
<1>2. calls' \in [Calls -> {Idle} \union Call] /\ TempsAccounted'
  BY DEF Restart, TempsAccounted
<1>3. UNCHANGED <<entries, data, lastInode, links>>
  BY DEF Restart
<1> QED
  BY <1>1, <1>2, <1>3 DEF CacheInv, Inodes

(* Steps that touch neither the disk nor the links: the call moves on.     *)
LEMMA CallMoves ==
  ASSUME CacheInv, NEW c \in Calls, NEW x \in {Idle} \union Call,
         calls' = [calls EXCEPT ![c] = x], UNCHANGED <<disk, links>>,
         x # Idle => Sound(x, entries, data),
         calls[c].pc \in Saving => x.pc \in Saving /\ x.fd = calls[c].fd
  PROVE  CacheInv'
<1>1. Grows
  BY DEF Grows, disk
<1>2. UNCHANGED <<entries, temps, data, lastInode, litter, links>>
  BY DEF disk
<1>3. TempsAccounted'
  BY <1>2, TempsStay
<1>4. /\ calls' \in [Calls -> {Idle} \union Call]
      /\ \A d \in Calls : calls'[d] # Idle => Sound(calls'[d], entries', data')
  BY <1>1, <1>2, OneMoves
<1> QED
  BY <1>2, <1>3, <1>4 DEF CacheInv, Inodes

(* The place a call moves to keeps file, descriptor and what it has read.  *)
LEMMA Moved ==
  ASSUME CacheInv, NEW c \in Calls, calls[c].pc # "idle", NEW pc \in PCs
  PROVE  /\ calls[c] \in Call /\ Sound(calls[c], entries, data)
         /\ [calls[c] EXCEPT !.pc = pc] \in Call
         /\ [calls[c] EXCEPT !.pc = pc].pc = pc
         /\ [calls[c] EXCEPT !.pc = pc].fd = calls[c].fd
         /\ [calls[c] EXCEPT !.pc = pc].file = calls[c].file
         /\ [calls[c] EXCEPT !.pc = pc].stored = calls[c].stored
         /\ [calls EXCEPT ![c].pc = pc] = [calls EXCEPT ![c] = [calls[c] EXCEPT !.pc = pc]]
<1>1. calls[c] \in Call /\ calls[c] # Idle
  BY NotIdle DEF CacheInv
<1> QED
  BY <1>1 DEF CacheInv, Call

-----------------------------------------------------------------------------
(* The steps of a call that only move it.                                  *)
MoveTo(c, pc) == Goto(c, pc) /\ UNCHANGED <<disk, now, links, key>>

LEMMA MoveInv ==
  ASSUME CacheInv, NEW c \in Calls, calls[c].pc # "idle", NEW pc \in PCs, MoveTo(c, pc),
         Sound([calls[c] EXCEPT !.pc = pc], entries, data),
         calls[c].pc \in Saving => pc \in Saving
  PROVE  CacheInv'
<1> DEFINE x == [calls[c] EXCEPT !.pc = pc]
<1>1. /\ x \in Call /\ x.pc = pc /\ x.fd = calls[c].fd
      /\ calls' = [calls EXCEPT ![c] = x] /\ UNCHANGED <<disk, links>>
  BY Moved DEF MoveTo, Goto
<1>2. Sound(x, entries, data)
  OBVIOUS
<1>3. calls[c].pc \in Saving => x.pc \in Saving /\ x.fd = calls[c].fd
  BY <1>1
<1> HIDE DEF x
<1> QED
  BY <1>1, <1>2, <1>3, CallMoves

LEMMA MovesInv ==
  ASSUME CacheInv, NEW c \in Calls,
         \/ Unresolved(c) \/ Downloaded(c) \/ Broken(c) \/ Closed(c) \/ RenameFails(c)
  PROVE  CacheInv'
<1>1. calls[c].pc \in {"resolve", "write", "close", "rename"}
  BY DEF Unresolved, Downloaded, Broken, Closed, RenameFails, At
<1>2. calls[c].pc # "idle"
  BY <1>1
<1>3. calls[c] \in Call /\ Sound(calls[c], entries, data)
  BY <1>2, Moved DEF PCs
<1>4. CASE Unresolved(c)
  <2>1. calls[c].pc = "resolve" /\ MoveTo(c, "failed") /\ "failed" \in PCs
    BY <1>4 DEF Unresolved, MoveTo, At, PCs
  <2>2. Sound([calls[c] EXCEPT !.pc = "failed"], entries, data)
    BY <1>2, <1>3, <2>1, Moved DEF Sound, Saving
  <2> QED
    BY <1>2, <2>1, <2>2, MoveInv DEF Saving
<1>5. CASE Downloaded(c)
  <2>1. /\ calls[c].pc = "write" /\ MoveTo(c, "close") /\ "close" \in PCs
        /\ data[calls[c].fd] = Size
    BY <1>5 DEF Downloaded, MoveTo, At, PCs
  <2>2. Sound([calls[c] EXCEPT !.pc = "close"], entries, data)
    BY <1>2, <1>3, <2>1, Moved DEF Sound, Saving, Whole
  <2> QED
    BY <1>2, <2>1, <2>2, MoveInv DEF Saving
<1>6. CASE Broken(c)
  <2>1. calls[c].pc \in {"write", "close"} /\ MoveTo(c, "remove") /\ "remove" \in PCs
    BY <1>6 DEF Broken, MoveTo, PCs
  <2>2. Sound([calls[c] EXCEPT !.pc = "remove"], entries, data)
    BY <1>2, <1>3, <2>1, Moved DEF Sound, Saving
  <2> QED
    BY <1>2, <2>1, <2>2, MoveInv DEF Saving
<1>7. CASE Closed(c)
  <2>1. calls[c].pc = "close" /\ MoveTo(c, "rename") /\ "rename" \in PCs
    BY <1>7 DEF Closed, MoveTo, At, PCs
  <2>2. Sound([calls[c] EXCEPT !.pc = "rename"], entries, data)
    BY <1>2, <1>3, <2>1, Moved DEF Sound, Saving
  <2> QED
    BY <1>2, <2>1, <2>2, MoveInv DEF Saving
<1>8. CASE RenameFails(c)
  <2>1. calls[c].pc = "rename" /\ MoveTo(c, "remove") /\ "remove" \in PCs
    BY <1>8 DEF RenameFails, MoveTo, At, PCs
  <2>2. Sound([calls[c] EXCEPT !.pc = "remove"], entries, data)
    BY <1>2, <1>3, <2>1, Moved DEF Sound, Saving
  <2> QED
    BY <1>2, <2>1, <2>2, MoveInv DEF Saving
<1> QED
  BY <1>4, <1>5, <1>6, <1>7, <1>8

(* A call that begins knows its file, and has read nothing.                *)
LEMMA FetchInv == ASSUME CacheInv, NEW c \in Calls, Fetch(c) PROVE CacheInv'
<1>1. PICK f \in Files :
        calls' = [calls EXCEPT ![c] = [pc |-> IF entries[f] # 0 THEN "ready" ELSE "resolve",
                                       file |-> f, fd |-> 0, stored |-> FALSE, size |-> Size, got |-> Size]]
  BY DEF Fetch
<1> DEFINE pc == IF entries[f] # 0 THEN "ready" ELSE "resolve"
           x == [pc |-> pc, file |-> f, fd |-> 0, stored |-> FALSE, size |-> Size, got |-> Size]
<1>2. pc \in PCs /\ 0 \in 0..MaxInodes
  BY FileCacheAssumption DEF PCs
<1>3. x \in Call
  BY <1>2 DEF Call
<1>4. Sound(x, entries, data)
  BY DEF Sound, Saving, Cached
<1>5. calls[c].pc \notin Saving /\ UNCHANGED <<disk, links>>
  BY DEF Fetch, At, Saving
<1> QED
  BY <1>1, <1>3, <1>4, <1>5, CallMoves

LEMMA RequestInv == ASSUME CacheInv, NEW c \in Calls, Request(c) PROVE CacheInv'
<1>1. PICK l \in links :
        calls' = [calls EXCEPT ![c] = [pc |-> CASE l.key # key -> "401"
                                               [] l.key = key /\ now > l.exp -> "410"
                                               [] OTHER -> "open",
                                       file |-> l.file, fd |-> 0, stored |-> FALSE, size |-> Size, got |-> Size]]
  BY DEF Request
<1> DEFINE pc == CASE l.key # key -> "401" [] l.key = key /\ now > l.exp -> "410" [] OTHER -> "open"
           x == [pc |-> pc, file |-> l.file, fd |-> 0, stored |-> FALSE, size |-> Size, got |-> Size]
<1>2. pc \in {"401", "410", "open"} /\ 0 \in 0..MaxInodes
  BY FileCacheAssumption
<1>3. l.file \in Files /\ Cached(l.file, entries)
  BY DEF CacheInv
<1>4. calls' = [calls EXCEPT ![c] = x]
  BY <1>1
<1> HIDE DEF pc
<1>5. x \in Call
  BY <1>2, <1>3 DEF Call, PCs
<1>6. Sound(x, entries, data)
  BY <1>2, <1>3 DEF Sound, Saving
<1>7. calls[c].pc \notin Saving /\ UNCHANGED <<disk, links>>
  BY DEF Request, At, Saving
<1> QED
  BY <1>4, <1>5, <1>6, <1>7, CallMoves

LEMMA FinishInv == ASSUME CacheInv, NEW c \in Calls, Finish(c) PROVE CacheInv'
<1>1. calls[c].pc \notin Saving /\ UNCHANGED <<disk, links>> /\ calls' = [calls EXCEPT ![c] = Idle]
  BY DEF Finish, Saving
<1> QED
  BY <1>1, CallMoves

-----------------------------------------------------------------------------
(* What is found on disk is whole: sizes and contents read are Size.       *)
LEMMA ReadInv ==
  ASSUME CacheInv, NEW c \in Calls, Stat(c) \/ Inline(c) \/ Open(c) \/ Send(c)
  PROVE  CacheInv'
<1>1. calls[c].pc \in {"ready", "stat", "open", "send"} /\ UNCHANGED <<disk, links>>
  BY DEF Stat, Inline, Open, Send, At
<1>2. calls[c] \in Call /\ Sound(calls[c], entries, data) /\ calls[c].file \in Files
  BY <1>1, NotIdle DEF CacheInv, Call
<1>3. entries[calls[c].file] \in 0..MaxInodes
  BY <1>2 DEF CacheInv
<1>4. calls[c].pc \in {"ready", "stat", "open"} =>
        entries[calls[c].file] # 0 /\ Whole(entries[calls[c].file], data)
  BY <1>2 DEF Sound, Cached, CacheInv
<1>5. CASE Stat(c)
  <2> DEFINE x == [calls[c] EXCEPT !.pc = "stat", !.size = Content(entries[calls[c].file])]
  <2>1. Content(entries[calls[c].file]) = Size /\ calls[c].pc = "ready"
    BY <1>4, <1>5 DEF Content, Whole, Stat, At
  <2>2. calls' = [calls EXCEPT ![c] = x]
    BY <1>5 DEF Stat, CacheInv
  <2>3. x \in Call /\ x.pc = "stat" /\ x.file = calls[c].file /\ x.stored = calls[c].stored
    BY <1>2, <2>1 DEF Call, PCs
  <2>4. Sound(x, entries, data)
    BY <1>4, <2>1, <2>3 DEF Sound, Saving, Cached
  <2> HIDE DEF x
  <2> QED
    BY <1>1, <2>1, <2>2, <2>3, <2>4, CallMoves DEF Saving
<1>6. CASE Inline(c)
  <2> DEFINE x == [calls[c] EXCEPT !.pc = "done", !.got = Content(entries[calls[c].file])]
  <2>1. Content(entries[calls[c].file]) = Size /\ calls[c].pc = "stat"
    BY <1>4, <1>6 DEF Content, Whole, Inline, At
  <2>2. calls' = [calls EXCEPT ![c] = x]
    BY <1>6 DEF Inline, CacheInv
  <2>3. x \in Call /\ x.pc = "done" /\ x.file = calls[c].file /\ x.stored = calls[c].stored
    BY <1>2, <2>1 DEF Call, PCs
  <2>4. Sound(x, entries, data)
    BY <1>2, <2>3 DEF Sound, Saving
  <2> HIDE DEF x
  <2> QED
    BY <1>1, <2>1, <2>2, <2>3, <2>4, CallMoves DEF Saving
<1>7. CASE Open(c)
  <2> DEFINE x == [calls[c] EXCEPT !.pc = "send", !.fd = entries[calls[c].file]]
  <2>1. calls[c].pc = "open"
    BY <1>7 DEF Open, At
  <2>2. calls' = [calls EXCEPT ![c] = x]
    BY <1>4, <1>7, <2>1 DEF Open, CacheInv
  <2>3. /\ x \in Call /\ x.pc = "send" /\ x.fd = entries[calls[c].file]
        /\ x.file = calls[c].file /\ x.stored = calls[c].stored
    BY <1>2, <1>3 DEF Call, PCs
  <2>4. Sound(x, entries, data)
    BY <1>2, <1>4, <2>1, <2>3 DEF Sound, Saving
  <2> HIDE DEF x
  <2> QED
    BY <1>1, <2>1, <2>2, <2>3, <2>4, CallMoves DEF Saving
<1>8. CASE Send(c)
  <2> DEFINE x == [calls[c] EXCEPT !.pc = "done", !.got = Content(calls[c].fd)]
  <2>1. calls[c].pc = "send"
    BY <1>8 DEF Send, At
  <2>2. Content(calls[c].fd) = Size
    <3>1. calls[c].fd \in Inodes /\ data[calls[c].fd] = Size
      BY <1>2, <2>1 DEF Sound, Whole
    <3>2. calls[c].fd # 0
      BY <3>1, FileCacheAssumption DEF Inodes
    <3> QED
      BY <3>1, <3>2 DEF Content
  <2>3. calls' = [calls EXCEPT ![c] = x]
    BY <1>8 DEF Send, CacheInv
  <2>4. x \in Call /\ x.pc = "done" /\ x.file = calls[c].file /\ x.stored = calls[c].stored
    BY <1>2, <2>2 DEF Call, PCs
  <2>5. Sound(x, entries, data)
    BY <1>2, <2>4 DEF Sound, Saving
  <2> HIDE DEF x
  <2> QED
    BY <1>1, <2>1, <2>3, <2>4, <2>5, CallMoves DEF Saving
<1> QED
  BY <1>5, <1>6, <1>7, <1>8

(* A link is handed out for a file that is there, and files stay there.    *)
LEMMA LinkInv == ASSUME CacheInv, NEW c \in Calls, Link(c) PROVE CacheInv'
<1>1. calls[c].pc = "stat" /\ "done" \in PCs
  BY DEF Link, At, PCs
<1>2. calls[c] \in Call /\ Sound(calls[c], entries, data)
  BY <1>1, NotIdle DEF CacheInv
<1> DEFINE x == [calls[c] EXCEPT !.pc = "done"]
<1>3. x \in Call /\ x.pc = "done" /\ x.file = calls[c].file /\ x.stored = calls[c].stored
  BY <1>1, <1>2, Moved
<1>4. Sound(x, entries, data)
  BY <1>2, <1>3 DEF Sound, Saving
<1>5. calls' = [calls EXCEPT ![c] = x] /\ UNCHANGED <<entries, temps, data, lastInode, litter>>
  BY <1>1, Moved DEF Link, Goto, disk
<1> HIDE DEF x
<1>6. Grows
  BY <1>5 DEF Grows
<1>7. /\ calls' \in [Calls -> {Idle} \union Call]
      /\ \A d \in Calls : calls'[d] # Idle => Sound(calls'[d], entries', data')
  BY <1>3, <1>4, <1>5, <1>6, OneMoves
<1>8. TempsAccounted'
  BY <1>1, <1>3, <1>5, TempsStay DEF Saving
<1>9. calls[c].file \in Files /\ Cached(calls[c].file, entries)
  BY <1>1, <1>2 DEF Call, Sound
<1>10. \A l \in links' : l.file \in Files /\ Cached(l.file, entries)
  BY <1>9 DEF Link, CacheInv
<1> QED
  BY <1>5, <1>7, <1>8, <1>10 DEF CacheInv, Inodes

-----------------------------------------------------------------------------
LEMMA CreateTempInv == ASSUME CacheInv, NEW c \in Calls, CreateTemp(c) PROVE CacheInv'
<1> DEFINE n == lastInode + 1
           x == [calls[c] EXCEPT !.pc = "write", !.fd = n]
<1>1. calls[c].pc = "resolve" /\ calls[c] \in Call /\ Sound(calls[c], entries, data)
  BY NotIdle DEF CreateTemp, At, CacheInv
<1>2. n \in Inodes /\ n \in 0..MaxInodes
  BY FileCacheAssumption DEF CreateTemp, CacheInv, Inodes
<1>3. /\ lastInode' = n /\ temps' = temps \union {n} /\ calls' = [calls EXCEPT ![c] = x]
      /\ UNCHANGED <<entries, data, litter, links>>
  BY DEF CreateTemp, CacheInv
<1>4. x \in Call /\ x.pc = "write" /\ x.fd = n /\ x.file = calls[c].file /\ x.stored = calls[c].stored
  BY <1>1, <1>2 DEF Call, PCs
<1>5. Sound(x, entries, data)
  BY <1>1, <1>2, <1>4 DEF Sound
<1> HIDE DEF x
<1>6. Grows
  BY <1>3 DEF Grows
<1>7. /\ calls' \in [Calls -> {Idle} \union Call]
      /\ \A d \in Calls : calls'[d] # Idle => Sound(calls'[d], entries', data')
  BY <1>3, <1>4, <1>5, <1>6, OneMoves
<1>8. TempsAccounted'
  <2> SUFFICES ASSUME NEW t \in temps', t \notin litter
               PROVE  \E d \in Calls : calls'[d].pc \in Saving /\ calls'[d].fd = t
    BY <1>3 DEF TempsAccounted
  <2>1. calls'[c] = x
    BY <1>3 DEF CacheInv
  <2>2. CASE t = n
    BY <1>4, <2>1, <2>2 DEF Saving
  <2>3. CASE t \in temps
    <3>1. PICK d \in Calls : calls[d].pc \in Saving /\ calls[d].fd = t
      BY <2>3 DEF CacheInv, TempsAccounted
    <3>2. d # c
      BY <1>1, <3>1 DEF Saving
    <3>3. calls'[d] = calls[d]
      BY <1>3, <3>2 DEF CacheInv
    <3> QED
      BY <3>1, <3>3
  <2> QED
    BY <1>3, <2>2, <2>3
<1> QED
  BY <1>2, <1>3, <1>7, <1>8 DEF CacheInv, Inodes

(* A chunk more never undoes a whole file.                                 *)
LEMMA DownloadInv == ASSUME CacheInv, NEW c \in Calls, Download(c) PROVE CacheInv'
<1>1. calls[c].pc = "write" /\ calls[c] \in Call /\ Sound(calls[c], entries, data)
  BY NotIdle DEF Download, At, CacheInv
<1> DEFINE n == calls[c].fd
<1>2. n \in Inodes /\ data[n] < Size /\ data[n] \in 0..Size
  BY <1>1 DEF Sound, Saving, Download, CacheInv
<1>3. /\ data' = [data EXCEPT ![n] = data[n] + 1]
      /\ UNCHANGED <<entries, temps, lastInode, litter, links, calls>>
  BY DEF Download
<1> HIDE DEF n
<1>4. data' \in [Inodes -> 0..Size] /\ \A m \in Inodes : data[m] = Size => data'[m] = Size
  BY <1>2, <1>3, FileCacheAssumption DEF CacheInv
<1>5. Grows
  BY <1>3, <1>4 DEF Grows
<1>6. \A d \in Calls : calls'[d] # Idle => Sound(calls'[d], entries', data')
  BY <1>3, <1>5, SoundStays DEF CacheInv
<1>7. \A f \in Files : Cached(f, entries') => Whole(entries'[f], data')
  BY <1>3, <1>4 DEF CacheInv, Whole
<1>8. TempsAccounted'
  BY <1>3 DEF CacheInv, TempsAccounted
<1> QED
  BY <1>3, <1>4, <1>6, <1>7, <1>8 DEF CacheInv

(* The only write to the cache path: a whole file takes the place of what  *)
(* was there.                                                              *)
LEMMA RenameInv == ASSUME CacheInv, NEW c \in Calls, Rename(c) PROVE CacheInv'
<1>1. calls[c].pc = "rename" /\ calls[c] \in Call /\ Sound(calls[c], entries, data)
  BY NotIdle DEF Rename, At, CacheInv
<1> DEFINE n == calls[c].fd
           f == calls[c].file
           x == [calls[c] EXCEPT !.pc = "remove", !.stored = TRUE]
<1>2. Whole(n, data) /\ f \in Files /\ n \in 0..MaxInodes /\ n # 0
  BY <1>1, FileCacheAssumption DEF Sound, Saving, Call, Whole, Inodes
<1>3. /\ entries' = [entries EXCEPT ![f] = n] /\ temps' = temps \ {n}
      /\ calls' = [calls EXCEPT ![c] = x] /\ UNCHANGED <<data, lastInode, litter, links>>
  BY DEF Rename, CacheInv
<1>4. x \in Call /\ x.pc = "remove" /\ x.fd = n /\ x.file = f
  BY <1>1 DEF Call, PCs
<1> HIDE DEF n, f, x
<1>5. /\ entries' \in [Files -> 0..MaxInodes]
      /\ \A g \in Files : entries'[g] = IF g = f THEN n ELSE entries[g]
  BY <1>2, <1>3 DEF CacheInv
<1>6. Grows
  BY <1>2, <1>3, <1>5 DEF Grows, Cached
<1>7. Sound(x, entries', data')
  BY <1>2, <1>4, <1>5 DEF Sound, Whole, Cached
<1>8. /\ calls' \in [Calls -> {Idle} \union Call]
      /\ \A d \in Calls : calls'[d] # Idle => Sound(calls'[d], entries', data')
  BY <1>3, <1>4, <1>6, <1>7, OneMoves
<1>9. x.pc \in Saving /\ x.fd = calls[c].fd
  BY <1>4 DEF Saving, n
<1>10. TempsAccounted'
  BY <1>3, <1>4, <1>9, TempsStay
<1>11. \A g \in Files : Cached(g, entries') => Whole(entries'[g], data')
  BY <1>2, <1>3, <1>5 DEF CacheInv, Cached, Whole
<1>12. \A l \in links' : l.file \in Files /\ Cached(l.file, entries')
  BY <1>3, <1>6 DEF CacheInv, Grows
<1> QED
  BY <1>3, <1>5, <1>8, <1>10, <1>11, <1>12 DEF CacheInv, Inodes

LEMMA RemoveInv == ASSUME CacheInv, NEW c \in Calls, Remove(c) PROVE CacheInv'
<1>1. calls[c].pc = "remove" /\ calls[c].pc # "idle"
  BY DEF Remove, At
<1>2. calls[c] \in Call /\ Sound(calls[c], entries, data)
  BY <1>1, NotIdle DEF CacheInv
<1> DEFINE pc == IF calls[c].stored THEN "ready" ELSE "failed"
           x == [calls[c] EXCEPT !.pc = pc]
<1>3. pc \in PCs
  BY DEF PCs
<1>4. x \in Call /\ x.pc = pc /\ x.file = calls[c].file /\ x.stored = calls[c].stored
  BY <1>1, <1>3, Moved
<1>5. Sound(x, entries, data)
  <2>1. CASE calls[c].stored
    BY <1>2, <1>4, <2>1 DEF Sound, Saving
  <2>2. CASE ~calls[c].stored
    BY <1>2, <1>4, <2>2 DEF Sound, Saving
  <2> QED
    BY <2>1, <2>2
<1>6. /\ calls' = [calls EXCEPT ![c] = x] /\ temps' = temps \ {calls[c].fd}
      /\ UNCHANGED <<entries, data, lastInode, litter, links>>
  BY <1>1, <1>3, Moved DEF Remove, Goto
<1> HIDE DEF x, pc
<1>7. Grows
  BY <1>6 DEF Grows
<1>8. /\ calls' \in [Calls -> {Idle} \union Call]
      /\ \A d \in Calls : calls'[d] # Idle => Sound(calls'[d], entries', data')
  BY <1>4, <1>5, <1>6, <1>7, OneMoves
<1>9. TempsAccounted'
  BY <1>4, <1>6, TempsStay
<1> QED
  BY <1>6, <1>8, <1>9 DEF CacheInv, Inodes

-----------------------------------------------------------------------------
LEMMA NextCacheInv == CacheInv /\ [Next]_vars => CacheInv'
<1> SUFFICES ASSUME CacheInv, [Next]_vars PROVE CacheInv'
  OBVIOUS
<1>1. CASE Tick
  BY <1>1, TickInv
<1>2. CASE Restart
  BY <1>2, RestartInv
<1>3. ASSUME NEW c \in Calls, GetFile(c) \/ ServeFile(c) \/ Finish(c) PROVE CacheInv'
  <2>1. CASE Fetch(c) \/ Unresolved(c) \/ Link(c)
    BY <2>1, FetchInv, MovesInv, LinkInv
  <2>2. CASE SaveFile(c)
    BY <2>2, MovesInv, CreateTempInv, DownloadInv, RenameInv, RemoveInv DEF SaveFile
  <2>3. CASE Stat(c) \/ Inline(c) \/ Open(c) \/ Send(c)
    BY <2>3, ReadInv
  <2>4. CASE Request(c) \/ Finish(c)
    BY <2>4, RequestInv, FinishInv
  <2> QED
    BY <1>3, <2>1, <2>2, <2>3, <2>4 DEF GetFile, ServeFile
<1>4. CASE UNCHANGED vars
  BY <1>4 DEF vars, disk, CacheInv, TempsAccounted, Cached, Whole, Sound
<1> QED
  BY <1>1, <1>2, <1>3, <1>4 DEF Next

THEOREM CacheInvariant == Spec => []CacheInv
<1>1. Init => CacheInv
  BY InitCacheInv
<1>2. CacheInv /\ [Next]_vars => CacheInv'
  BY NextCacheInv
<1> QED
  BY <1>1, <1>2, PTL DEF Spec

(* What the cache holds is whole, with fetches of one file side by side    *)
(* and kills at any point (store/files.go:46-78).                          *)
THEOREM CacheAlwaysWhole == Spec => []CachedWhole
<1>1. CacheInv => CachedWhole
  BY DEF CacheInv, CachedWhole, Cached, Whole
<1> QED
  BY <1>1, CacheInvariant, PTL

(* Every reader reads all of the file and reports its size                 *)
(* (server/files.go:84-93, 259-288, 396-425).                              *)
THEOREM ReadersReadWhole == Spec => []ReadsWhole
<1>1. CacheInv => ReadsWhole
  BY DEF CacheInv, ReadsWhole, Call
<1> QED
  BY <1>1, CacheInvariant, PTL

(* No valid link is answered 404 (server.go:198-225,                       *)
(* server/files.go:396-408).                                               *)
THEOREM LinksAlwaysHonoured == Spec => []LinksHonoured
<1>1. CacheInv => LinksHonoured
  <2> SUFFICES ASSUME CacheInv, NEW c \in Calls PROVE calls[c].pc # "404"
    BY DEF LinksHonoured, At
  <2>1. CASE calls[c] = Idle
    BY <2>1, NotIdle
  <2>2. CASE calls[c] # Idle
    BY <2>2 DEF CacheInv, Sound
  <2> QED
    BY <2>1, <2>2
<1> QED
  BY <1>1, CacheInvariant, PTL

(* Only a killed process leaves a temporary file behind                    *)
(* (store/files.go:63-66).                                                 *)
THEOREM TempsAlwaysAccounted == Spec => []TempsAccounted
<1>1. CacheInv => TempsAccounted
  BY DEF CacheInv
<1> QED
  BY <1>1, CacheInvariant, PTL
=============================================================================
