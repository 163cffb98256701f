------------------------------ MODULE History -------------------------------
(***************************************************************************)
(* get_history: a client that follows next_cursor to the end, while        *)
(* messages are written, edited and stored late.                           *)
(***************************************************************************)
EXTENDS Log

CONSTANTS
  MaxPage,  \* bound: the largest limit asked for
  Window    \* the default range, in seconds

ASSUME HistoryAssumption == MaxPage \in Nat \ {0} /\ Window \in Nat

VARIABLES
  request,  \* the parameters, kept from page to page; 0: no bound
  before,   \* the cursor handed out last, NoCursor: the walk is over
  pages,    \* the pages read, newest first
  due       \* history: what the range held when the first page was read

history == <<request, before, pages, due>>
hvars == <<log, history>>

NoCursor == [sent |-> 0, row |-> 0]
Requests ==
  [chats : {Chats} \union {{c} : c \in Chats}, from : 0..MaxTime, to : 0..MaxTime, limit : 1..MaxPage]

InRange(r, from) ==
  {i \in Stored : /\ written[i].chat \in r.chats
                  /\ from = 0 \/ written[i].sent >= from
                  /\ r.to = 0 \/ written[i].sent <= r.to}

(* Mutants of Older: timestamps alone; the cursor's own row again.         *)
OlderByTime(i, cursor) == cursor = NoCursor \/ written[i].sent < cursor.sent
OlderOrSame(i, cursor) ==
  \/ cursor = NoCursor
  \/ written[i].sent < cursor.sent
  \/ written[i].sent = cursor.sent /\ row[i] <= cursor.row

(* Strictly older than the row a cursor marks. *)
Older(i, cursor) ==
  \/ cursor = NoCursor
  \/ written[i].sent < cursor.sent
  \/ written[i].sent = cursor.sent /\ row[i] < cursor.row

(* P are the newest limit members of S. *)
IsPage(S, limit, P) ==
  /\ P \subseteq S /\ Cardinality(P) <= limit /\ (P # S => Cardinality(P) = limit)
  /\ \A i \in P, j \in S \ P : Earlier(j, i)

(* next_cursor: the oldest row of a full page. *)
NextCursor(P, limit, cursor) ==
  \/ Cardinality(P) < limit /\ cursor = NoCursor
  \/ /\ Cardinality(P) >= limit
     /\ \E i \in P : /\ \A j \in P \ {i} : Earlier(i, j)
                    /\ cursor = [sent |-> written[i].sent, row |-> row[i]]

(* A listing of S: its page, and the cursor that goes with it. *)
ReadPage(S, limit) ==
  \E P \in SUBSET S : /\ IsPage(S, limit, P)
                     /\ pages' = Append(pages, P)
                     /\ before' \in {NoCursor} \union {[sent |-> written[i].sent, row |-> row[i]] : i \in P}
                     /\ NextCursor(P, limit, before')

-----------------------------------------------------------------------------
HistoryInit ==
  /\ request = [chats |-> Chats, from |-> 0, to |-> 0, limit |-> 1]
  /\ before = NoCursor /\ pages = <<>> /\ due = {}

(* Without bounds and cursor, the last Window seconds. *)
DefaultFrom(r) ==
  IF r.from # 0 \/ r.to # 0 THEN r.from ELSE IF now > Window THEN now - Window ELSE 0

FirstPage(r) ==
  /\ ReadPage(InRange(r, DefaultFrom(r)), r.limit)
  /\ request' = r
  /\ due' = InRange(r, IF r.from = 0 /\ r.to = 0 /\ now > Window THEN now - Window ELSE r.from)
  /\ UNCHANGED log

(* The window no longer applies: the cursor bounds the page from above.    *)
NextPage ==
  /\ before # NoCursor
  /\ ReadPage({i \in InRange(request, request.from) : Older(i, before)}, request.limit)
  /\ UNCHANGED <<log, request, due>>

(* One walk: what a client reads leaves no trace for the next. *)
HistoryNext == NextPage \/ (pages = <<>> /\ \E r \in Requests : FirstPage(r))

HistorySpec ==
  LogInit /\ HistoryInit /\ [][(LogNext /\ UNCHANGED history) \/ HistoryNext]_hvars

-----------------------------------------------------------------------------
(* "Nothing skipped": a client that follows the cursors to the end has     *)
(* read everything its range held when it began, though pages end inside   *)
(* a second and rows are added and edited meanwhile (store.go:403-439,     *)
(* tools.go:441-476; README.md:68-72).                                     *)
NothingSkipped ==
  pages # <<>> /\ before = NoCursor => \A i \in due : \E n \in 1..Len(pages) : i \in pages[n]

(* "Nothing repeated": every page lies wholly before the pages read        *)
(* earlier, also what was stored since (store.go:411-439).                 *)
PagesGoBack ==
  \A n \in 1..Len(pages) : \A m \in 1..(n - 1) :
    \A i \in pages[n], j \in pages[m] : i # j /\ Earlier(i, j)
=============================================================================
