------------------------------ MODULE ChatMap -------------------------------
(***************************************************************************)
(* The chat map from the file to the tools: what a start accepts, the      *)
(* names clients see instead of chat ids, and how an address they send     *)
(* back becomes one group (config.go, server.go, tools.go).                *)
(*                                                                         *)
(* An agent answers a message it was shown in the same process, giving     *)
(* the label or leaving it out, while messages with the same ids appear    *)
(* in other groups.                                                        *)
(***************************************************************************)
EXTENDS Naturals

CONSTANTS
  ChatIds,
  Slugs,      \* customer slugs
  Labels,     \* group labels
  Aliases,    \* public aliases
  MessageIds

Empty == "empty"     \* a field the file leaves out
NoChat == "no chat"  \* the target of a call that is refused

(* Of a well-formed file; a username only feeds the public link. *)
Infos == [customer : Slugs \union {Empty}, label : Labels \union {Empty},
          public : Aliases \union {Empty}]
Maps == UNION {[S -> Infos] : S \in SUBSET ChatIds}

ASSUME ChatMapAssumption == NoChat \notin ChatIds /\ Empty \notin Slugs \union Labels \union Aliases

VARIABLES
  up,       \* the process runs
  chats,    \* the chat map it loaded
  table,    \* the chats table: chat id -> customer
  stored,   \* the messages in the history
  seen,     \* what the agent was shown by this process
  call      \* the call of send_reply under way

mapvars == <<up, chats, table, stored, seen, call>>

NoMap == [c \in {} |-> Empty]
Idle == [at |-> "idle"]

-----------------------------------------------------------------------------
Same(m, c, d) == m[c].customer = m[d].customer

(* Mutant of validate: labels are checked only where they are given.       *)
validateLabelled(m) ==
  \A c \in DOMAIN m :
    /\ m[c].customer # Empty
    /\ \A d \in DOMAIN m \ {c} : Same(m, c, d) => m[c].label = Empty \/ m[c].label # m[d].label

validate(m) ==
  \A c \in DOMAIN m :
    /\ m[c].customer # Empty
    /\ \A d \in DOMAIN m \ {c} : Same(m, c, d) => m[c].label # Empty /\ m[c].label # m[d].label
    /\ m[c].public # Empty => \A d \in DOMAIN m \ {c} : m[d].public # m[c].public

ByPublic(m, name) == {c \in DOMAIN m : name # Empty /\ m[c].public = name}
ByCustomer(m, customer) == {c \in DOMAIN m : m[c].customer = customer}

(* The groups an address may mean: all of the customer without a label,    *)
(* else the one that carries it.                                           *)
singleChat(m, customer, label) ==
  IF label = Empty THEN ByCustomer(m, customer)
  ELSE {c \in ByCustomer(m, customer) : m[c].label = label}

(* Mutant of chatNamer: never a label. *)
chatNamerBare(m, c) == [customer |-> m[c].customer, label |-> Empty]

(* The label is left out for a customer with a single group. *)
chatNamer(m, c) ==
  [customer |-> m[c].customer,
   label |-> IF ByCustomer(m, m[c].customer) = {c} THEN Empty ELSE m[c].label]

(* The groups a listing tool reads from. *)
chatIDs(m, customer, label) == IF customer = Empty THEN DOMAIN m ELSE singleChat(m, customer, label)

-----------------------------------------------------------------------------
MapInit ==
  /\ up = FALSE /\ chats = NoMap /\ table = NoMap
  /\ stored = {} /\ seen = {} /\ call = Idle

(* Mutant of SyncChats: the table is the map. *)
SyncChatsReplaces(m) == [c \in DOMAIN m |-> m[c].customer]

(* config wins, rows of dropped chats stay. *)
SyncChats(m) ==
  [c \in DOMAIN table \union DOMAIN m |->
     IF c \in DOMAIN m THEN m[c].customer ELSE table[c]]

(* A start with the file as the operator left it; an invalid one ends it.  *)
Start ==
  /\ ~up
  /\ \E m \in Maps : /\ validate(m)
                     /\ chats' = m /\ table' = SyncChats(m)
  /\ up' = TRUE
  /\ UNCHANGED <<stored, seen, call>>

Stop ==
  /\ up /\ up' = FALSE
  /\ chats' = NoMap /\ seen' = {} /\ call' = Idle
  /\ UNCHANGED <<table, stored>>

(* Ingest: a message of a mapped chat. *)
Ingest ==
  /\ up
  /\ \E c \in DOMAIN chats, i \in MessageIds : stored' = stored \union {[chat |-> c, id |-> i]}
  /\ UNCHANGED <<up, chats, table, seen, call>>

(* A listing of every group, a customer or one of its groups. *)
Show ==
  /\ up /\ call = Idle
  /\ \E customer \in Slugs \union {Empty}, label \in Labels \union {Empty} :
       /\ customer = Empty => label = Empty
       /\ seen' = seen \union
            {[chat |-> m.chat, id |-> m.id, name |-> chatNamer(chats, m.chat)] :
               m \in {n \in stored : n.chat \in chatIDs(chats, customer, label)}}
  /\ UNCHANGED <<up, chats, table, stored, call>>

(* send_reply to a message seen, its label given or left out: replyTarget  *)
(* resolves the address and, when only reply_to can tell, asks every group *)
(* of the customer in turn.                                                *)
Reply ==
  /\ up /\ call = Idle
  /\ \E s \in seen, label \in Labels \union {Empty} :
       /\ label \in {s.name.label, Empty}
       /\ call' = [at |-> "asking", seen |-> s, named |-> label = s.name.label, found |-> {},
                   left |-> singleChat(chats, s.name.customer, label)]
  /\ UNCHANGED <<up, chats, table, stored, seen>>

(* MessageByID, a query per group. *)
Ask ==
  /\ call.at = "asking" /\ call.left # {}
  /\ \E c \in call.left :
       call' = [at |-> "asking", seen |-> call.seen, named |-> call.named,
                left |-> call.left \ {c},
                found |-> call.found \union {d \in {c} : [chat |-> d, id |-> call.seen.id] \in stored}]
  /\ UNCHANGED <<up, chats, table, stored, seen>>

(* Exactly one group holds it, or the call is refused. *)
pinned(found) == {c \in found : found = {c}}

Answer ==
  /\ call.at = "asking" /\ call.left = {}
  /\ \E c \in IF pinned(call.found) = {} THEN {NoChat} ELSE pinned(call.found) :
       /\ call' = [at |-> "done", seen |-> call.seen, named |-> call.named, target |-> c]
  /\ UNCHANGED <<up, chats, table, stored, seen>>

Done == call.at = "done" /\ call' = Idle /\ UNCHANGED <<up, chats, table, stored, seen>>

MapNext == Start \/ Stop \/ Ingest \/ Show \/ Reply \/ Ask \/ Answer \/ Done

MapSpec == MapInit /\ [][MapNext]_mapvars

-----------------------------------------------------------------------------
(* Every group a start accepts can be addressed, and by the names the      *)
(* tools show: what chatNamer gives for a chat leads singleChat back to    *)
(* that chat alone, and a public alias names one chat, so the order a Go   *)
(* map is walked in shows nowhere (config.go:71-158, server.go:281-309,    *)
(* tools.go:578-595).                                                      *)
NamesLeadBack ==
  up => \A c \in DOMAIN chats :
          /\ LET n == chatNamer(chats, c) IN singleChat(chats, n.customer, n.label) = {c}
          /\ \A d \in ByPublic(chats, chats[c].public) : d = c

(* A reply lands in the group of the message it answers or nowhere, also   *)
(* when the label is left out and groups hold messages with the same id,   *)
(* stored while the groups are asked in turn; under the name the message   *)
(* was shown with it is never refused (tools.go:278-329, README.md:99-101).*)
LandsWhereSeen ==
  call.at = "done" =>
    /\ call.target \in {call.seen.chat, NoChat}
    /\ call.named => call.target # NoChat

(* "Rows of chats dropped from the allowlist stay so their history keeps a *)
(* customer": through any number of restarts with other maps every message *)
(* has a chat row with a customer (store.go:252-254, main.go:86-99).       *)
HistoryKeepsCustomer ==
  \A m \in stored : m.chat \in DOMAIN table /\ table[m.chat] # Empty
=============================================================================
