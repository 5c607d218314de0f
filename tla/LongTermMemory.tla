--------------------------- MODULE LongTermMemory ---------------------------
(***************************************************************************)
(* Long-term memory: StoreMemoryAdapter over a langgraph store             *)
(* (GSagent/core/memory/langgraph_store.py), used by the slash command     *)
(* /remember and by the agent's tools, in any number of processes.         *)
(*                                                                         *)
(* A call of the store (get, put, search, delete) is atomic, a method of   *)
(* the adapter is not.  A memory is named by its content, a number in the  *)
(* order of the content hashes.  last_access_at and updated_at are always  *)
(* written together and are one field; kind, source and the weights of a   *)
(* search are left out.                                                    *)
(***************************************************************************)
EXTENDS Integers, FiniteSets

CONSTANTS
  Callers,      \* threads that use the memory
  Ways,         \* "slash" and "tool"
  DbOf,         \* the database each way opens
  Namespaces,   \* pairs of a user and a scope
  Under,        \* the namespaces whose text begins with that of each
  Contents,     \* subset of Nat
  MaxEntries,   \* memory.max_entries
  MaxNow,       \* bound of the clock
  MaxCount      \* bound of access_count

Dbs == {DbOf[w] : w \in Ways}

ASSUME MemoryAssumption ==
  /\ Contents \subseteq Nat /\ IsFiniteSet(Contents)
  /\ Under \in [Namespaces -> SUBSET Namespaces]
  /\ \A ns \in Namespaces : ns \in Under[ns] /\ IsFiniteSet(Under[ns])
  /\ MaxEntries \in Int /\ MaxNow \in Nat /\ MaxCount \in Nat

VARIABLES
  store,     \* the entries of each namespace of each database
  caller,    \* what each caller is doing
  now,       \* the clock
  overfull   \* history: places a call broke off at before it had pruned

memoryVars == <<store, caller, now, overfull>>

Absent == [count |-> -1, at |-> 0]
Entry == [count : 0..MaxCount, at : 0..MaxNow]

Places == Dbs \X Namespaces
Memories == Places \X Contents

Idle == [pc |-> "idle"]
Call == [op : {"remember", "forget"},
         pc : {"get", "put", "list", "drop"},
         place : Places,
         content : Contents,
         time : 0..MaxNow,                \* now of remember
         seen : {Absent} \cup Entry,      \* existing
         doomed : SUBSET Memories,        \* to_drop
         alone : BOOLEAN,                 \* history: nothing else came in between
         was : -1..MaxCount]              \* history: access_count before, if alone

MemoryTypeOK ==
  /\ store \in [Places -> [Contents -> {Absent} \cup Entry]]
  /\ caller \in [Callers -> {Idle} \cup Call]
  /\ now \in 0..MaxNow
  /\ overfull \subseteq Places

MemoryInit ==
  /\ store = [p \in Places |-> [x \in Contents |-> Absent]]
  /\ caller = [c \in Callers |-> Idle]
  /\ now = 0
  /\ overfull = {}

Items(s) == {x \in Contents : s[x] # Absent}

\* the store is asked for a namespace and returns what it has under every
\* one whose text begins with that of the one it was asked for
Listed(s, p) ==
  {i \in ({p[1]} \X Under[p[2]]) \X Contents : s[i[1]][i[2]] # Absent}

\* no two of them have the same content
Apart(items) == \A i, j \in items : i[2] = j[2] => i = j

Overlapped(call) == [call EXCEPT !.alone = FALSE, !.was = -1]

\* a call that begins while others are under way is overlapped, and so are they
Begin(c, call) ==
  /\ caller[c] = Idle
  /\ LET lone == \A e \in Callers \ {c} : caller[e] = Idle
     IN  caller' = [d \in Callers |->
                      IF d = c THEN IF lone THEN call ELSE Overlapped(call)
                      ELSE IF caller[d] = Idle THEN Idle ELSE Overlapped(caller[d])]

NewCall(op, pc, place, x) ==
  [op |-> op, pc |-> pc, place |-> place, content |-> x, time |-> now, seen |-> Absent,
   doomed |-> {}, alone |-> TRUE, was |-> store[place][x].count]

-----------------------------------------------------------------------------
(* remember and prune                                                      *)

\* the clock is read before the store is
Remember(c, w, ns, x) ==
  /\ Begin(c, NewCall("remember", "get", <<DbOf[w], ns>>, x))
  /\ UNCHANGED <<store, now, overfull>>

GetEntry(c) ==
  /\ caller[c].pc = "get"
  /\ caller' = [caller EXCEPT ![c].pc = "put",
                              ![c].seen = store[caller[c].place][caller[c].content]]
  /\ UNCHANGED <<store, now, overfull>>

Capped(n) == IF n > MaxCount THEN MaxCount ELSE n

\* access_count starts at 0, so an absent entry's -1 counts up to it
PutEntry(c) ==
  /\ caller[c].pc = "put"
  /\ store' = [store EXCEPT ![caller[c].place][caller[c].content] =
                 [count |-> Capped(caller[c].seen.count + 1), at |-> caller[c].time]]
  /\ caller' = [caller EXCEPT ![c].pc = "list", ![c].seen = Absent]
  /\ UNCHANGED <<now, overfull>>

\* the order of prune and of list: newest first, the greater hash first
\* among equals
OldestFirst(s, i, j) ==                \* mutant: sorted without reverse
  LET at(k) == s[k[1]][k[2]].at
  IN  at(i) < at(j) \/ (at(i) = at(j) /\ i[2] < j[2])

Newer(s, i, j) ==
  LET at(k) == s[k[1]][k[2]].at
  IN  at(i) > at(j) \/ (at(i) = at(j) /\ i[2] > j[2])

Ended(c) == caller' = [caller EXCEPT ![c] = Idle]

WithinLimit(items) == Cardinality(items) <= MaxEntries

Condemn(c, items) ==
  caller' = [caller EXCEPT ![c].pc = "drop", ![c].doomed = items,
                           ![c].alone = @ /\ Apart(Listed(store, caller[c].place))]

ListEntriesKeepsOneMore(c) ==          \* mutant: off by one
  /\ caller[c].pc = "list"
  /\ LET items == Listed(store, caller[c].place)
     IN  IF MaxEntries <= 0 \/ Cardinality(items) <= MaxEntries + 1
         THEN Ended(c)
         ELSE \E keep \in SUBSET items :
                Cardinality(keep) = MaxEntries /\ Condemn(c, items \ keep)
  /\ overfull' = overfull \ {caller[c].place}
  /\ UNCHANGED <<store, now>>

\* prune lists the namespace: either nothing is to be dropped, or all but
\* the first max_entries are
ListEntries(c) ==
  /\ caller[c].pc = "list"
  /\ LET items == Listed(store, caller[c].place)
     IN  IF MaxEntries <= 0 \/ WithinLimit(items)
         THEN Ended(c)
         ELSE \E keep \in SUBSET items :
                /\ Cardinality(keep) = MaxEntries
                /\ \A i \in keep, j \in items \ keep : ~Newer(store, j, i)
                /\ Condemn(c, items \ keep)
  /\ overfull' = overfull \ {caller[c].place}
  /\ UNCHANGED <<store, now>>

\* one delete of prune, forget or forget_scope, in any order; the key goes
\* from the caller's own namespace, wherever the entry was listed
DropEntry(c) ==
  /\ caller[c].pc = "drop"
  /\ \E i \in caller[c].doomed :
       /\ store' = [store EXCEPT ![caller[c].place][i[2]] = Absent]
       /\ IF caller[c].doomed = {i}
          THEN Ended(c)
          ELSE caller' = [caller EXCEPT ![c].doomed = @ \ {i}]
  /\ UNCHANGED <<now, overfull>>

-----------------------------------------------------------------------------
(* forget and forget_scope                                                 *)

\* both look first; with nothing to delete they change nothing
Delete(c, place, x, gone) ==
  /\ gone # {}
  /\ Begin(c, [NewCall("forget", "drop", place, x) EXCEPT !.doomed = gone])
  /\ UNCHANGED <<store, now, overfull>>

Forget(c, place, x) == Delete(c, place, x, {<<place, x>>} \cap Listed(store, place))

ForgetScope(c, place) == Delete(c, place, CHOOSE x \in Contents : TRUE, Listed(store, place))

\* a process dies, or the database fails, in the middle of a call
BreakOff(c) ==
  /\ caller[c] # Idle
  /\ Ended(c)
  /\ overfull' = overfull \cup {caller[c].place}
  /\ UNCHANGED <<store, now>>

Pass ==
  /\ now < MaxNow /\ now' = now + 1
  /\ UNCHANGED <<store, caller, overfull>>

MemoryNext ==
  \/ Pass
  \/ \E c \in Callers :
       \/ \E w \in Ways, ns \in Namespaces, x \in Contents : Remember(c, w, ns, x)
       \/ GetEntry(c) \/ PutEntry(c) \/ ListEntries(c) \/ DropEntry(c) \/ BreakOff(c)
       \/ \E p \in Places : ForgetScope(c, p) \/ \E x \in Contents : Forget(c, p, x)

MemorySpec == MemoryInit /\ [][MemoryNext]_memoryVars

-----------------------------------------------------------------------------
(* Properties.                                                             *)

Busy(p) == \E c \in Callers : caller[c] # Idle /\ caller[c].place = p

\* Once no call is under way in a namespace it holds at most max_entries,
\* however calls have interleaved, unless the last one to look broke off
\* (prune, langgraph_store.py:207-227).
LimitKept ==
  MaxEntries > 0 =>
    \A p \in Places : Busy(p) \/ p \in overfull \/ WithinLimit(Items(store[p]))

Returns(c) ==
  /\ ListEntries(c) \/ DropEntry(c)
  /\ caller[c].op = "remember" /\ caller'[c] = Idle

\* list, behind /memory, may show j before it shows i
ShownBefore(s, p, i) == {j \in Listed(s, p) \ {i} : ~Newer(s, i, j)}

\* the memory is stored, and shown first but for others of its instant
Heeded(c) ==
  LET p == caller[c].place
      x == caller[c].content
      instant(items) == {j \in items : store'[j[1]][j[2]].at = caller[c].time}
      before == ShownBefore(store', p, <<p, x>>)
  IN  \/ /\ store'[p][x] = [count |-> Capped(caller[c].was + 1), at |-> caller[c].time]
         /\ instant(before) = before
      \/ MaxEntries > 0 /\ Cardinality(instant(Listed(store', p))) >= MaxEntries

\* A call of remember that no other call overlapped leaves its memory in the
\* store with the call's time and a count one higher than before, and
\* /memory shows it before all others but those of the same instant, unless
\* max_entries others of that instant are kept in its place
\* (langgraph_store.py:91-138, 207-227; the clock has not been set back).
\* It says nothing of a call that had entries to drop while a scope whose
\* name begins with its own held a content of its own scope: ScopesApart.
RememberHeeded ==
  [][\A c \in Callers : Returns(c) /\ caller[c].alone => Heeded(c)]_memoryVars

-----------------------------------------------------------------------------
(* What comments say and the code does not do.                             *)

\* core/memory/store.py:77: the command line and the memory tools use one
\* and the same path, so that what either remembers the other finds.
OneMemory ==
  \A ns \in Namespaces, v, w \in Ways :
    Items(store[<<DbOf[v], ns>>]) = Items(store[<<DbOf[w], ns>>])

\* langgraph_store.py:5: a namespace keeps users and scopes apart by itself,
\* so that prune drops nothing of a scope that is within its limit.
ScopesApart ==
  [][\A c \in Callers :
       ListEntries(c) /\ WithinLimit(Items(store[caller[c].place]))
         => caller'[c] = Idle]_memoryVars
=============================================================================
