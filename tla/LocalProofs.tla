---------------------------- MODULE LocalProofs ----------------------------
(***************************************************************************)
(* What holds of the files a user's commands keep on the local disk, for   *)
(* every value of the bounds.                                              *)
(***************************************************************************)
EXTENDS MCLocal, FiniteSetTheorems, FunctionTheorems, WellFoundedInduction, TLAPS

-----------------------------------------------------------------------------
(* Long-term memory.                                                       *)

\* some call in p has yet to look at how many entries p holds
WillLook(p) ==
  \E c \in Callers : caller[c].pc \in {"get", "put", "list"} /\ caller[c].place = p

\* what no call is about to delete
Left(p) ==
  {x \in Items(store[p]) :
     \A c \in Callers : caller[c].pc = "drop" /\ caller[c].place = p
                         => \A i \in caller[c].doomed : i[2] # x}

LimitInv ==
  MaxEntries > 0 =>
    \A p \in Places : p \in overfull \/ WillLook(p) \/ WithinLimit(Left(p))

\* nothing in the store is younger than the clock
TimesPast ==
  /\ \A p \in Places, x \in Contents : store[p][x].at <= now
  /\ \A c \in Callers : caller[c] # Idle => caller[c].time <= now

\* c's memory is in the store as c leaves it
Stored(c) ==
  store[caller[c].place][caller[c].content] =
    [count |-> Capped(caller[c].was + 1), at |-> caller[c].time]

\* enough others of the same instant stay
Crowded(c) ==
  LET me == caller[c]
      items == Listed(store, me.place)
  IN  /\ MaxEntries > 0
      /\ Cardinality({i \in items : store[i[1]][i[2]].at = me.time} \ me.doomed) >= MaxEntries

\* what remember finds at each of its steps while it is alone
Undisturbed(c) ==
  LET me == caller[c]
      items == Listed(store, me.place)
  IN  /\ \A p \in Places, y \in Contents : store[p][y].at <= me.time
      /\ me.pc = "get" => store[me.place][me.content].count = me.was
      /\ me.pc = "put" => me.seen.count = me.was
      /\ me.pc = "list" => Stored(c)
      /\ me.pc = "drop" =>
           /\ me.doomed \subseteq items /\ Apart(items)
           /\ (Stored(c) /\ <<me.place, me.content>> \notin me.doomed) \/ Crowded(c)

AloneInv ==
  \A c \in Callers : caller[c] # Idle /\ caller[c].alone =>
    /\ \A d \in Callers \ {c} : caller[d] = Idle
    /\ caller[c].op = "remember" => Undisturbed(c)

MemoryIInv == MemoryTypeOK /\ LimitInv /\ TimesPast /\ AloneInv

-----------------------------------------------------------------------------
(* Types.                                                                  *)

\* The fields of an entry, and of the absent one.
LEMMA EntryFields ==
  ASSUME NEW e \in {Absent} \cup Entry
  PROVE  e.count \in -1..MaxCount /\ e.at \in 0..MaxNow
BY MemoryAssumption DEF Absent, Entry

\* A caller that is in a call is no idle one.
LEMMA InCall ==
  ASSUME MemoryTypeOK, NEW c \in Callers
  PROVE  /\ caller[c] = Idle \/ caller[c] \in Call
         /\ Idle \notin Call
         /\ caller[c].pc \in {"get", "put", "list", "drop"} <=> caller[c] # Idle
BY DEF MemoryTypeOK, Idle, Call

\* The row of a place in the store.
LEMMA RowTyped ==
  ASSUME MemoryTypeOK, NEW p \in Places
  PROVE  /\ store[p] \in [Contents -> {Absent} \cup Entry]
         /\ \A x \in Contents : store[p][x].count \in -1..MaxCount /\ store[p][x].at \in 0..MaxNow
BY EntryFields DEF MemoryTypeOK

\* A caller that moves within its call keeps the types.
LEMMA CallerTyped ==
  ASSUME MemoryTypeOK, NEW c \in Callers, NEW q \in {Idle} \cup Call,
         caller' = [caller EXCEPT ![c] = q]
  PROVE  /\ caller' \in [Callers -> {Idle} \cup Call]
         /\ caller'[c] = q /\ \A d \in Callers \ {c} : caller'[d] = caller[d]
BY DEF MemoryTypeOK

\* two calls that differ at most in whether they are alone
SameCall(q, r) ==
  /\ q.op = r.op /\ q.pc = r.pc /\ q.place = r.place /\ q.content = r.content
  /\ q.time = r.time /\ q.seen = r.seen /\ q.doomed = r.doomed

\* Nothing is written of a call that is overlapped but what is said of its
\* being alone.
LEMMA OverlappedCall ==
  ASSUME NEW call \in Call
  PROVE  /\ Overlapped(call) \in Call /\ SameCall(Overlapped(call), call)
         /\ ~Overlapped(call).alone
<1>1. -1 \in -1..MaxCount
  BY MemoryAssumption
<1>2. Overlapped(call) \in Call
  BY <1>1 DEF Overlapped, Call
<1>3. SameCall(Overlapped(call), call) /\ ~Overlapped(call).alone
  BY DEF Overlapped, Call, SameCall
<1> QED
  BY <1>2, <1>3

\* The entries of a listing, and those of its own place among them.
LEMMA ListedFacts ==
  ASSUME NEW s, NEW p \in Places
  PROVE  /\ Listed(s, p) \subseteq Memories /\ IsFiniteSet(Listed(s, p))
         /\ \A x \in Contents : <<p, x>> \in Listed(s, p) <=> x \in Items(s[p])
         /\ \A i \in Memories : i[1] \in Places /\ i[2] \in Contents /\ i = <<i[1], i[2]>>
<1>1. /\ p[1] \in Dbs /\ p[2] \in Namespaces /\ p = <<p[1], p[2]>>
      /\ p[2] \in Under[p[2]] /\ Under[p[2]] \subseteq Namespaces /\ IsFiniteSet(Under[p[2]])
  BY MemoryAssumption DEF Places
<1>2. IsFiniteSet(({p[1]} \X Under[p[2]]) \X Contents)
  <2>1. IsFiniteSet({p[1]} \X Under[p[2]])
    BY <1>1, FS_Singleton, FS_Product
  <2> QED
    BY <2>1, FS_Product, MemoryAssumption
<1>3. Listed(s, p) \subseteq ({p[1]} \X Under[p[2]]) \X Contents
  BY DEF Listed
<1>4. IsFiniteSet(Listed(s, p))
  BY <1>2, <1>3, FS_Subset
<1>5. ({p[1]} \X Under[p[2]]) \X Contents \subseteq Memories
  BY <1>1 DEF Memories, Places
<1>6. \A x \in Contents : <<p, x>> \in ({p[1]} \X Under[p[2]]) \X Contents
  BY <1>1
<1>7. \A x \in Contents : <<p, x>> \in Listed(s, p) <=> x \in Items(s[p])
  BY <1>6 DEF Listed, Items
<1>8. \A i \in Memories : i[1] \in Places /\ i[2] \in Contents /\ i = <<i[1], i[2]>>
  BY DEF Memories
<1> QED
  BY <1>3, <1>4, <1>5, <1>7, <1>8

\* What begins is a call, and the calls under way are no longer alone.
LEMMA BeginTyped ==
  ASSUME MemoryTypeOK, NEW c \in Callers, NEW call \in Call, Begin(c, call)
  PROVE  /\ caller' \in [Callers -> {Idle} \cup Call]
         /\ caller[c] = Idle
         /\ caller'[c] \in Call /\ SameCall(caller'[c], call)
         /\ caller'[c].alone => caller'[c] = call /\ \A d \in Callers \ {c} : caller'[d] = Idle
         /\ \A d \in Callers \ {c} :
              \/ caller[d] = Idle /\ caller'[d] = Idle
              \/ /\ caller[d] \in Call /\ caller'[d] \in Call
                 /\ SameCall(caller'[d], caller[d]) /\ ~caller'[d].alone
<1> DEFINE lone == \A e \in Callers \ {c} : caller[e] = Idle
<1>1. /\ caller[c] = Idle
      /\ caller'[c] = IF lone THEN call ELSE Overlapped(call)
      /\ \A d \in Callers \ {c} :
           caller'[d] = IF caller[d] = Idle THEN Idle ELSE Overlapped(caller[d])
      /\ DOMAIN caller' = Callers /\ caller' = [d \in Callers |-> caller'[d]]
  BY DEF Begin
<1>2. ASSUME NEW d \in Callers \ {c}
      PROVE  \/ caller[d] = Idle /\ caller'[d] = Idle
             \/ /\ caller[d] \in Call /\ caller'[d] \in Call
                /\ SameCall(caller'[d], caller[d]) /\ ~caller'[d].alone
  BY <1>1, InCall, OverlappedCall
<1>3. caller'[c] \in Call /\ SameCall(caller'[c], call)
  <2>1. SameCall(call, call)
    BY DEF SameCall
  <2> QED
    BY <1>1, <2>1, OverlappedCall
<1>4. caller'[c].alone => caller'[c] = call /\ \A d \in Callers \ {c} : caller'[d] = Idle
  BY <1>1, OverlappedCall
<1>5. caller' \in [Callers -> {Idle} \cup Call]
  BY <1>1, <1>2, <1>3
<1> QED
  BY <1>1, <1>2, <1>3, <1>4, <1>5

\* A new call is a call.
LEMMA NewCallTyped ==
  ASSUME MemoryTypeOK, NEW op \in {"remember", "forget"},
         NEW pc \in {"get", "put", "list", "drop"}, NEW p \in Places, NEW x \in Contents
  PROVE  NewCall(op, pc, p, x) \in Call
<1>1. store[p][x].count \in -1..MaxCount
  BY RowTyped
<1>2. now \in 0..MaxNow
  BY DEF MemoryTypeOK
<1> QED
  BY <1>1, <1>2 DEF NewCall, Call

\* what forget and forget_scope begin
Deletes(c, p, call) ==
  /\ call.op = "forget" /\ call.pc = "drop" /\ call.place = p /\ call.time = now
  /\ Begin(c, call)
  /\ UNCHANGED <<store, now, overfull>>

\* What forget and forget_scope begin is a call.
LEMMA DeleteTyped ==
  ASSUME MemoryTypeOK, NEW c \in Callers, NEW p \in Places,
         ForgetScope(c, p) \/ \E x \in Contents : Forget(c, p, x)
  PROVE  \E call \in Call : Deletes(c, p, call)
<1>1. PICK x \in Contents, gone \in SUBSET Memories : Delete(c, p, x, gone)
  <2>1. Listed(store, p) \subseteq Memories
    BY ListedFacts
  <2>2. CASE ForgetScope(c, p)
    <3>1. Contents # {}
      BY <2>1, <2>2 DEF ForgetScope, Delete, Memories
    <3>2. (CHOOSE x \in Contents : TRUE) \in Contents
      BY <3>1
    <3> QED
      BY <2>1, <2>2, <3>2 DEF ForgetScope
  <2>3. CASE \E x \in Contents : Forget(c, p, x)
    BY <2>1, <2>3 DEF Forget
  <2> QED
    BY <2>2, <2>3
<1> DEFINE call == [NewCall("forget", "drop", p, x) EXCEPT !.doomed = gone]
<1>3. NewCall("forget", "drop", p, x) \in Call
  BY NewCallTyped
<1>4. call \in Call /\ call.op = "forget" /\ call.pc = "drop" /\ call.place = p /\ call.time = now
  BY <1>3 DEF Call, NewCall
<1>5. Begin(c, call) /\ UNCHANGED <<store, now, overfull>>
  BY <1>1 DEF Delete
<1> QED
  BY <1>4, <1>5 DEF Deletes

\* a call whose listing has shown it what to drop
Condemned(q, call, items) ==
  /\ q.op = call.op /\ q.place = call.place /\ q.content = call.content
  /\ q.time = call.time /\ q.was = call.was
  /\ q.pc = "drop" /\ q.doomed = items
  /\ q.alone = (call.alone /\ Apart(Listed(store, call.place)))

\* A listing ends the call or shows it what to drop.
LEMMA Listing ==
  ASSUME MemoryTypeOK, NEW c \in Callers, ListEntries(c)
  PROVE  LET items == Listed(store, caller[c].place)
         IN  /\ caller[c] \in Call /\ caller[c].pc = "list"
             /\ UNCHANGED <<store, now>> /\ overfull' = overfull \ {caller[c].place}
             /\ \A d \in Callers \ {c} : caller'[d] = caller[d]
             /\ \/ (MaxEntries <= 0 \/ WithinLimit(items)) /\ caller'[c] = Idle
                \/ \E keep \in SUBSET items :
                     /\ MaxEntries > 0 /\ Cardinality(keep) = MaxEntries
                     /\ \A i \in keep, j \in items \ keep : ~Newer(store, j, i)
                     /\ Condemned(caller'[c], caller[c], items \ keep)
<1> DEFINE items == Listed(store, caller[c].place)
<1>1. /\ caller[c] \in Call /\ caller[c].pc = "list"
      /\ UNCHANGED <<store, now>> /\ overfull' = overfull \ {caller[c].place}
  BY InCall DEF ListEntries
<1>2. CASE MaxEntries <= 0 \/ WithinLimit(items)
  <2>1. Ended(c)
    BY <1>2 DEF ListEntries
  <2> QED
    BY <1>1, <1>2, <2>1 DEF Ended, MemoryTypeOK
<1>3. CASE ~(MaxEntries <= 0 \/ WithinLimit(items))
  <2>1. PICK keep \in SUBSET items :
          /\ Cardinality(keep) = MaxEntries
          /\ \A i \in keep, j \in items \ keep : ~Newer(store, j, i)
          /\ Condemn(c, items \ keep)
    BY <1>3 DEF ListEntries
  <2>2. MaxEntries > 0
    BY <1>3, MemoryAssumption
  <2> DEFINE drop == items \ keep
             apart == Apart(items)
             q == [caller[c] EXCEPT !.pc = "drop", !.doomed = drop, !.alone = @ /\ apart]
  <2>3. caller' = [caller EXCEPT ![c] = q]
    BY <2>1 DEF Condemn
  <2>4. caller'[c] = q /\ \A d \in Callers \ {c} : caller'[d] = caller[d]
    <3> HIDE DEF q
    <3> QED BY <2>3 DEF MemoryTypeOK
  <2>5. Condemned(q, caller[c], drop)
    <3>1. /\ q.op = caller[c].op /\ q.place = caller[c].place /\ q.content = caller[c].content
          /\ q.time = caller[c].time /\ q.was = caller[c].was
          /\ q.pc = "drop" /\ q.doomed = drop /\ q.alone = (caller[c].alone /\ apart)
      <4> HIDE DEF drop, apart
      <4> QED BY <1>1 DEF Call
    <3> QED
      BY <3>1 DEF Condemned
  <2> HIDE DEF q
  <2> QED
    BY <1>1, <2>1, <2>2, <2>4, <2>5
<1> QED
  BY <1>2, <1>3

\* Initially the memory is empty and everybody idle.
LEMMA MemoryInitTyped == MemoryInit => MemoryTypeOK
BY MemoryAssumption DEF MemoryInit, MemoryTypeOK

\* Every step keeps the types.
LEMMA MemoryStepTyped == ASSUME MemoryTypeOK, [MemoryNext]_memoryVars PROVE MemoryTypeOK'
<1>1. CASE UNCHANGED memoryVars
  BY <1>1 DEF memoryVars, MemoryTypeOK
<1>2. CASE Pass
  BY <1>2, MemoryAssumption DEF Pass, MemoryTypeOK
<1>3. ASSUME NEW c \in Callers, NEW w \in Ways, NEW ns \in Namespaces, NEW x \in Contents,
             Remember(c, w, ns, x)
      PROVE  MemoryTypeOK'
  <2> DEFINE call == NewCall("remember", "get", <<DbOf[w], ns>>, x)
  <2>1. call \in Call
    BY NewCallTyped DEF Places, Dbs
  <2>2. Begin(c, call) /\ UNCHANGED <<store, now, overfull>>
    BY <1>3 DEF Remember
  <2> HIDE DEF call
  <2>3. caller' \in [Callers -> {Idle} \cup Call]
    BY <2>1, <2>2, BeginTyped
  <2> QED
    BY <2>2, <2>3 DEF MemoryTypeOK
<1>4. ASSUME NEW c \in Callers, GetEntry(c) PROVE MemoryTypeOK'
  <2> DEFINE seen == store[caller[c].place][caller[c].content]
  <2> DEFINE q == [caller[c] EXCEPT !.pc = "put", !.seen = seen]
  <2>1. caller[c] \in Call
    BY <1>4, InCall DEF GetEntry
  <2>2. seen \in {Absent} \cup Entry
    BY <2>1 DEF MemoryTypeOK, Call
  <2>3. q \in Call
    <3> HIDE DEF seen
    <3> QED BY <2>1, <2>2 DEF Call
  <2>4. caller' = [caller EXCEPT ![c] = q] /\ UNCHANGED <<store, now, overfull>>
    BY <1>4 DEF GetEntry
  <2> HIDE DEF q
  <2> QED
    BY <2>3, <2>4, CallerTyped DEF MemoryTypeOK
<1>5. ASSUME NEW c \in Callers, PutEntry(c) PROVE MemoryTypeOK'
  <2> DEFINE q == [caller[c] EXCEPT !.pc = "list", !.seen = Absent]
  <2> DEFINE e == [count |-> Capped(caller[c].seen.count + 1), at |-> caller[c].time]
  <2>1. caller[c] \in Call
    BY <1>5, InCall DEF PutEntry
  <2>2. q \in Call
    BY <2>1 DEF Call
  <2>3. e \in Entry
    <3>1. caller[c].seen.count \in -1..MaxCount /\ caller[c].time \in 0..MaxNow
      BY <2>1, EntryFields DEF Call
    <3>2. Capped(caller[c].seen.count + 1) \in 0..MaxCount
      BY <3>1, MemoryAssumption DEF Capped
    <3> QED BY <3>1, <3>2 DEF Entry
  <2>4. store' = [store EXCEPT ![caller[c].place][caller[c].content] = e]
    BY <1>5 DEF PutEntry
  <2>5. store' \in [Places -> [Contents -> {Absent} \cup Entry]]
    <3> HIDE DEF e
    <3> QED BY <2>1, <2>3, <2>4 DEF MemoryTypeOK, Call
  <2>6. caller' = [caller EXCEPT ![c] = q] /\ UNCHANGED <<now, overfull>>
    BY <1>5 DEF PutEntry
  <2> HIDE DEF q
  <2> QED
    BY <2>2, <2>5, <2>6, CallerTyped DEF MemoryTypeOK
<1>6. ASSUME NEW c \in Callers, ListEntries(c) PROVE MemoryTypeOK'
  <2> DEFINE items == Listed(store, caller[c].place)
             apart == caller[c].alone /\ Apart(items)
  <2>1. caller[c] \in Call /\ items \subseteq Memories /\ apart \in BOOLEAN
    BY <1>6, InCall, ListedFacts DEF ListEntries, Call
  <2>2. overfull' \subseteq Places /\ UNCHANGED <<store, now>>
    BY <1>6 DEF ListEntries, MemoryTypeOK
  <2>3. PICK q \in {Idle} \cup Call : caller' = [caller EXCEPT ![c] = q]
    <3>1. CASE Ended(c)
      BY <3>1 DEF Ended
    <3>2. CASE ~Ended(c)
      <4>1. PICK keep \in SUBSET items : Condemn(c, items \ keep)
        BY <1>6, <3>2 DEF ListEntries
      <4> DEFINE q == [caller[c] EXCEPT !.pc = "drop", !.doomed = items \ keep, !.alone = apart]
      <4>2. q \in Call
        <5> HIDE DEF items, apart
        <5> QED BY <2>1 DEF Call
      <4>3. caller' = [caller EXCEPT ![c] = q]
        BY <4>1 DEF Condemn
      <4> QED BY <4>2, <4>3
    <3> QED BY <3>1, <3>2
  <2> QED
    BY <2>2, <2>3, CallerTyped DEF MemoryTypeOK
<1>7. ASSUME NEW c \in Callers, DropEntry(c) PROVE MemoryTypeOK'
  <2>1. caller[c] \in Call
    BY <1>7, InCall DEF DropEntry
  <2>2. PICK i \in caller[c].doomed :
          /\ store' = [store EXCEPT ![caller[c].place][i[2]] = Absent]
          /\ IF caller[c].doomed = {i}
             THEN Ended(c)
             ELSE caller' = [caller EXCEPT ![c].doomed = @ \ {i}]
    BY <1>7 DEF DropEntry
  <2>3. store' \in [Places -> [Contents -> {Absent} \cup Entry]]
    BY <2>1, <2>2 DEF MemoryTypeOK, Call
  <2> DEFINE q == [caller[c] EXCEPT !.doomed = @ \ {i}]
  <2>4. q \in Call
    BY <2>1 DEF Call
  <2>5. caller' = [caller EXCEPT ![c] = Idle] \/ caller' = [caller EXCEPT ![c] = q]
    BY <2>2 DEF Ended
  <2> HIDE DEF q
  <2>6. caller' \in [Callers -> {Idle} \cup Call]
    BY <2>4, <2>5, CallerTyped
  <2> QED
    BY <1>7, <2>3, <2>6 DEF DropEntry, MemoryTypeOK
<1>8. ASSUME NEW c \in Callers, BreakOff(c) PROVE MemoryTypeOK'
  <2>1. caller' \in [Callers -> {Idle} \cup Call]
    BY <1>8, CallerTyped DEF BreakOff, Ended
  <2>2. caller[c].place \in Places
    BY <1>8, InCall DEF BreakOff, Call
  <2> QED
    BY <1>8, <2>1, <2>2 DEF BreakOff, MemoryTypeOK
<1>9. ASSUME NEW c \in Callers, NEW p \in Places, ForgetScope(c, p) \/ \E x \in Contents : Forget(c, p, x)
      PROVE  MemoryTypeOK'
  <2>1. PICK call \in Call : Deletes(c, p, call)
    BY <1>9, DeleteTyped
  <2>2. caller' \in [Callers -> {Idle} \cup Call]
    BY <2>1, BeginTyped DEF Deletes
  <2> QED
    BY <2>1, <2>2 DEF Deletes, MemoryTypeOK
<1> QED
  BY <1>1, <1>2, <1>3, <1>4, <1>5, <1>6, <1>7, <1>8, <1>9 DEF MemoryNext

-----------------------------------------------------------------------------
(* The limit.                                                              *)

\* A place that nobody looked at less, and that holds no more, is as well
\* limited as before.
LEMMA LimitCarried ==
  ASSUME MemoryTypeOK, LimitInv, MaxEntries > 0, NEW p \in Places,
         p \in overfull => p \in overfull', WillLook(p) => WillLook(p)',
         Left(p)' \subseteq Left(p)
  PROVE  p \in overfull' \/ WillLook(p)' \/ WithinLimit(Left(p))'
<1>1. CASE WithinLimit(Left(p))
  <2>1. IsFiniteSet(Left(p))
    BY FS_Subset, MemoryAssumption DEF Left, Items
  <2>2. IsFiniteSet(Left(p)') /\ Cardinality(Left(p)') <= Cardinality(Left(p))
    BY <2>1, FS_Subset
  <2>3. Cardinality(Left(p)) \in Nat /\ Cardinality(Left(p)') \in Nat
    BY <2>1, <2>2, FS_CardinalityType
  <2>4. Cardinality(Left(p)') <= MaxEntries
    BY <1>1, <2>2, <2>3, MemoryAssumption DEF WithinLimit
  <2> QED
    BY <2>4 DEF WithinLimit
<1> QED
  BY <1>1 DEF LimitInv

\* A call that begins ends nobody's look and saves no entry from deletion.
LEMMA BeginLimit ==
  ASSUME MemoryTypeOK, NEW c \in Callers, NEW call \in Call, Begin(c, call),
         UNCHANGED store, NEW p \in Places
  PROVE  (WillLook(p) => WillLook(p)') /\ Left(p)' \subseteq Left(p)
<1>1. caller[c].pc \notin {"get", "put", "list", "drop"}
  BY BeginTyped, InCall
<1>2. ASSUME NEW d \in Callers \ {c}, caller[d].pc \in {"get", "put", "list", "drop"}
      PROVE  /\ caller'[d].pc = caller[d].pc /\ caller'[d].place = caller[d].place
             /\ caller'[d].doomed = caller[d].doomed
  BY <1>2, BeginTyped, InCall DEF SameCall
<1> QED
  BY <1>1, <1>2 DEF WillLook, Left

\* Initially no place holds anything.
LEMMA LimitInit == MemoryInit => LimitInv
<1> SUFFICES ASSUME MemoryInit, MaxEntries > 0, NEW p \in Places
             PROVE  WithinLimit(Left(p))
  BY DEF LimitInv
<1>1. Left(p) = {}
  BY DEF MemoryInit, Left, Items
<1> QED
  BY <1>1, FS_EmptySet, MemoryAssumption DEF WithinLimit

\* Every step keeps the limit.
LEMMA LimitStep ==
  ASSUME MemoryTypeOK, LimitInv, [MemoryNext]_memoryVars PROVE LimitInv'
<1> SUFFICES ASSUME MaxEntries > 0, NEW p \in Places
             PROVE  p \in overfull' \/ WillLook(p)' \/ WithinLimit(Left(p))'
  BY DEF LimitInv
<1> DEFINE Carried == /\ p \in overfull => p \in overfull'
                      /\ WillLook(p) => WillLook(p)'
                      /\ Left(p)' \subseteq Left(p)
<1>0. ASSUME Carried PROVE p \in overfull' \/ WillLook(p)' \/ WithinLimit(Left(p))'
  BY <1>0, LimitCarried
<1>1. CASE UNCHANGED memoryVars
  BY <1>0, <1>1 DEF memoryVars, WillLook, Left
<1>2. CASE Pass
  BY <1>0, <1>2 DEF Pass, WillLook, Left
<1>3. ASSUME NEW c \in Callers, NEW w \in Ways, NEW ns \in Namespaces, NEW x \in Contents,
             Remember(c, w, ns, x)
      PROVE  Carried
  <2>1. NewCall("remember", "get", <<DbOf[w], ns>>, x) \in Call
    BY NewCallTyped DEF Places, Dbs
  <2> QED
    BY <1>3, <2>1, BeginLimit DEF Remember
<1>4. ASSUME NEW c \in Callers, GetEntry(c) \/ PutEntry(c)
      PROVE  p \in overfull' \/ WillLook(p)' \/ WithinLimit(Left(p))'
  <2>1. /\ caller[c] \in Call /\ caller[c].place \in Places
        /\ caller[c].pc \in {"get", "put"} /\ UNCHANGED overfull
    BY <1>4, InCall DEF GetEntry, PutEntry, Call
  <2>2. /\ caller'[c].pc \in {"put", "list"} /\ caller'[c].place = caller[c].place
        /\ \A d \in Callers \ {c} : caller'[d] = caller[d]
    BY <1>4, <2>1 DEF GetEntry, PutEntry, MemoryTypeOK, Call
  <2>3. CASE caller[c].place = p
    BY <2>2, <2>3 DEF WillLook
  <2>4. CASE caller[c].place # p
    <3>1. store'[p] = store[p]
      BY <1>4, <2>1, <2>4 DEF GetEntry, PutEntry, MemoryTypeOK
    <3>2. Carried
      BY <2>1, <2>2, <2>4, <3>1 DEF WillLook, Left
    <3> QED
      BY <1>0, <3>2
  <2> QED
    BY <2>3, <2>4
<1>5. ASSUME NEW c \in Callers, ListEntries(c)
      PROVE  p \in overfull' \/ WillLook(p)' \/ WithinLimit(Left(p))'
  <2> DEFINE items == Listed(store, caller[c].place)
  <2>1. /\ caller[c] \in Call /\ caller[c].place \in Places /\ caller[c].pc = "list"
        /\ overfull' = overfull \ {caller[c].place} /\ UNCHANGED store
        /\ \A d \in Callers \ {c} : caller'[d] = caller[d]
    BY <1>5, Listing DEF Call
  <2>2. \/ WithinLimit(items) /\ caller'[c] = Idle
        \/ \E keep \in SUBSET items :
             Cardinality(keep) = MaxEntries /\ Condemned(caller'[c], caller[c], items \ keep)
    <3>1. ~(MaxEntries <= 0)
      BY MemoryAssumption
    <3> QED
      BY <1>5, <3>1, Listing
  <2>4. CASE caller[c].place # p
    <3>1. caller'[c].pc = "drop" => caller'[c].place = caller[c].place
      BY <2>2 DEF Condemned, Idle
    <3>2. Carried
      BY <2>1, <2>4, <3>1 DEF WillLook, Left
    <3> QED
      BY <1>0, <3>2
  <2>5. CASE caller[c].place = p
    <3>0. \A x \in Items(store[p]) : x \in Contents /\ <<p, x>> \in items
      BY <2>5, ListedFacts DEF Items
    <3>1. PICK keep \in SUBSET items :
            WithinLimit(keep) /\ \A x \in Left(p)' : x \in Contents /\ <<p, x>> \in keep
      <4>1. CASE WithinLimit(items)
        BY <2>1, <3>0, <4>1 DEF Left
      <4>2. ASSUME NEW keep \in SUBSET items, Cardinality(keep) = MaxEntries,
                   Condemned(caller'[c], caller[c], items \ keep)
            PROVE  WithinLimit(keep) /\ \A x \in Left(p)' : x \in Contents /\ <<p, x>> \in keep
        <5>1. caller'[c].pc = "drop" /\ caller'[c].place = p /\ caller'[c].doomed = items \ keep
          BY <2>5, <4>2 DEF Condemned
        <5>2. ASSUME NEW x \in Left(p)' PROVE x \in Contents /\ <<p, x>> \in keep
          <6>1. x \in Items(store[p]) /\ \A i \in items \ keep : i[2] # x
            BY <2>1, <5>1, <5>2 DEF Left
          <6> HIDE DEF items
          <6> QED
            BY <3>0, <6>1
        <5> QED
          BY <4>2, <5>2, MemoryAssumption DEF WithinLimit
      <4> QED
        BY <2>2, <4>1, <4>2
    <3>2. IsFiniteSet(keep)
      BY <2>1, ListedFacts, FS_Subset
    <3> DEFINE f == [x \in Left(p)' |-> <<p, x>>]
    <3>3. f \in [Left(p)' -> keep] /\ \A x \in Left(p)', y \in Left(p)' : f[x] = f[y] => x = y
      BY <3>1
    <3>4. f \in Injection(Left(p)', keep)
      <4> HIDE DEF f
      <4> QED BY <3>3, Fun_IsInj
    <3>5. IsFiniteSet(Left(p)') /\ Cardinality(Left(p)') <= Cardinality(keep)
      BY <3>2, <3>4, FS_Injection
    <3>6. Cardinality(keep) \in Nat /\ Cardinality(Left(p)') \in Nat
      BY <3>2, <3>5, FS_CardinalityType
    <3>7. Cardinality(Left(p)') <= MaxEntries
      BY <3>1, <3>5, <3>6, MemoryAssumption DEF WithinLimit
    <3> QED
      BY <3>7 DEF WithinLimit
  <2> QED
    BY <2>4, <2>5
<1>6. ASSUME NEW c \in Callers, DropEntry(c) PROVE Carried
  <2>1. PICK i \in caller[c].doomed :
          /\ store' = [store EXCEPT ![caller[c].place][i[2]] = Absent]
          /\ IF caller[c].doomed = {i}
             THEN Ended(c)
             ELSE caller' = [caller EXCEPT ![c].doomed = @ \ {i}]
    BY <1>6 DEF DropEntry
  <2>2. /\ caller[c] \in Call /\ caller[c].place \in Places /\ caller[c].pc = "drop"
        /\ UNCHANGED overfull /\ i[2] \in Contents
    BY <1>6, InCall DEF DropEntry, Call, Memories
  <2>3. /\ \A d \in Callers \ {c} : caller'[d] = caller[d]
        /\ \/ caller[c].doomed = {i} /\ caller'[c] = Idle
           \/ caller'[c] = [caller[c] EXCEPT !.doomed = @ \ {i}]
    BY <2>1 DEF Ended, MemoryTypeOK
  <2>4. WillLook(p) => WillLook(p)'
    BY <2>2, <2>3 DEF WillLook
  <2>5. ASSUME NEW y \in Left(p)' PROVE y \in Left(p)
    <3>1. y \in Items(store[p])
      BY <2>1, <2>2 DEF Left, Items, MemoryTypeOK
    <3>2. caller[c].place = p => y # i[2]
      BY <2>1, <2>2 DEF Left, Items, MemoryTypeOK
    <3>3. ASSUME caller[c].place = p PROVE \A j \in caller[c].doomed : j[2] # y
      <4>1. CASE caller[c].doomed = {i}
        BY <3>2, <3>3, <4>1
      <4>2. CASE caller'[c] = [caller[c] EXCEPT !.doomed = @ \ {i}]
        <5>1. caller'[c].pc = "drop" /\ caller'[c].place = p /\ caller'[c].doomed = caller[c].doomed \ {i}
          BY <2>2, <3>3, <4>2 DEF Call
        <5> QED
          BY <3>2, <3>3, <5>1 DEF Left
      <4> QED
        BY <2>3, <4>1, <4>2
    <3> QED
      BY <2>3, <3>1, <3>3 DEF Left
  <2> QED
    BY <2>2, <2>4, <2>5
<1>7. ASSUME NEW c \in Callers, BreakOff(c)
      PROVE  p \in overfull' \/ WillLook(p)' \/ WithinLimit(Left(p))'
  <2>1. /\ \A d \in Callers \ {c} : caller'[d] = caller[d]
        /\ caller'[c] = Idle /\ overfull' = overfull \cup {caller[c].place} /\ UNCHANGED store
    BY <1>7 DEF BreakOff, Ended, MemoryTypeOK
  <2>2. CASE caller[c].place # p
    <3>1. Carried
      BY <2>1, <2>2 DEF WillLook, Left, Idle
    <3> QED
      BY <1>0, <3>1
  <2> QED
    BY <2>1, <2>2
<1>8. ASSUME NEW c \in Callers, NEW q \in Places,
             ForgetScope(c, q) \/ \E x \in Contents : Forget(c, q, x)
      PROVE  Carried
  <2>1. PICK call \in Call : Deletes(c, q, call)
    BY <1>8, DeleteTyped
  <2> QED
    BY <2>1, BeginLimit DEF Deletes
<1> QED
  BY <1>0, <1>1, <1>2, <1>3, <1>4, <1>5, <1>6, <1>7, <1>8 DEF MemoryNext

-----------------------------------------------------------------------------
(* A call of remember that is alone.                                       *)

\* Every step keeps the clock ahead.
LEMMA TimesStep ==
  ASSUME MemoryTypeOK, TimesPast, [MemoryNext]_memoryVars PROVE TimesPast'
<1>t. now \in Nat /\ \A p \in Places, x \in Contents : store[p][x].at \in Nat
  BY RowTyped, MemoryAssumption DEF MemoryTypeOK
<1>1. CASE UNCHANGED memoryVars
  BY <1>1 DEF memoryVars, TimesPast
<1>2. CASE Pass
  <2>1. now' = now + 1 /\ UNCHANGED <<store, caller>>
    BY <1>2 DEF Pass
  <2>2. \A c \in Callers : caller[c] # Idle => caller[c].time \in Int
    BY InCall DEF Call
  <2> QED
    BY <1>t, <2>1, <2>2 DEF TimesPast
<1>3. ASSUME NEW c \in Callers, NEW call \in Call, call.time = now, Begin(c, call),
             UNCHANGED <<store, now>>
      PROVE  TimesPast'
  <2>1. caller'[c].time = now
    BY <1>3, BeginTyped DEF SameCall
  <2>2. ASSUME NEW d \in Callers \ {c}, caller'[d] # Idle
        PROVE  caller'[d].time = caller[d].time /\ caller[d] # Idle
    BY <1>3, <2>2, BeginTyped, InCall DEF SameCall
  <2> QED
    BY <1>3, <1>t, <2>1, <2>2 DEF TimesPast
<1>5. ASSUME NEW c \in Callers, NEW w \in Ways, NEW ns \in Namespaces, NEW x \in Contents,
             Remember(c, w, ns, x)
      PROVE  TimesPast'
  <2> DEFINE call == NewCall("remember", "get", <<DbOf[w], ns>>, x)
  <2>1. call \in Call
    BY NewCallTyped DEF Places, Dbs
  <2>2. call.time = now
    BY DEF NewCall
  <2> HIDE DEF call
  <2> QED
    BY <1>3, <1>5, <2>1, <2>2 DEF Remember, call
<1>6. ASSUME NEW c \in Callers, NEW p \in Places,
             ForgetScope(c, p) \/ \E x \in Contents : Forget(c, p, x)
      PROVE  TimesPast'
  <2>1. PICK call \in Call : Deletes(c, p, call)
    BY <1>6, DeleteTyped
  <2> QED
    BY <1>3, <2>1 DEF Deletes
<1>7. ASSUME NEW c \in Callers, GetEntry(c) PROVE TimesPast'
  <2>1. \A d \in Callers : caller'[d] # Idle => caller[d] # Idle /\ caller'[d].time = caller[d].time
    BY <1>7, InCall DEF GetEntry, MemoryTypeOK, Call
  <2> QED
    BY <1>7, <2>1 DEF GetEntry, TimesPast
<1>8. ASSUME NEW c \in Callers, PutEntry(c) PROVE TimesPast'
  <2>1. \A d \in Callers : caller'[d] # Idle => caller[d] # Idle /\ caller'[d].time = caller[d].time
    BY <1>8, InCall DEF PutEntry, MemoryTypeOK, Call
  <2>2. caller[c] \in Call /\ caller[c].time <= now
    BY <1>8, InCall DEF PutEntry, TimesPast
  <2>3. \A p \in Places, x \in Contents : store'[p][x].at <= now
    BY <1>8, <2>2 DEF PutEntry, MemoryTypeOK, Call, TimesPast
  <2> QED
    BY <1>8, <2>1, <2>3 DEF PutEntry, TimesPast
<1>9. ASSUME NEW c \in Callers, ListEntries(c) PROVE TimesPast'
  <2>1. \A d \in Callers : caller'[d] # Idle => caller[d] # Idle /\ caller'[d].time = caller[d].time
    BY <1>9, Listing, InCall DEF Condemned
  <2> QED
    BY <1>9, <2>1 DEF ListEntries, TimesPast
<1>10. ASSUME NEW c \in Callers, DropEntry(c) PROVE TimesPast'
  <2>1. \A d \in Callers : caller'[d] # Idle => caller[d] # Idle /\ caller'[d].time = caller[d].time
    BY <1>10, InCall DEF DropEntry, Ended, MemoryTypeOK, Call
  <2>2. caller[c] \in Call
    BY <1>10, InCall DEF DropEntry
  <2>3. \A p \in Places, x \in Contents : store'[p][x].at <= now
    BY <1>10, <1>t, <2>2 DEF DropEntry, MemoryTypeOK, Call, TimesPast, Absent
  <2> QED
    BY <1>10, <2>1, <2>3 DEF DropEntry, TimesPast
<1>11. ASSUME NEW c \in Callers, BreakOff(c) PROVE TimesPast'
  BY <1>11 DEF BreakOff, Ended, MemoryTypeOK, TimesPast
<1> QED
  BY <1>1, <1>2, <1>5, <1>6, <1>7, <1>8, <1>9, <1>10, <1>11 DEF MemoryNext

Lone(c) ==
  /\ \A d \in Callers \ {c} : caller[d] = Idle
  /\ caller[c].op = "remember" => Undisturbed(c)

\* A memory that is stored is among what its place lists.
LEMMA StoredListed ==
  ASSUME NEW c \in Callers, caller[c] \in Call, Stored(c)
  PROVE  <<caller[c].place, caller[c].content>> \in Listed(store, caller[c].place)
<1>1. caller[c].place \in Places /\ caller[c].content \in Contents /\ caller[c].was \in -1..MaxCount
  BY DEF Call
<1>2. Capped(caller[c].was + 1) # -1
  BY <1>1, MemoryAssumption DEF Capped
<1>3. caller[c].content \in Items(store[caller[c].place])
  BY <1>1, <1>2 DEF Stored, Items, Absent
<1> QED
  BY <1>1, <1>3, ListedFacts

\* What is enough is enough with more.
LEMMA EnoughMore ==
  ASSUME NEW S, NEW T, S \subseteq T, IsFiniteSet(T), Cardinality(S) >= MaxEntries
  PROVE  Cardinality(T) >= MaxEntries
<1>1. IsFiniteSet(S) /\ Cardinality(S) <= Cardinality(T)
  BY FS_Subset
<1>2. Cardinality(S) \in Nat /\ Cardinality(T) \in Nat
  BY <1>1, FS_CardinalityType
<1> QED
  BY <1>1, <1>2, MemoryAssumption

\* A call that moves on alone finds what it left.
LEMMA LoneStep ==
  ASSUME MemoryTypeOK, TimesPast, NEW c \in Callers, caller[c] \in Call, Lone(c),
         caller[c].op = "remember",
         GetEntry(c) \/ PutEntry(c) \/ ListEntries(c) \/ DropEntry(c),
         caller'[c] # Idle, caller'[c].alone
  PROVE  Undisturbed(c)'
<1> DEFINE me == caller[c]
           s == store[me.place]
           items == Listed(store, me.place)
           own == <<me.place, me.content>>
           at(i) == store[i[1]][i[2]].at
<1>1. /\ me.place \in Places /\ me.content \in Contents /\ me.time \in Nat
      /\ me.doomed \subseteq Memories
  BY MemoryAssumption DEF Call
<1>2. \A p \in Places, y \in Contents : store[p][y].at \in Nat /\ store[p][y].at <= me.time
  BY RowTyped, MemoryAssumption DEF Lone, Undisturbed
<1>3. CASE GetEntry(c)
  <2>1. me.pc = "get" /\ UNCHANGED store
    BY <1>3 DEF GetEntry
  <2>2. /\ caller'[c].pc = "put" /\ caller'[c].seen = s[me.content] /\ caller'[c].time = me.time
        /\ caller'[c].place = me.place /\ caller'[c].was = me.was
    BY <1>3 DEF GetEntry, MemoryTypeOK, Call
  <2> QED
    BY <1>2, <2>1, <2>2 DEF Lone, Undisturbed
<1>4. CASE PutEntry(c)
  <2> DEFINE e == [count |-> Capped(me.seen.count + 1), at |-> me.time]
  <2>1. me.pc = "put" /\ store' = [store EXCEPT ![me.place][me.content] = e]
    BY <1>4 DEF PutEntry
  <2>2. /\ caller'[c].pc = "list" /\ caller'[c].content = me.content /\ caller'[c].time = me.time
        /\ caller'[c].place = me.place /\ caller'[c].was = me.was
    BY <1>4 DEF PutEntry, MemoryTypeOK, Call
  <2>3. me.seen.count = me.was
    BY <2>1 DEF Lone, Undisturbed
  <2>4. /\ store'[me.place][me.content] = e
        /\ \A p \in Places, y \in Contents : store'[p][y].at <= me.time
    BY <1>1, <1>2, <2>1 DEF MemoryTypeOK
  <2> QED
    BY <2>2, <2>3, <2>4 DEF Undisturbed, Stored
<1>5. CASE ListEntries(c)
  <2>1. me.pc = "list" /\ UNCHANGED store
    BY <1>5 DEF ListEntries
  <2>2. PICK keep \in SUBSET items :
          /\ MaxEntries > 0 /\ Cardinality(keep) = MaxEntries
          /\ \A i \in keep, j \in items \ keep : ~Newer(store, j, i)
          /\ Condemned(caller'[c], me, items \ keep)
    BY <1>5, Listing
  <2>3. /\ caller'[c].pc = "drop" /\ caller'[c].content = me.content /\ caller'[c].time = me.time
        /\ caller'[c].place = me.place /\ caller'[c].was = me.was
        /\ caller'[c].doomed = items \ keep /\ Apart(items)
    BY <2>2 DEF Condemned
  <2>4. Stored(c) /\ own \in items
    BY <2>1, StoredListed DEF Lone, Undisturbed
  <2>5. /\ Listed(store', caller'[c].place) = items
        /\ caller'[c].doomed \subseteq items /\ Apart(items)
    BY <2>1, <2>3
  <2>6. CASE own \in keep
    <3>1. Stored(c)' /\ <<caller'[c].place, caller'[c].content>> \notin caller'[c].doomed
      BY <2>1, <2>3, <2>4, <2>6 DEF Stored
    <3> QED
      BY <1>2, <2>1, <2>3, <2>5, <3>1 DEF Undisturbed
  <2>7. CASE own \notin keep
    <3>1. \A i \in keep : at(i) = me.time
      <4> SUFFICES ASSUME NEW i \in keep PROVE at(i) = me.time
        OBVIOUS
      <4>1. i \in items /\ i[1] \in Places /\ i[2] \in Contents
        BY <1>1, ListedFacts
      <4>2. ~Newer(store, own, i)
        BY <2>2, <2>4, <2>7
      <4>3. at(own) = me.time
        BY <2>4 DEF Stored
      <4>4. at(i) \in Nat /\ at(i) <= me.time
        BY <1>2, <4>1
      <4>5. ~(at(own) > at(i))
        BY <4>2 DEF Newer
      <4> HIDE DEF at
      <4> QED
        BY <1>1, <4>3, <4>4, <4>5
    <3>2. {i \in items : at(i) = me.time} \ (items \ keep) = keep
      BY <3>1
    <3>3. Crowded(c)'
      <4>1. {i \in Listed(store', caller'[c].place) : store'[i[1]][i[2]].at = caller'[c].time}
              \ caller'[c].doomed = keep
        BY <2>1, <2>3, <3>2
      <4>2. MaxEntries > 0 /\ MaxEntries >= MaxEntries /\ Cardinality(keep) = MaxEntries
        BY <2>2, MemoryAssumption
      <4> QED
        BY <4>1, <4>2 DEF Crowded
    <3> QED
      BY <1>2, <2>1, <2>3, <2>5, <3>3 DEF Undisturbed
  <2> QED
    BY <2>6, <2>7
<1>6. CASE DropEntry(c)
  <2>1. PICK i \in me.doomed :
          /\ store' = [store EXCEPT ![me.place][i[2]] = Absent]
          /\ caller' = [caller EXCEPT ![c].doomed = @ \ {i}]
    BY <1>6 DEF DropEntry, Ended, MemoryTypeOK
  <2>2. /\ caller'[c].pc = "drop" /\ caller'[c].content = me.content /\ caller'[c].time = me.time
        /\ caller'[c].place = me.place /\ caller'[c].was = me.was /\ me.pc = "drop"
        /\ caller'[c].doomed = me.doomed \ {i}
    BY <1>6, <2>1 DEF DropEntry, MemoryTypeOK, Call
  <2>3. /\ me.doomed \subseteq items /\ Apart(items)
        /\ (Stored(c) /\ own \notin me.doomed) \/ Crowded(c)
    BY <2>2 DEF Lone, Undisturbed
  <2> DEFINE gone == <<me.place, i[2]>>
  <2>4. /\ i \in items /\ i[1] \in Places /\ i[2] \in Contents
        /\ store'[me.place][i[2]] = Absent
        /\ \A p \in Places, y \in Contents : <<p, y>> # gone => store'[p][y] = store[p][y]
    BY <1>1, <2>1, <2>3, ListedFacts DEF MemoryTypeOK
  <2>5. \A p \in Places, y \in Contents : store'[p][y].at <= me.time
    <3>1. Absent.at <= me.time
      BY <1>1 DEF Absent
    <3> HIDE DEF me
    <3> QED BY <1>2, <2>4, <3>1
  <2>6. /\ Listed(store', me.place) = items \ {gone}
        /\ \A j \in items \ {gone} : store'[j[1]][j[2]] = store[j[1]][j[2]]
    <3>1. \A j \in ({me.place[1]} \X Under[me.place[2]]) \X Contents :
            j[1] \in Places /\ j[2] \in Contents /\ j = <<j[1], j[2]>>
      BY <1>1, MemoryAssumption DEF Places
    <3>2. gone \in ({me.place[1]} \X Under[me.place[2]]) \X Contents
      BY <1>1, <2>4, MemoryAssumption DEF Places
    <3> QED
      BY <2>4, <3>1, <3>2 DEF Listed
  <2>7. gone \in items => gone = i
    BY <2>3, <2>4 DEF Apart
  <2>8. /\ caller'[c].doomed \subseteq Listed(store', caller'[c].place)
        /\ Apart(Listed(store', caller'[c].place))
    BY <2>2, <2>3, <2>6, <2>7 DEF Apart
  <2>9. CASE Stored(c) /\ own \notin me.doomed
    <3>1. own # gone
      BY <2>7, <2>9, StoredListed
    <3>2. store'[me.place][me.content] = s[me.content]
      BY <1>1, <2>4, <3>1
    <3>3. Stored(c)' /\ <<caller'[c].place, caller'[c].content>> \notin caller'[c].doomed
      BY <2>2, <2>9, <3>2 DEF Stored
    <3> QED
      BY <2>2, <2>5, <2>8, <3>3 DEF Undisturbed
  <2>10. CASE Crowded(c)
    <3> DEFINE old == {j \in items : at(j) = me.time} \ me.doomed
               new == {j \in Listed(store', me.place) : store'[j[1]][j[2]].at = me.time}
                        \ (me.doomed \ {i})
    <3>1. old \subseteq new
      BY <2>6, <2>7
    <3>2. IsFiniteSet(new)
      BY <1>1, ListedFacts, FS_Subset
    <3>3. MaxEntries > 0 /\ Cardinality(old) >= MaxEntries
      BY <2>10 DEF Crowded
    <3>4. MaxEntries > 0 /\ Cardinality(new) >= MaxEntries
      BY <3>1, <3>2, <3>3, EnoughMore
    <3>5. Crowded(c)'
      BY <2>2, <3>4 DEF Crowded
    <3> QED
      BY <2>2, <2>5, <2>8, <3>5 DEF Undisturbed
  <2> QED
    BY <2>3, <2>9, <2>10
<1> QED
  BY <1>3, <1>4, <1>5, <1>6

\* Every step keeps what a call that is alone finds.
LEMMA AloneStep ==
  ASSUME MemoryTypeOK, TimesPast, AloneInv, [MemoryNext]_memoryVars PROVE AloneInv'
<1> SUFFICES ASSUME NEW c \in Callers, caller'[c] # Idle, caller'[c].alone
             PROVE  Lone(c)'
  BY DEF AloneInv, Lone
<1>a. ASSUME caller[c] # Idle, caller[c].alone PROVE Lone(c)
  BY <1>a DEF AloneInv, Lone
<1>1. CASE UNCHANGED memoryVars
  BY <1>1, <1>a DEF memoryVars, Lone, Undisturbed, Stored, Crowded
<1>2. CASE Pass
  BY <1>2, <1>a DEF Pass, Lone, Undisturbed, Stored, Crowded
<1>3. ASSUME NEW d \in Callers, NEW call \in Call, Begin(d, call), UNCHANGED store,
             call.op = "remember" =>
                /\ call.pc = "get" /\ call.time = now
                /\ call.was = store[call.place][call.content].count
      PROVE  Lone(c)'
  <2>1. d = c
    BY <1>3, BeginTyped
  <2>2. caller'[c] = call /\ \A e \in Callers \ {c} : caller'[e] = Idle
    BY <1>3, <2>1, BeginTyped
  <2>3. CASE call.op = "remember"
    <3>1. \A p \in Places, y \in Contents : store[p][y].at <= now
      BY DEF TimesPast
    <3> QED
      BY <1>3, <2>2, <2>3, <3>1 DEF Lone, Undisturbed
  <2> QED
    BY <2>2, <2>3 DEF Lone
<1>4. ASSUME NEW d \in Callers, NEW w \in Ways, NEW ns \in Namespaces, NEW x \in Contents,
             Remember(d, w, ns, x)
      PROVE  Lone(c)'
  <2> DEFINE call == NewCall("remember", "get", <<DbOf[w], ns>>, x)
  <2>1. call \in Call
    BY NewCallTyped DEF Places, Dbs
  <2>2. /\ call.pc = "get" /\ call.time = now
        /\ call.was = store[call.place][call.content].count
    BY DEF NewCall
  <2> HIDE DEF call
  <2> QED
    BY <1>3, <1>4, <2>1, <2>2 DEF Remember, call
<1>5. ASSUME NEW d \in Callers, NEW p \in Places,
             ForgetScope(d, p) \/ \E x \in Contents : Forget(d, p, x)
      PROVE  Lone(c)'
  <2>1. PICK call \in Call : Deletes(d, p, call)
    BY <1>5, DeleteTyped
  <2> QED
    BY <1>3, <2>1 DEF Deletes
<1>6. ASSUME NEW d \in Callers, BreakOff(d) PROVE Lone(c)'
  <2>1. caller'[d] = Idle /\ caller[d] # Idle /\ \A e \in Callers \ {d} : caller'[e] = caller[e]
    BY <1>6 DEF BreakOff, Ended, MemoryTypeOK
  <2> QED
    BY <1>a, <2>1 DEF Lone
<1>7. ASSUME NEW d \in Callers, GetEntry(d) \/ PutEntry(d) \/ ListEntries(d) \/ DropEntry(d)
      PROVE  Lone(c)'
  <2>1. caller[d] \in Call /\ caller[d] # Idle
    BY <1>7, InCall DEF GetEntry, PutEntry, ListEntries, DropEntry
  <2>2. \A e \in Callers \ {d} : caller'[e] = caller[e]
    BY <1>7, Listing DEF GetEntry, PutEntry, DropEntry, Ended, MemoryTypeOK
  <2>3. d = c
    BY <1>a, <2>1, <2>2 DEF Lone
  <2>4. caller[c].alone /\ caller'[c].op = caller[c].op
    <3>1. CASE ListEntries(c)
      BY <3>1, Listing DEF Condemned
    <3>2. CASE GetEntry(c) \/ PutEntry(c) \/ DropEntry(c)
      BY <2>1, <2>3, <3>2 DEF GetEntry, PutEntry, DropEntry, Ended, MemoryTypeOK, Call
    <3> QED
      BY <1>7, <2>3, <3>1, <3>2
  <2>5. Lone(c)
    BY <1>a, <2>1, <2>3, <2>4
  <2>6. caller[c].op = "remember" => Undisturbed(c)'
    BY <1>7, <2>1, <2>3, <2>5, LoneStep
  <2> QED
    BY <2>2, <2>3, <2>4, <2>5, <2>6 DEF Lone
<1> QED
  BY <1>1, <1>2, <1>4, <1>5, <1>6, <1>7 DEF MemoryNext

-----------------------------------------------------------------------------
(* The theorems.                                                           *)

\* The store, the calls and the clock start as they should be.
LEMMA MemoryBegins == MemoryInit => MemoryIInv
<1> SUFFICES ASSUME MemoryInit PROVE TimesPast /\ AloneInv
  BY MemoryInitTyped, LimitInit DEF MemoryIInv
<1> QED
  BY DEF MemoryInit, TimesPast, AloneInv, Absent

\* Every step keeps the store, the calls and the clock as they should be.
LEMMA MemoryKept == MemoryIInv /\ [MemoryNext]_memoryVars => MemoryIInv'
BY MemoryStepTyped, LimitStep, TimesStep, AloneStep DEF MemoryIInv

\* The store, the calls and the clock are always as they should be.
LEMMA MemoryInvariant == MemorySpec => []MemoryIInv
BY MemoryBegins, MemoryKept, PTL DEF MemorySpec

\* The store, the calls under way and the clock keep their types.
THEOREM MemoryTypeCorrect == MemorySpec => []MemoryTypeOK
<1>1. MemoryIInv => MemoryTypeOK
  BY DEF MemoryIInv
<1> QED
  BY <1>1, MemoryInvariant, PTL

\* A namespace nobody is at work in holds at most max_entries, unless the
\* last call to look broke off, whatever calls have overlapped.
THEOREM LimitHeld == MemorySpec => []LimitKept
<1>1. MemoryIInv => LimitKept
  <2> SUFFICES ASSUME MemoryIInv, MaxEntries > 0, NEW p \in Places, ~Busy(p), p \notin overfull
               PROVE  WithinLimit(Items(store[p]))
    BY DEF LimitKept
  <2>1. \A c \in Callers : caller[c].pc \in {"get", "put", "list", "drop"} => caller[c].place # p
    BY InCall DEF MemoryIInv, Busy
  <2>2. ~WillLook(p) /\ Left(p) = Items(store[p])
    BY <2>1 DEF WillLook, Left
  <2> QED
    BY <2>2 DEF MemoryIInv, LimitInv
<1> QED
  BY <1>1, MemoryInvariant, PTL

\* When a call of remember that was alone returns, its memory is in the store
\* and is shown first, but for others of the same instant.
THEOREM RememberWorks == MemorySpec => RememberHeeded
<1>1. ASSUME MemoryIInv, [MemoryNext]_memoryVars, NEW c \in Callers, Returns(c), caller[c].alone
      PROVE  Heeded(c)
  <2> DEFINE me == caller[c]
             p == me.place
             x == me.content
             own == <<p, x>>
             old == Listed(store, p)
             new == Listed(store', p)
             at(i) == store'[i[1]][i[2]].at
             instant(items) == {j \in items : at(j) = me.time}
             shown == [count |-> Capped(me.was + 1), at |-> me.time]
  <2>1. me \in Call /\ me # Idle /\ caller'[c] = Idle /\ p \in Places /\ x \in Contents /\ me.time \in Nat
    BY <1>1, InCall, MemoryAssumption DEF MemoryIInv, Returns, ListEntries, DropEntry, Call
  <2>2. Undisturbed(c)
    BY <1>1, <2>1 DEF MemoryIInv, AloneInv, Returns
  <2>3. \A q \in Places, y \in Contents : store'[q][y].at \in Nat
    <3>1. store' \in [Places -> [Contents -> {Absent} \cup Entry]]
      BY <1>1, MemoryStepTyped DEF MemoryIInv, MemoryTypeOK
    <3>2. \A e \in {Absent} \cup Entry : e.at \in Nat
      BY EntryFields, MemoryAssumption
    <3> QED
      BY <3>1, <3>2
  <2>4. \/ store' = store /\ Stored(c)
        \/ \E i \in old :
             /\ me.doomed = {i} /\ Apart(old)
             /\ store' = [store EXCEPT ![p][i[2]] = Absent]
             /\ (Stored(c) /\ own # i) \/ Crowded(c)
    <3>1. CASE ListEntries(c)
      BY <2>2, <3>1 DEF ListEntries, Undisturbed
    <3>2. CASE DropEntry(c)
      <4>1. PICK i \in me.doomed :
              /\ store' = [store EXCEPT ![p][i[2]] = Absent]
              /\ me.doomed = {i} \/ caller' = [caller EXCEPT ![c].doomed = @ \ {i}]
        BY <3>2 DEF DropEntry
      <4>2. me.doomed = {i}
        <5> SUFFICES ASSUME caller' = [caller EXCEPT ![c].doomed = @ \ {i}] PROVE FALSE
          BY <4>1
        <5>1. caller'[c].pc = "drop"
          BY <1>1, <2>1, <3>2 DEF DropEntry, MemoryIInv, MemoryTypeOK, Call
        <5> QED
          BY <2>1, <5>1 DEF Idle
      <4> QED
        BY <2>2, <3>2, <4>1, <4>2 DEF DropEntry, Undisturbed
    <3> QED
      BY <1>1, <3>1, <3>2 DEF Returns
  <2>5. \A q \in Places, y \in Contents : store'[q][y].at <= me.time
    <3>1. Absent.at <= me.time
      BY <2>1 DEF Absent
    <3>2. \A q \in Places, y \in Contents : store[q][y].at <= me.time
      BY <2>2 DEF Undisturbed
    <3>3. store' = store \/ \E y \in Contents : store' = [store EXCEPT ![p][y] = Absent]
      BY <2>1, <2>4, ListedFacts
    <3>4. store \in [Places -> [Contents -> {Absent} \cup Entry]]
      BY <1>1 DEF MemoryIInv, MemoryTypeOK
    <3> HIDE DEF me, p
    <3> QED
      BY <2>1, <3>1, <3>2, <3>3, <3>4
  <2>6. CASE Stored(c) /\ (store' = store \/ store'[p][x] = store[p][x])
    <3>1. store'[p][x] = shown
      BY <2>6 DEF Stored
    <3>2. ASSUME NEW j \in ShownBefore(store', p, own) PROVE at(j) = me.time
      <4>1. j \in Listed(store', p) /\ ~Newer(store', own, j)
        BY DEF ShownBefore
      <4>2. j[1] \in Places /\ j[2] \in Contents
        BY <2>1, <4>1, ListedFacts
      <4>3. at(own) = me.time /\ ~(at(own) > at(j))
        BY <3>1, <4>1 DEF Newer
      <4>4. at(j) \in Nat /\ at(j) <= me.time
        BY <2>3, <2>5, <4>2
      <4> HIDE DEF at
      <4> QED
        BY <2>1, <4>3, <4>4
    <3>3. instant(ShownBefore(store', p, own)) = ShownBefore(store', p, own)
      BY <3>2
    <3> QED
      BY <3>1, <3>3 DEF Heeded
  <2>7. ASSUME NEW i \in old, me.doomed = {i}, Apart(old),
               store' = [store EXCEPT ![p][i[2]] = Absent],
               (Stored(c) /\ own # i) \/ Crowded(c)
        PROVE  Heeded(c)
    <3> DEFINE gone == <<p, i[2]>>
    <3>1. gone \in old => gone = i
      BY <2>7 DEF Apart
    <3>2. /\ i[1] \in Places /\ i[2] \in Contents
          /\ \A q \in Places, y \in Contents : <<q, y>> # gone => store'[q][y] = store[q][y]
      BY <1>1, <2>1, <2>7, ListedFacts DEF MemoryIInv, MemoryTypeOK
    <3>3. CASE Stored(c) /\ own # i
      <4>1. own # gone
        BY <2>1, <3>1, <3>3, StoredListed
      <4>2. store'[p][x] = store[p][x]
        BY <2>1, <3>2, <4>1
      <4> QED
        BY <2>6, <3>3, <4>2
    <3>4. CASE Crowded(c)
      <4> DEFINE kept == {j \in old : store[j[1]][j[2]].at = me.time} \ me.doomed
      <4>1. kept \subseteq instant(new)
        <5> SUFFICES ASSUME NEW j \in kept PROVE j \in instant(new)
          OBVIOUS
        <5>1. j \in old /\ j # gone /\ j[1] \in Places /\ j[2] \in Contents /\ j = <<j[1], j[2]>>
          BY <2>1, <2>7, <3>1, ListedFacts
        <5>2. store'[j[1]][j[2]] = store[j[1]][j[2]]
          BY <3>2, <5>1
        <5> QED
          BY <5>1, <5>2 DEF Listed
      <4>2. IsFiniteSet(instant(new))
        BY <2>1, ListedFacts, FS_Subset
      <4>3. MaxEntries > 0 /\ Cardinality(kept) >= MaxEntries
        BY <3>4 DEF Crowded
      <4>4. Cardinality(instant(new)) >= MaxEntries
        BY <4>1, <4>2, <4>3, EnoughMore
      <4> QED
        BY <4>3, <4>4 DEF Heeded
    <3> QED
      BY <2>7, <3>3, <3>4
  <2> QED
    BY <2>4, <2>6, <2>7
<1>2. /\ MemoryIInv /\ [MemoryNext]_memoryVars
      => [\A c \in Callers : Returns(c) /\ caller[c].alone => Heeded(c)]_memoryVars
  BY <1>1
<1> QED
  BY <1>2, MemoryInvariant, PTL DEF MemorySpec, RememberHeeded

-----------------------------------------------------------------------------
(* The chat's session memory.                                              *)

SaveWritten == {"open_history", "fill_history", "open_meta", "fill_meta"}

DiskTyped ==
  disk \in [history : Histories \cup {NoHistory, TornHistory}, meta : Meta \cup {NoMeta, TornMeta}]

\* what save has merged is what it will write
MergedCounts == chatAt \in SaveWritten => merged \in Meta /\ merged.count = history.count

\* no meta file counts more than the loop has, but for a turn that shortened it
MetaBehind == Readable(disk.meta) /\ ~shrunk => disk.meta.count <= history.count

\* the history is written first, and may since have been removed
HistoryFirst ==
  chatAt \in {"open_meta", "fill_meta"} => disk.history \in {NoHistory, history}

\* where a save that no removal overlaps has come to
SaveProgress ==
  alone => /\ purging # "removing"
           /\ chatAt = "fill_history" => disk.history = TornHistory
           /\ chatAt \in {"open_meta", "fill_meta"} => disk.history = history
           /\ chatAt = "fill_meta" => disk.meta = TornMeta

\* saved says what the disk holds, and nothing while a save is under way
SavedHolds ==
  /\ saved /\ alone => disk.history = history /\ disk.meta.count = history.count
  /\ chatAt \in SaveWritten \cup {"merge"} => ~saved

ChatParts ==
  MergedCounts /\ MetaBehind /\ HistoryFirst /\ CountNeverAhead /\ SaveProgress /\ SavedHolds

ChatIInv == ChatTypeOK /\ DiskTyped /\ ChatParts

-----------------------------------------------------------------------------
\* What is written to one file leaves the other alone.
LEMMA DiskWrites ==
  ASSUME DiskTyped, NEW h, NEW m
  PROVE  /\ [disk EXCEPT !.history = h].history = h
         /\ [disk EXCEPT !.history = h].meta = disk.meta
         /\ [disk EXCEPT !.meta = m].meta = m
         /\ [disk EXCEPT !.meta = m].history = disk.history
BY DEF DiskTyped

\* So the disk keeps its type when a file gets a value of its own.
LEMMA DiskStepTyped ==
  ASSUME DiskTyped,
         \/ \E h \in Histories \cup {NoHistory, TornHistory} : disk' = [disk EXCEPT !.history = h]
         \/ \E m \in Meta \cup {NoMeta, TornMeta} : disk' = [disk EXCEPT !.meta = m]
         \/ disk' = disk
  PROVE  DiskTyped'
<1> DEFINE M == Meta \cup {NoMeta, TornMeta}
<1> DEFINE H == Histories \cup {NoHistory, TornHistory}
<1> DiskTyped <=> disk \in [history : H, meta : M]
  BY DEF DiskTyped
<1> DiskTyped' <=> disk' \in [history : H, meta : M]
  BY DEF DiskTyped
<1> HIDE DEF M, H
<1>1. ASSUME NEW h \in H, disk' = [disk EXCEPT !.history = h] PROVE DiskTyped'
  BY <1>1
<1>2. ASSUME NEW m \in M, disk' = [disk EXCEPT !.meta = m] PROVE DiskTyped'
  BY <1>2
<1>3. CASE disk' = disk
  BY <1>3
<1> QED
  BY <1>1, <1>2, <1>3 DEF M, H

\* What the files count, or that they cannot be read.
LEMMA Counts ==
  ASSUME DiskTyped
  PROVE  /\ disk.history \in Histories \cup {NoHistory, TornHistory}
         /\ disk.history.count \in Lengths \cup {Missing, Torn}
         /\ disk.meta.count \in Lengths \cup {Missing, Torn}
         /\ Readable(disk.meta) => disk.meta \in Meta
         /\ NoMeta.count = Missing /\ TornMeta.count = Torn
         /\ NoHistory.count = Missing /\ TornHistory.count = Torn
<1>1. /\ NoMeta.count = Missing /\ TornMeta.count = Torn
      /\ NoHistory.count = Missing /\ TornHistory.count = Torn
  BY DEF NoMeta, TornMeta, NoHistory, TornHistory
<1>2. (disk.meta \in Meta => disk.meta.count \in Lengths)
      /\ (disk.history \in Histories => disk.history.count \in Lengths)
  BY DEF Meta, Histories
<1>3. /\ disk.history \in Histories \cup {NoHistory, TornHistory}
      /\ disk.meta \in Meta \cup {NoMeta, TornMeta}
  BY DEF DiskTyped
<1> QED
  BY <1>1, <1>2, <1>3 DEF Readable, Missing, Torn

\* Every step keeps the types.
LEMMA ChatTypesKept ==
  ASSUME ChatIInv, [ChatNext]_chatVars
  PROVE  ChatTypeOK' /\ DiskTyped'
<1>1. /\ ChatTypeOK /\ DiskTyped /\ MergedCounts
      /\ ChatTypeOK' <=>
           /\ chatAt' \in {"prompt", "turn", "over"} \cup InSave
           /\ planMode' \in BOOLEAN /\ leaving' \in BOOLEAN /\ dir' \in BOOLEAN
           /\ history' \in Histories /\ shrunk' \in BOOLEAN
           /\ merged' \in Meta \cup {NoMeta}
           /\ disk'.history \in Histories \cup {NoHistory, TornHistory}
           /\ disk'.meta \in Meta \cup {NoMeta, TornMeta}
           /\ saved' \in BOOLEAN /\ alone' \in BOOLEAN
           /\ purging' \in {"no", "listed", "removing"} /\ doomed' \subseteq {"history", "meta"}
           /\ clock' \in Times
  BY DEF ChatIInv, ChatParts, ChatTypeOK
<1>2. DiskTyped'
  <2>1. CASE disk' = disk
    BY <1>1, <2>1, DiskStepTyped
  <2>2. CASE OpenHistory
    BY <1>1, <2>2, DiskStepTyped DEF OpenHistory
  <2>3. CASE FillHistory
    BY <1>1, <2>3, DiskStepTyped DEF FillHistory, ChatTypeOK
  <2>4. CASE OpenMeta
    BY <1>1, <2>4, DiskStepTyped DEF OpenMeta
  <2>5. CASE FillMeta
    BY <1>1, <2>5, DiskStepTyped DEF FillMeta, Saving, MergedCounts, SaveWritten
  <2>6. CASE RmtreeUnlinks
    <3>1. disk' = [disk EXCEPT !.history = NoHistory] \/ disk' = [disk EXCEPT !.meta = NoMeta]
      BY <2>6 DEF RmtreeUnlinks
    <3> QED
      BY <1>1, <3>1, DiskStepTyped
  <2> QED
    BY <2>1, <2>2, <2>3, <2>4, <2>5, <2>6
       DEF ChatNext, Save, Purge, chatVars, Ask, Leave, ChatDies, EndTurn, MakeDir, MergeMeta,
           WriteFails, PurgeLists, RmtreeScans, RmtreeEnds, DayPasses, UnchangedDisk
<1>3. /\ disk'.history \in Histories \cup {NoHistory, TornHistory}
      /\ disk'.meta \in Meta \cup {NoMeta, TornMeta}
  BY <1>2 DEF DiskTyped
<1>4. history' \in Histories /\ shrunk' \in BOOLEAN /\ clock' \in Times
  <2>1. history \in Histories /\ shrunk \in BOOLEAN /\ clock \in Times
    BY DEF ChatIInv, ChatTypeOK
  <2>2. ASSUME NEW count \in Lengths, EndTurn(count)
        PROVE  history' \in Histories /\ shrunk' \in BOOLEAN /\ clock' = clock
    <3>1. \/ history' = history
          \/ /\ history.turn < MaxChatTurns
             /\ history' = [turn |-> history.turn + 1, count |-> count]
      BY <2>2 DEF EndTurn
    <3>2. history.turn \in 0..MaxChatTurns
      BY <2>1 DEF Histories
    <3>3. history' \in Histories
      BY <2>1, <3>1, <3>2, ChatAssumption DEF Histories
    <3> QED
      BY <2>1, <2>2, <3>3 DEF EndTurn, UnchangedOthers
  <2>3. CASE DayPasses
    BY <2>1, <2>3, ChatAssumption DEF DayPasses, Times
  <2>4. CASE UNCHANGED <<history, clock>> /\ shrunk' \in {shrunk, FALSE}
    BY <2>1, <2>4
  <2> QED
    BY <2>1, <2>2, <2>3, <2>4
       DEF ChatNext, Save, Purge, chatVars, Ask, Leave, ChatDies, MakeDir, MergeMeta,
           OpenHistory, FillHistory, OpenMeta, FillMeta, Saving, UnchangedOthers, PurgeStep,
           WriteFails, PurgeLists, RmtreeScans, RmtreeUnlinks, RmtreeEnds
<1>5. merged' \in Meta \cup {NoMeta}
  <2>1. CASE MergeMeta
    <3>1. Readable(disk.meta) => disk.meta.created \in Times
      BY <1>1, Counts DEF Meta
    <3>2. history.count \in Lengths /\ clock \in Times
      BY DEF ChatIInv, ChatTypeOK, Histories
    <3> QED
      BY <2>1, <3>1, <3>2 DEF MergeMeta, Meta
  <2>2. CASE merged' = merged
    BY <1>1, <2>2 DEF ChatTypeOK
  <2> QED
    BY <2>1, <2>2
       DEF ChatNext, Save, Purge, chatVars, Ask, Leave, ChatDies, EndTurn, MakeDir,
           OpenHistory, FillHistory, OpenMeta, FillMeta, PurgeStep,
           WriteFails, PurgeLists, RmtreeScans, RmtreeUnlinks, RmtreeEnds, DayPasses
<1>6. chatAt' \in {"prompt", "turn", "over"} \cup InSave
  BY <1>1
     DEF ChatNext, Save, Purge, chatVars, Ask, Leave, ChatDies, EndTurn, MakeDir, MergeMeta,
         OpenHistory, FillHistory, OpenMeta, FillMeta, Saving, Returned, PurgeStep, InSave,
         WriteFails, PurgeLists, RmtreeScans, RmtreeUnlinks, RmtreeEnds, DayPasses, ChatTypeOK
<1>7. purging' \in {"no", "listed", "removing"} /\ doomed' \subseteq {"history", "meta"}
  BY <1>1
     DEF ChatNext, Save, Purge, chatVars, Ask, Leave, ChatDies, EndTurn, MakeDir, MergeMeta,
         OpenHistory, FillHistory, OpenMeta, FillMeta, Saving, UnchangedOthers, PurgeStep,
         WriteFails, PurgeLists, RmtreeScans, RmtreeUnlinks, RmtreeEnds, DayPasses, Present,
         ChatTypeOK
<1>8. planMode' \in BOOLEAN /\ leaving' \in BOOLEAN /\ dir' \in BOOLEAN
  BY <1>1
     DEF ChatNext, Save, Purge, chatVars, Ask, Leave, ChatDies, EndTurn, MakeDir, MergeMeta,
         OpenHistory, FillHistory, OpenMeta, FillMeta, Saving, UnchangedOthers, PurgeStep,
         WriteFails, PurgeLists, RmtreeScans, RmtreeUnlinks, RmtreeEnds, DayPasses,
         UnchangedDisk, ChatTypeOK
<1>9. saved' \in BOOLEAN /\ alone' \in BOOLEAN
  BY <1>1
     DEF ChatNext, Save, Purge, chatVars, Ask, Leave, ChatDies, EndTurn, MakeDir, MergeMeta,
         OpenHistory, FillHistory, OpenMeta, FillMeta, PurgeStep,
         WriteFails, PurgeLists, RmtreeScans, RmtreeUnlinks, RmtreeEnds, DayPasses, ChatTypeOK
<1> QED
  BY <1>1, <1>2, <1>3, <1>4, <1>5, <1>6, <1>7, <1>8, <1>9

\* Every step keeps what ties the files to the loop.
LEMMA ChatPartsKept ==
  ASSUME ChatIInv, [ChatNext]_chatVars
  PROVE  ChatParts'
<1>1. /\ history.count \in Nat /\ disk.history.count \in Nat \cup {-1, -2}
      /\ disk.meta.count \in Nat \cup {-1, -2}
      /\ NoMeta.count = -1 /\ TornMeta.count = -2
      /\ NoHistory.count = -1 /\ TornHistory.count = -2
  BY Counts, ChatAssumption DEF ChatIInv, ChatTypeOK, Histories, Lengths, Missing, Torn
<1>2. ChatParts
  BY DEF ChatIInv
<1>3. DiskTyped
  BY DEF ChatIInv
<1> USE DEF SaveWritten, ChatParts, MergedCounts, MetaBehind, HistoryFirst, CountNeverAhead,
            SaveProgress, SavedHolds, Readable
<1>4. CASE UNCHANGED chatVars
  BY <1>2, <1>4 DEF chatVars
<1>5. CASE Ask \/ Leave \/ ChatDies
  BY <1>2, <1>5 DEF Ask, Leave, ChatDies, UnchangedDisk, UnchangedOthers
<1>6. CASE PurgeLists \/ DayPasses
  BY <1>2, <1>6 DEF PurgeLists, DayPasses, PurgeStep, UnchangedDisk
<1>7. ASSUME NEW count \in Lengths, EndTurn(count) PROVE ChatParts'
  <2>1. /\ chatAt' = "mkdir" /\ ~saved' /\ disk' = disk /\ purging' = purging /\ alone' = alone
        /\ shrunk' = (shrunk \/ count < history.count)
        /\ history' = history \/ history'.count = count
    BY <1>7 DEF EndTurn, UnchangedDisk, UnchangedOthers
  <2>2. count \in Nat
    BY ChatAssumption DEF Lengths
  <2>3. disk.meta.count \in Nat /\ ~shrunk' => disk.meta.count <= history'.count
    <3> SUFFICES ASSUME disk.meta.count \in Nat, ~shrunk'
                 PROVE  disk.meta.count <= history'.count
      OBVIOUS
    <3>1. ~shrunk /\ ~(count < history.count)
      BY <2>1
    <3>2. disk.meta.count <= history.count
      BY <1>2, <3>1
    <3>3. \A a, b, c \in Nat : a <= b /\ ~(c < b) => a <= c
      OBVIOUS
    <3>4. disk.meta.count <= count
      BY <1>1, <2>2, <3>1, <3>2, <3>3
    <3> QED
      BY <2>1, <3>2, <3>4
  <2>4. ~shrunk' => ~shrunk
    BY <2>1
  <2> QED
    BY <1>2, <2>1, <2>3, <2>4
<1>8. CASE MakeDir
  BY <1>2, <1>8 DEF MakeDir, Saving, UnchangedOthers
<1>9. CASE MergeMeta
  <2>1. merged'.count = history.count
    BY <1>9 DEF MergeMeta
  <2>2. merged' \in Meta \cup {NoMeta}
    BY ChatTypesKept DEF ChatTypeOK
  <2>3. merged' \in Meta
    BY <1>1, <2>1, <2>2
  <2> QED
    BY <1>2, <1>9, <2>1, <2>3 DEF MergeMeta, Saving, UnchangedDisk, UnchangedOthers
<1>10. CASE OpenHistory
  <2>1. disk'.history = TornHistory /\ disk'.meta = disk.meta
    BY <1>3, <1>10, DiskWrites DEF OpenHistory
  <2>2. ~(disk'.history.count \in Nat)
    BY <1>1, <2>1
  <2> QED
    BY <1>2, <1>10, <2>1, <2>2 DEF OpenHistory, Saving, UnchangedOthers
<1>11. CASE FillHistory
  <2>1. /\ disk'.history = (IF disk.history = NoHistory THEN NoHistory ELSE history)
        /\ disk'.meta = disk.meta
    BY <1>3, <1>11, DiskWrites DEF FillHistory
  <2>2. TornHistory # NoHistory
    BY <1>1
  <2>3. CountNeverAhead'
    <3>1. shrunk' = shrunk
      BY <1>11 DEF FillHistory
    <3>2. CASE disk'.history = NoHistory
      BY <1>1, <3>2
    <3>3. CASE disk'.history = history
      BY <1>2, <2>1, <3>1, <3>3
    <3> QED
      BY <2>1, <3>2, <3>3
  <2>4. chatAt = "fill_history" /\ chatAt' = "open_meta" /\ history' = history
        /\ UNCHANGED <<shrunk, merged, saved, alone, purging>>
    BY <1>11 DEF FillHistory, Saving, UnchangedOthers
  <2> HIDE DEF CountNeverAhead
  <2> QED
    BY <1>2, <2>1, <2>2, <2>3, <2>4
<1>12. CASE OpenMeta
  <2>1. disk'.history = disk.history /\ disk'.meta = TornMeta
    BY <1>3, <1>12, DiskWrites DEF OpenMeta
  <2> QED
    BY <1>1, <1>2, <1>12, <2>1 DEF OpenMeta, Saving, UnchangedOthers
<1>13. CASE FillMeta
  <2>1. /\ disk'.history = disk.history
        /\ disk'.meta = IF disk.meta = NoMeta THEN disk.meta ELSE merged
    BY <1>3, <1>13, DiskWrites DEF FillMeta
  <2>2. chatAt' \in {"over", "prompt"} /\ history' = history /\ purging' = purging
    BY <1>13 DEF FillMeta, Saving, Returned, UnchangedOthers
  <2>3. /\ merged.count = history.count /\ disk.history \in {NoHistory, history}
        /\ alone' = alone
    BY <1>2, <1>13 DEF FillMeta, Saving
  <2>4. alone => disk.history = history /\ disk'.meta = merged
    <3>1. alone => disk.history = history /\ disk.meta = TornMeta
      BY <1>2, <1>13 DEF FillMeta, Saving
    <3>2. TornMeta # NoMeta
      BY <1>1
    <3> QED
      BY <2>1, <3>1, <3>2
  <2>5. disk'.meta.count \in Nat => disk'.meta.count = history.count
    <3>1. CASE disk'.meta = merged
      BY <2>3, <3>1
    <3>2. CASE disk'.meta = NoMeta
      BY <1>1, <3>2
    <3> QED
      BY <2>1, <3>1, <3>2
  <2>6. CountNeverAhead'
    <3>1. CASE disk'.history = NoHistory
      BY <1>1, <3>1
    <3>2. CASE disk'.history = history
      BY <1>1, <2>5, <3>2
    <3> QED
      BY <2>1, <2>3, <3>1, <3>2
  <2>7. MetaBehind'
    BY <1>1, <2>2, <2>5
  <2>8. SavedHolds'
    BY <2>1, <2>2, <2>3, <2>4
  <2> HIDE DEF CountNeverAhead, MetaBehind, SavedHolds
  <2> QED
    BY <1>2, <2>2, <2>3, <2>6, <2>7, <2>8
<1>14. CASE WriteFails
  <2>1. chatAt' \in {"over", "prompt"} /\ ~saved'
    BY <1>14 DEF WriteFails, Saving, Returned
  <2> QED
    BY <1>2, <1>14, <2>1 DEF WriteFails, Saving, UnchangedDisk, UnchangedOthers
<1>15. CASE RmtreeScans
  BY <1>2, <1>15 DEF RmtreeScans, PurgeStep, UnchangedDisk
<1>16. CASE RmtreeUnlinks
  <2>1. \/ disk'.history = NoHistory /\ disk'.meta = disk.meta
        \/ disk'.history = disk.history /\ disk'.meta = NoMeta
    BY <1>3, <1>16, DiskWrites DEF RmtreeUnlinks
  <2>2. ~alone /\ ~alone' /\ UNCHANGED <<chatAt, history, shrunk, merged, saved, purging>>
    BY <1>2, <1>16 DEF RmtreeUnlinks, PurgeStep
  <2> QED
    BY <1>1, <1>2, <2>1, <2>2
<1>17. CASE RmtreeEnds
  BY <1>2, <1>17 DEF RmtreeEnds, PurgeStep
<1> QED
  BY <1>4, <1>5, <1>6, <1>7, <1>8, <1>9, <1>10, <1>11, <1>12, <1>13, <1>14, <1>15,
     <1>16, <1>17 DEF ChatNext, Save, Purge

\* A chat begins with no files.
LEMMA ChatBegins ==
  ChatInit => ChatIInv
<1> SUFFICES ASSUME ChatInit PROVE ChatIInv
  OBVIOUS
<1>1. [turn |-> 0, count |-> 0] \in Histories /\ 0 \in Times
  BY ChatAssumption DEF Histories, Lengths, Times
<1>2. disk.history = NoHistory /\ disk.meta = NoMeta /\ DiskTyped
  BY DEF ChatInit, DiskTyped
<1>3. ChatTypeOK
  BY <1>1, <1>2 DEF ChatInit, ChatTypeOK
<1>4. NoMeta.count = -1 /\ ~Readable(NoMeta)
  BY DEF NoMeta, Missing, Readable
<1>5. ChatParts
  BY <1>2, <1>4
     DEF ChatInit, ChatParts, MergedCounts, MetaBehind, HistoryFirst, CountNeverAhead,
         SaveProgress, SavedHolds, SaveWritten
<1> QED
  BY <1>2, <1>3, <1>5 DEF ChatIInv

\* The invariant is inductive.
LEMMA ChatKept ==
  ChatIInv /\ [ChatNext]_chatVars => ChatIInv'
BY ChatTypesKept, ChatPartsKept DEF ChatIInv

-----------------------------------------------------------------------------
(* The theorems.                                                           *)

\* Types, for histories of any length.
THEOREM ChatTypeCorrect == ChatSpec => []ChatTypeOK
<1>1. ChatIInv => ChatTypeOK
  BY DEF ChatIInv
<1> QED
  BY <1>1, ChatBegins, ChatKept, PTL DEF ChatSpec

\* Two files that can be read agree, in that the count is not ahead of the
\* history, wherever a save or a purge is or broke off, unless a turn has
\* shortened the history since.
THEOREM CountBehind == ChatSpec => []CountNeverAhead
<1>1. ChatIInv => CountNeverAhead
  BY DEF ChatIInv, ChatParts
<1> QED
  BY <1>1, ChatBegins, ChatKept, PTL DEF ChatSpec

\* A save that says it succeeded did, unless a removal came across it.
THEOREM SaveKept == ChatSpec => []SavedLoads
<1>1. ChatIInv => SavedLoads
  BY DEF ChatIInv, ChatParts, SavedHolds, SavedLoads
<1> QED
  BY <1>1, ChatBegins, ChatKept, PTL DEF ChatSpec

-----------------------------------------------------------------------------
(* The snapshots of runs.                                                  *)

Born == {s \in Ids : mtime[s] # Unborn}

\* snapshots in the directory that no purge is about to unlink
Safe == {s \in files : \A r \in Runs : s \notin run[r].stale}

NewerSafe(s) == {t \in Safe : NewerSnap(t, s)}

OnlyBorn ==
  /\ files \subseteq Born
  /\ \A r \in Runs : run[r].seen \subseteq Born /\ run[r].stale \subseteq Born

\* what is gone or about to go has Keep newer ones that stay
Outnumbered == \A s \in Born \ Safe : Cardinality(NewerSafe(s)) >= Keep

SnapIInv == SnapTypeOK /\ OnlyBorn /\ Outnumbered

-----------------------------------------------------------------------------
(* The order of the snapshots.                                             *)

\* A snapshot that was written has a time.
LEMMA BornTimes ==
  ASSUME SnapTypeOK, NEW s \in Born
  PROVE  s \in Ids /\ mtime[s] \in Nat /\ mtime[s] <= MaxTime
BY SnapshotAssumption DEF SnapTypeOK, Born, Unborn

\* The order of the purge is transitive.
LEMMA NewerTransitive ==
  ASSUME SnapTypeOK, NEW x \in Born, NEW y \in Born, NEW z \in Born,
         NewerSnap(x, y), NewerSnap(y, z)
  PROVE  NewerSnap(x, z)
<1>1. x \in Nat /\ y \in Nat /\ z \in Nat /\ mtime[x] \in Nat /\ mtime[y] \in Nat /\ mtime[z] \in Nat
  BY BornTimes, SnapshotAssumption
<1> QED
  BY <1>1 DEF NewerSnap

Above(s) == {t \in Born : NewerSnap(t, s)}

\* Of any snapshots one is the newest.
LEMMA HasNewest ==
  ASSUME SnapTypeOK, NEW B \in SUBSET Born, B # {}
  PROVE  \E s \in B : \A t \in B : ~NewerSnap(t, s)
<1> DEFINE T == {Above(s) : s \in B}
<1>1. IsWellFoundedOn(StrictSubsetOrdering(Ids), SUBSET Ids)
  BY FS_StrictSubsetOrderingWellFounded, FS_FiniteSubsetsOfFinite, SnapshotAssumption
<1>2. T \subseteq SUBSET Ids /\ T # {}
  BY DEF Above, Born
<1>3. PICK a \in T : \A b \in T : ~(<<b, a>> \in StrictSubsetOrdering(Ids))
  <2> HIDE DEF T
  <2> QED
    BY <1>1, <1>2, WFMin
<1>4. PICK s \in B : a = Above(s)
  BY <1>3
<1>5. ASSUME NEW t \in B, NewerSnap(t, s) PROVE FALSE
  <2>1. Above(t) \subseteq Above(s)
    BY <1>5, NewerTransitive DEF Above
  <2>2. t \in Above(s) /\ t \notin Above(t)
    <3>1. t \in Nat /\ mtime[t] \in Nat
      BY BornTimes, SnapshotAssumption
    <3> QED
      BY <3>1, <1>5 DEF Above, NewerSnap
  <2>3. <<Above(t), Above(s)>> \in StrictSubsetOrdering(Ids)
    BY <2>1, <2>2, <1>2, <1>4 DEF StrictSubsetOrdering
  <2> QED
    BY <2>3, <1>3, <1>4
<1> QED
  BY <1>5

-----------------------------------------------------------------------------
(* Types.                                                                  *)

\* A step of one process that keeps to what was written keeps the types.
LEMMA SnapStepTyped ==
  ASSUME SnapTypeOK, OnlyBorn, NEW r \in Runs, NEW q \in Run,
         run' = [run EXCEPT ![r] = q],
         q.seen \subseteq Born, q.stale \subseteq Born,
         mtime' \in [Ids -> {Unborn} \cup 0..MaxTime], Born \subseteq Born',
         files' \subseteq Born', torn' \subseteq Ids, time' = time
  PROVE  SnapTypeOK' /\ OnlyBorn'
<1>1. run' \in [Runs -> Run]
  BY DEF SnapTypeOK
<1>2. SnapTypeOK'
  BY <1>1 DEF SnapTypeOK, Born
<1>3. ASSUME NEW p \in Runs PROVE run'[p].seen \subseteq Born' /\ run'[p].stale \subseteq Born'
  <2>1. run'[p] = IF p = r THEN q ELSE run[p]
    BY DEF SnapTypeOK
  <2> QED
    BY <2>1 DEF OnlyBorn
<1> QED
  BY <1>2, <1>3 DEF OnlyBorn

\* A snapshot that is written is new, and the others stay as they are.
LEMMA SnapNewTyped ==
  ASSUME SnapTypeOK, OnlyBorn, NEW s \in Ids, NewSnapshot(s)
  PROVE  /\ mtime' \in [Ids -> {Unborn} \cup 0..MaxTime] /\ time' = time
         /\ Born' = Born \cup {s} /\ s \notin Born /\ files' = files \cup {s}
         /\ \A t \in Born : mtime'[t] = mtime[t]
<1>1. mtime' = [mtime EXCEPT ![s] = time] /\ time' = time /\ files' = files \cup {s}
  BY DEF NewSnapshot
<1>2. time \in 0..MaxTime /\ time # Unborn
  BY SnapshotAssumption DEF SnapTypeOK, Unborn
<1> QED
  BY <1>1, <1>2 DEF NewSnapshot, Born, SnapTypeOK

\* The variables keep their types, and a directory holds what was written.
LEMMA SnapTypesKept ==
  ASSUME SnapTypeOK, OnlyBorn, [SnapNext]_snapVars
  PROVE  SnapTypeOK' /\ OnlyBorn'
<1>1. CASE UNCHANGED snapVars
  BY <1>1 DEF snapVars, SnapTypeOK, OnlyBorn, Born
<1>2. CASE Tick
  <2>1. time' \in 0..MaxTime /\ UNCHANGED <<run, mtime, files, torn>>
    BY <1>2, SnapshotAssumption DEF Tick, SnapTypeOK
  <2> QED
    BY <2>1 DEF SnapTypeOK, OnlyBorn, Born
<1>3. ASSUME NEW r \in Runs, RunStep(r) PROVE SnapTypeOK' /\ OnlyBorn'
  <2>1. run[r] \in Run /\ run[r].seen \subseteq Born /\ run[r].stale \subseteq Born
    BY DEF SnapTypeOK, OnlyBorn
  <2>2. ASSUME DiskStays, NEW q \in Run, run' = [run EXCEPT ![r] = q],
               q.seen \subseteq Born, q.stale \subseteq Born
        PROVE  SnapTypeOK' /\ OnlyBorn'
    <3>1. /\ mtime' \in [Ids -> {Unborn} \cup 0..MaxTime] /\ Born \subseteq Born'
          /\ files' \subseteq Born' /\ torn' \subseteq Ids /\ time' = time
      BY <2>2 DEF DiskStays, SnapTypeOK, OnlyBorn, Born
    <3> QED
      BY <2>2, <3>1, SnapStepTyped
  <2>3. ASSUME NEW to \in {"collect", "write", "glob", "stat", "unlink", "turn", "over"},
               NEW from, RunGoes(r, from, to), DiskStays
        PROVE  SnapTypeOK' /\ OnlyBorn'
    <3> DEFINE q == [run[r] EXCEPT !.pc = to]
    <3>1. q \in Run /\ q.seen = run[r].seen /\ q.stale = run[r].stale
      BY <2>1 DEF Run
    <3>2. run' = [run EXCEPT ![r] = q]
      BY <2>3 DEF RunGoes
    <3> QED
      BY <2>1, <2>2, <2>3, <3>1, <3>2
  <2>4. ASSUME NEW s \in Ids, NewSnapshot(s), torn' \subseteq Ids,
               NEW to \in {"glob", "over"}, RunGoes(r, "write", to)
        PROVE  SnapTypeOK' /\ OnlyBorn'
    <3> DEFINE q == [run[r] EXCEPT !.pc = to]
    <3>1. q \in Run /\ q.seen = run[r].seen /\ q.stale = run[r].stale
      BY <2>1 DEF Run
    <3>2. run' = [run EXCEPT ![r] = q]
      BY <2>4 DEF RunGoes
    <3>3. /\ mtime' \in [Ids -> {Unborn} \cup 0..MaxTime] /\ time' = time
          /\ Born \subseteq Born' /\ files' \subseteq Born'
      BY <2>4, SnapNewTyped DEF OnlyBorn
    <3> HIDE DEF q
    <3> QED
      BY <2>1, <2>4, <3>1, <3>2, <3>3, SnapStepTyped
  <2>5. CASE Collect(r)
    BY <2>3, <2>5 DEF Collect
  <2>6. CASE WriteSnapshot(r)
    BY <2>4, <2>6 DEF WriteSnapshot, SnapTypeOK
  <2>7. CASE WriteTorn(r)
    BY <2>4, <2>7 DEF WriteTorn, SnapTypeOK
  <2>8. CASE Glob(r)
    <3> DEFINE q == [run[r] EXCEPT !.pc = "stat", !.seen = files]
    <3>1. q \in Run /\ q.seen = files /\ q.stale = run[r].stale
      BY <2>1 DEF Run, SnapTypeOK
    <3>2. run' = [run EXCEPT ![r] = q] /\ DiskStays
      BY <2>8 DEF Glob
    <3> QED
      BY <2>1, <2>2, <3>1, <3>2 DEF OnlyBorn
  <2>9. CASE Stat(r)
    <3>1. PICK keep \in Newest(run[r].seen) :
            run' = [run EXCEPT ![r].pc = "unlink", ![r].stale = run[r].seen \ keep,
                               ![r].seen = {}]
      BY <2>9 DEF Stat
    <3> DEFINE q == [run[r] EXCEPT !.pc = "unlink", !.stale = run[r].seen \ keep,
                                   !.seen = {}]
    <3>2. q \in Run /\ q.seen = {} /\ q.stale = run[r].seen \ keep
      BY <2>1 DEF Run
    <3>3. run' = [run EXCEPT ![r] = q] /\ DiskStays
      BY <2>9, <3>1 DEF Stat
    <3> QED
      BY <2>1, <2>2, <3>2, <3>3
  <2>10. CASE Unlink(r)
    <3>1. PICK s \in run[r].stale :
            files' = files \ {s} /\ run' = [run EXCEPT ![r].stale = @ \ {s}]
      BY <2>10 DEF Unlink
    <3> DEFINE q == [run[r] EXCEPT !.stale = @ \ {s}]
    <3>2. q \in Run /\ q.seen = run[r].seen /\ q.stale = run[r].stale \ {s}
      BY <2>1 DEF Run
    <3>3. run' = [run EXCEPT ![r] = q]
      BY <3>1
    <3>4. /\ mtime' \in [Ids -> {Unborn} \cup 0..MaxTime] /\ time' = time
          /\ Born \subseteq Born' /\ files' \subseteq Born' /\ torn' \subseteq Ids
      BY <2>10, <3>1 DEF Unlink, SnapTypeOK, OnlyBorn, Born
    <3> HIDE DEF q
    <3> QED
      BY <2>1, <3>2, <3>3, <3>4, SnapStepTyped
  <2>11. CASE Purged(r)
    BY <2>3, <2>11 DEF Purged
  <2>12. CASE Fails(r)
    <3> DEFINE q == [run[r] EXCEPT !.pc = "over", !.seen = {}, !.stale = {}]
    <3>1. q \in Run /\ q.seen = {} /\ q.stale = {}
      BY <2>1 DEF Run
    <3>2. run' = [run EXCEPT ![r] = q] /\ DiskStays
      BY <2>12 DEF Fails
    <3> QED
      BY <2>2, <3>1, <3>2
  <2>13. ASSUME NEW answered \in BOOLEAN, RunTurn(r, answered)
         PROVE  SnapTypeOK' /\ OnlyBorn'
    <3> DEFINE q == [run[r] EXCEPT !.pc = IF run[r].managed THEN "collect" ELSE "over",
                                   !.pre = FALSE, !.final = answered]
    <3>1. q \in Run /\ q.seen = run[r].seen /\ q.stale = run[r].stale
      BY <2>1, <2>13 DEF Run
    <3>2. run' = [run EXCEPT ![r] = q] /\ DiskStays
      BY <2>13 DEF RunTurn
    <3> QED
      BY <2>1, <2>2, <3>1, <3>2
  <2> QED
    BY <1>3, <2>5, <2>6, <2>7, <2>8, <2>9, <2>10, <2>11, <2>12, <2>13 DEF RunStep
<1> QED
  BY <1>1, <1>2, <1>3 DEF SnapNext

-----------------------------------------------------------------------------
(* Retention.                                                              *)

\* There are finitely many ids, so sets of them can be counted.
LEMMA SafeFinite ==
  ASSUME SnapTypeOK, NEW S \in SUBSET Ids
  PROVE  IsFiniteSet(S) /\ Cardinality(S) \in Nat
BY FS_Subset, FS_CardinalityType, SnapshotAssumption

\* A step that leaves the times alone and takes no snapshot out of safety
\* but new ones keeps everything outnumbered.
LEMMA SafetyGrows ==
  ASSUME SnapTypeOK, OnlyBorn, Outnumbered, SnapTypeOK',
         \A s \in Born : s \in Born' /\ mtime'[s] = mtime[s],
         Safe \subseteq Safe', Born' \ Safe' \subseteq Born \ Safe
  PROVE  Outnumbered'
<1> SUFFICES ASSUME NEW s \in Born' \ Safe' PROVE Cardinality(NewerSafe(s)') >= Keep
  BY DEF Outnumbered
<1>1. s \in Born \ Safe /\ Cardinality(NewerSafe(s)) >= Keep
  BY DEF Outnumbered
<1>2. NewerSafe(s) \subseteq NewerSafe(s)'
  BY <1>1 DEF NewerSafe, NewerSnap, Safe, OnlyBorn
<1>3. NewerSafe(s)' \subseteq Ids
  BY DEF NewerSafe, Safe, SnapTypeOK
<1>4. Cardinality(NewerSafe(s)) <= Cardinality(NewerSafe(s)')
  BY <1>2, <1>3, SafeFinite, FS_Subset
<1>5. Cardinality(NewerSafe(s)) \in Nat /\ Cardinality(NewerSafe(s)') \in Nat
  BY <1>2, <1>3, SafeFinite
<1> QED
  BY <1>1, <1>4, <1>5, SnapshotAssumption

\* What a purge gives up is outnumbered by what it keeps; and of all that is
\* not safe then, the newest is outnumbered only by what is.
LEMMA StatKeeps ==
  ASSUME SnapTypeOK, OnlyBorn, Outnumbered, SnapTypeOK', NEW r \in Runs, Stat(r)
  PROVE  Outnumbered'
<1> DEFINE seen == run[r].seen
<1>1. PICK keep \in Newest(seen) :
        run' = [run EXCEPT ![r].pc = "unlink", ![r].stale = seen \ keep, ![r].seen = {}]
  BY DEF Stat
<1>2. /\ keep \subseteq seen /\ seen \subseteq files /\ seen \subseteq Born
      /\ Cardinality(keep) = IF Cardinality(seen) < Keep THEN Cardinality(seen) ELSE Keep
      /\ \A x \in keep, y \in seen \ keep : NewerSnap(x, y)
  BY DEF Newest, Stat, OnlyBorn
<1>3. UNCHANGED <<mtime, files>>
  BY DEF Stat, DiskStays
<1>4. Born' = Born /\ \A x, y : NewerSnap(x, y)' = NewerSnap(x, y)
  BY <1>3 DEF Born, NewerSnap
<1>5. Safe \ (seen \ keep) \subseteq Safe'
  BY <1>1, <1>3 DEF Safe, SnapTypeOK, Run
<1> DEFINE few == {s \in Born \ Safe' : ~(Cardinality(NewerSafe(s)') >= Keep)}
<1>6. ASSUME few # {} PROVE FALSE
  <2>1. PICK s \in few : \A t \in few : ~NewerSnap(t, s)
    BY <1>6, HasNewest
  <2>2. ASSUME NEW t \in Born, NewerSnap(t, s), t \notin Safe' PROVE FALSE
    <3>1. Cardinality(NewerSafe(t)') >= Keep
      BY <2>1, <2>2
    <3>2. NewerSafe(t)' \subseteq NewerSafe(s)'
      BY <2>2, <1>3, <1>4, NewerTransitive DEF NewerSafe, Safe, OnlyBorn
    <3>3. NewerSafe(s)' \subseteq Ids
      BY DEF NewerSafe, Safe, SnapTypeOK
    <3>4. Cardinality(NewerSafe(t)') <= Cardinality(NewerSafe(s)')
      BY <3>2, <3>3, SafeFinite, FS_Subset
    <3>5. Cardinality(NewerSafe(t)') \in Nat /\ Cardinality(NewerSafe(s)') \in Nat
      BY <3>2, <3>3, SafeFinite
    <3> QED
      BY <3>1, <3>4, <3>5, <2>1, SnapshotAssumption
  <2>3. ASSUME NEW S \in SUBSET Born, Cardinality(S) >= Keep, \A t \in S : NewerSnap(t, s)
        PROVE  FALSE
    <3>1. S \subseteq NewerSafe(s)'
      BY <2>2, <2>3, <1>4 DEF NewerSafe
    <3>2. NewerSafe(s)' \subseteq Ids
      BY DEF NewerSafe, Safe, SnapTypeOK
    <3>3. Cardinality(S) <= Cardinality(NewerSafe(s)')
      BY <3>1, <3>2, SafeFinite, FS_Subset
    <3>4. Cardinality(S) \in Nat /\ Cardinality(NewerSafe(s)') \in Nat
      BY <3>1, <3>2, SafeFinite
    <3> QED
      BY <2>1, <2>3, <3>3, <3>4, SnapshotAssumption
  <2>4. CASE s \notin Safe
    <3>1. Cardinality(NewerSafe(s)) >= Keep
      BY <2>1, <2>4 DEF Outnumbered
    <3>2. NewerSafe(s) \subseteq Born /\ \A t \in NewerSafe(s) : NewerSnap(t, s)
      BY DEF NewerSafe, Safe, OnlyBorn
    <3> QED
      BY <2>3, <3>1, <3>2
  <2>5. CASE s \in Safe
    <3>1. s \in seen \ keep
      BY <2>1, <2>5, <1>5
    <3>2. keep # seen /\ keep \subseteq Born /\ \A t \in keep : NewerSnap(t, s)
      BY <3>1, <1>2
    <3>3. Cardinality(keep) >= Keep
      <4>1. IsFiniteSet(seen) /\ Cardinality(seen) \in Nat /\ Cardinality(keep) \in Nat
        BY <1>2, SafeFinite DEF Born
      <4>2. Cardinality(keep) # Cardinality(seen)
        BY <4>1, <1>2, <3>2, FS_Subset
      <4> QED
        BY <4>1, <4>2, <1>2, SnapshotAssumption
    <3> QED
      BY <2>3, <3>2, <3>3
  <2> QED
    BY <2>4, <2>5
<1> QED
  BY <1>4, <1>6 DEF Outnumbered

\* A written snapshot is in no purge's hands yet.
LEMMA WriteKeeps ==
  ASSUME SnapTypeOK, OnlyBorn, Outnumbered, SnapTypeOK', NEW r \in Runs,
         NEW s \in Ids, NewSnapshot(s), NEW to, RunGoes(r, "write", to)
  PROVE  Outnumbered'
<1>1. \A p \in Runs : run'[p].stale = run[p].stale
  BY DEF RunGoes, SnapTypeOK, Run
<1>2. /\ Born' = Born \cup {s} /\ s \notin Born /\ files' = files \cup {s}
      /\ \A t \in Born : mtime'[t] = mtime[t]
  BY SnapNewTyped
<1>3. Safe' = Safe \cup {s}
  BY <1>1, <1>2 DEF Safe, OnlyBorn
<1> QED
  BY <1>2, <1>3, SafetyGrows

\* No purge takes on more but by Stat, and what one unlinks was not safe.
LEMMA OthersKeep ==
  ASSUME SnapTypeOK, OnlyBorn, Outnumbered, SnapTypeOK', UNCHANGED mtime,
         \A p \in Runs : run'[p].stale \subseteq run[p].stale,
         Safe \subseteq files'
  PROVE  Outnumbered'
<1>1. Born' = Born
  BY DEF Born
<1>2. Safe \subseteq Safe'
  BY DEF Safe
<1> QED
  BY <1>1, <1>2, SafetyGrows

\* Every step keeps what is given up outnumbered.
LEMMA SnapKept ==
  ASSUME SnapIInv, [SnapNext]_snapVars
  PROVE  SnapIInv'
<1>1. SnapTypeOK /\ OnlyBorn /\ Outnumbered /\ SnapTypeOK' /\ OnlyBorn'
  BY SnapTypesKept DEF SnapIInv
<1>2. CASE UNCHANGED snapVars \/ Tick
  BY <1>1, <1>2, OthersKeep DEF SnapIInv, snapVars, Tick, Safe
<1>3. ASSUME NEW r \in Runs, RunStep(r) PROVE Outnumbered'
  <2>1. CASE WriteSnapshot(r)
    BY <1>1, <2>1, WriteKeeps DEF WriteSnapshot
  <2>2. CASE WriteTorn(r)
    BY <1>1, <2>2, WriteKeeps DEF WriteTorn
  <2>3. CASE Stat(r)
    BY <1>1, <2>3, StatKeeps
  <2>4. CASE Unlink(r)
    <3>1. PICK s \in run[r].stale :
            files' = files \ {s} /\ run' = [run EXCEPT ![r].stale = @ \ {s}]
      BY <2>4 DEF Unlink
    <3>2. \A p \in Runs : run'[p].stale \subseteq run[p].stale
      BY <1>1, <3>1 DEF SnapTypeOK, Run
    <3>3. Safe \subseteq files' /\ UNCHANGED mtime
      BY <2>4, <3>1 DEF Safe, Unlink
    <3> QED
      BY <1>1, <3>2, <3>3, OthersKeep
  <2>5. ASSUME DiskStays, \A p \in Runs : run'[p].stale \subseteq run[p].stale
        PROVE  Outnumbered'
    BY <1>1, <2>5, OthersKeep DEF DiskStays, Safe
  <2>6. CASE Collect(r) \/ Purged(r)
    <3>1. \A p \in Runs : run'[p].stale \subseteq run[p].stale
      BY <1>1, <2>6 DEF Collect, Purged, RunGoes, SnapTypeOK, Run
    <3> QED
      BY <2>5, <2>6, <3>1 DEF Collect, Purged
  <2>7. CASE Glob(r) \/ Fails(r)
    <3>1. \A p \in Runs : run'[p].stale \subseteq run[p].stale
      BY <1>1, <2>7 DEF Glob, Fails, SnapTypeOK, Run
    <3> QED
      BY <2>5, <2>7, <3>1 DEF Glob, Fails
  <2>8. ASSUME NEW answered \in BOOLEAN, RunTurn(r, answered) PROVE Outnumbered'
    <3>1. \A p \in Runs : run'[p].stale \subseteq run[p].stale
      BY <1>1, <2>8 DEF RunTurn, SnapTypeOK, Run
    <3> QED
      BY <2>5, <2>8, <3>1 DEF RunTurn
  <2> QED
    BY <1>3, <2>1, <2>2, <2>3, <2>4, <2>6, <2>7, <2>8 DEF RunStep
<1> QED
  BY <1>1, <1>2, <1>3 DEF SnapNext, SnapIInv

\* Nothing is written at first.
LEMMA SnapBegins ==
  SnapInit => SnapIInv
<1> SUFFICES ASSUME SnapInit PROVE SnapIInv
  OBVIOUS
<1>1. NewRun(TRUE) \in Run /\ NewRun(FALSE) \in Run
  BY DEF NewRun, Run
<1>2. \A r \in Runs : run[r].seen = {} /\ run[r].stale = {}
  BY DEF SnapInit, NewRun
<1>3. SnapTypeOK
  <2>1. run \in [Runs -> Run]
    <3>1. {NewRun(TRUE), NewRun(FALSE)} \subseteq Run
      BY <1>1
    <3>2. run \in [Runs -> {NewRun(TRUE), NewRun(FALSE)}]
      BY DEF SnapInit
    <3> QED
      BY <3>1, <3>2
  <2>2. mtime \in [Ids -> {Unborn} \cup 0..MaxTime]
    BY DEF SnapInit
  <2>3. time \in 0..MaxTime /\ files \subseteq Ids /\ torn \subseteq Ids
    BY SnapshotAssumption DEF SnapInit
  <2> QED
    BY <2>1, <2>2, <2>3 DEF SnapTypeOK
<1>4. Born = {} /\ files = {}
  BY DEF SnapInit, Born
<1> QED
  BY <1>2, <1>3, <1>4 DEF SnapIInv, OnlyBorn, Outnumbered

\* Snapshots written whole are there or outnumbered by newer ones.
LEMMA Survive ==
  SnapIInv => SurvivorsNewest
<1> SUFFICES ASSUME SnapIInv, NEW s \in Ids, mtime[s] # Unborn, s \notin torn, s \notin files
             PROVE  Cardinality({t \in files : NewerSnap(t, s)}) >= Keep
  BY DEF SurvivorsNewest, ListedSnaps, Restores
<1> DEFINE newer == {t \in files : NewerSnap(t, s)}
<1>1. Cardinality(NewerSafe(s)) >= Keep
  BY DEF SnapIInv, Outnumbered, Safe, Born
<1>2. NewerSafe(s) \subseteq newer /\ newer \subseteq Ids
  BY DEF NewerSafe, Safe, SnapIInv, SnapTypeOK
<1>3. /\ Cardinality(NewerSafe(s)) <= Cardinality(newer)
      /\ Cardinality(NewerSafe(s)) \in Nat /\ Cardinality(newer) \in Nat
  BY <1>2, SafeFinite, FS_Subset DEF SnapIInv
<1> HIDE DEF newer
<1>4. Cardinality(newer) >= Keep
  BY <1>1, <1>3, SnapshotAssumption
<1> QED
  BY <1>4 DEF newer

-----------------------------------------------------------------------------
(* The theorems.                                                           *)

\* Types, for any processes, ids and clock.
THEOREM SnapTypeCorrect == SnapSpec => []SnapTypeOK
<1>1. SnapIInv => SnapTypeOK
  BY DEF SnapIInv
<1> QED
  BY <1>1, SnapBegins, SnapKept, PTL DEF SnapSpec

\* However many runs write and purge over each other and wherever they break
\* off, a snapshot written whole can be listed and restored, or Keep newer
\* ones are in the directory.
THEOREM Retention == SnapSpec => []SurvivorsNewest
BY SnapBegins, SnapKept, Survive, PTL DEF SnapSpec

-----------------------------------------------------------------------------
(* The journals.                                                           *)

\* A line may be replaced by another.
LEMMA LineReplaced ==
  ASSUME NEW ls \in Seq(Line), NEW i, NEW l, i \in DOMAIN ls => l \in Line
  PROVE  [ls EXCEPT ![i] = l] \in Seq(Line)
<1>1. CASE i \in DOMAIN ls
  BY <1>1
<1>2. CASE i \notin DOMAIN ls
  <2>1. [ls EXCEPT ![i] = l] = ls
    BY <1>2
  <2> QED BY <2>1
<1> QED BY <1>1, <1>2

\* What is written leaves lines in the file.
LEMMA WrittenTyped ==
  ASSUME JournalTypeOK, NEW l \in Line
  PROVE  Written(l) \in Seq(Line)
<1> DEFINE last == lines[Len(lines)]
           glued == [rec |-> Broken, whole |-> FALSE, split |-> last.split \/ l.split]
<1>1. lines \in Seq(Line)
  BY DEF JournalTypeOK
<1>2. Len(lines) \in DOMAIN lines => glued \in Line
  <2> SUFFICES ASSUME Len(lines) \in DOMAIN lines
               PROVE  glued \in Line
    OBVIOUS
  <2>1. last \in Line
    BY <1>1
  <2>2. last.split \in BOOLEAN /\ l.split \in BOOLEAN
    BY <2>1 DEF Line
  <2>3. (last.split \/ l.split) \in BOOLEAN
    BY <2>2
  <2> QED BY <2>3, Zenon DEF Line
<1>3. Append(lines, l) \in Seq(Line)
  BY <1>1
<1>4. [lines EXCEPT ![Len(lines)] = glued] \in Seq(Line)
  <2> HIDE DEF glued
  <2> QED BY <1>1, <1>2, LineReplaced
<1> QED
  BY <1>3, <1>4 DEF Written

\* The journal's variables keep their types.
LEMMA JournalStepTyped ==
  ASSUME JournalTypeOK, [JournalNext]_journalVars
  PROVE  JournalTypeOK'
<1> USE DEF JournalTypeOK
<1>0. /\ MaxRecords \in Nat
      /\ \A s \in Sessions : Begun(s) =>
           /\ sessionOf' \in Seq(Sessions) /\ Len(sessionOf') <= MaxRecords
           /\ Len(sessionOf') \in Records
  BY JournalAssumption DEF Begun, Records
<1>1. ASSUME NEW w \in Writers, NEW s \in Sessions, WriteRecord(w, s)
      PROVE  JournalTypeOK'
  <2> DEFINE l == [rec |-> Len(sessionOf'), whole |-> TRUE, split |-> FALSE]
  <2>1. l \in Line
    BY <1>0, <1>1 DEF WriteRecord, Line
  <2> HIDE DEF l
  <2>2. Written(l) \in Seq(Line)
    BY <2>1, WrittenTyped
  <2>3. lines' = Written(l)
    BY <1>1 DEF WriteRecord, l
  <2> QED
    BY <1>0, <1>1, <2>2, <2>3 DEF WriteRecord
<1>2. ASSUME NEW w \in Writers, NEW s \in Sessions, NEW split \in BOOLEAN, WritePiece(w, s, split)
      PROVE  JournalTypeOK'
  <2> DEFINE l == [rec |-> Len(sessionOf'), whole |-> FALSE, split |-> split]
  <2>1. l \in Line
    BY <1>0, <1>2 DEF WritePiece, Line
  <2> HIDE DEF l
  <2>2. Written(l) \in Seq(Line)
    BY <2>1, WrittenTyped
  <2>3. lines' = Written(l)
    BY <1>2 DEF WritePiece, l
  <2> QED
    BY <1>0, <1>2, <2>2, <2>3 DEF WritePiece
<1>3. ASSUME NEW w \in Writers, OwnLine(w)
      PROVE  [lines EXCEPT ![Len(lines)] = [@ EXCEPT !.whole = TRUE, !.split = FALSE]] \in Seq(Line)
  <2> DEFINE l == [lines[Len(lines)] EXCEPT !.whole = TRUE, !.split = FALSE]
  <2>1. Len(lines) \in DOMAIN lines => l \in Line
    <3> SUFFICES ASSUME Len(lines) \in DOMAIN lines
                 PROVE  l \in Line
      OBVIOUS
    <3>1. lines[Len(lines)] \in Line
      OBVIOUS
    <3> QED BY <3>1 DEF Line
  <2> HIDE DEF l
  <2>2. [lines EXCEPT ![Len(lines)] = l] \in Seq(Line)
    BY <2>1, LineReplaced
  <2> QED BY <2>2 DEF l
<1>4. ASSUME NEW w \in Writers, NEW split \in BOOLEAN, WriteRest(w, split)
      PROVE  JournalTypeOK'
  <2> DEFINE l == [rec |-> Broken, whole |-> FALSE, split |-> split]
  <2>1. l \in Line
    BY DEF Line, Broken
  <2> HIDE DEF l
  <2>2. Written(l) \in Seq(Line)
    BY <2>1, WrittenTyped
  <2>3. lines' \in Seq(Line)
    BY <1>3, <1>4, <2>2 DEF WriteRest, l
  <2> QED
    BY <1>0, <1>4, <2>3 DEF WriteRest
<1>5. ASSUME NEW w \in Writers, NEW whole \in BOOLEAN, WriterBreaksOff(w, whole)
      PROVE  JournalTypeOK'
  <2>1. lines' \in Seq(Line)
    BY <1>3, <1>5 DEF WriterBreaksOff
  <2> QED
    BY <1>0, <1>5, <2>1 DEF WriterBreaksOff
<1>6. CASE UNCHANGED journalVars
  BY <1>6 DEF journalVars
<1> QED
  BY <1>1, <1>2, <1>4, <1>5, <1>6 DEF JournalNext

\* The journal's variables start with their types.
LEMMA JournalInitTyped == JournalInit => JournalTypeOK
<1> SUFFICES ASSUME JournalInit
             PROVE  JournalTypeOK
  OBVIOUS
<1>1. lines \in Seq(Line) /\ sessionOf \in Seq(Sessions) /\ Len(sessionOf) = 0
  BY DEF JournalInit
<1>2. writing \in [Writers -> Records \cup {0}]
  BY DEF JournalInit
<1>3. open \in BOOLEAN /\ returned \subseteq Records /\ pieced \subseteq Records
  BY DEF JournalInit
<1>4. Len(sessionOf) <= MaxRecords
  BY <1>1, JournalAssumption
<1> QED
  BY <1>1, <1>2, <1>3, <1>4 DEF JournalTypeOK

-----------------------------------------------------------------------------
(* What the journals' readers are told.                                    *)

ReadableLines == {i \in DOMAIN lines : lines[i].whole}

\* records that returned in one piece and cannot be read
Lost == returned \ (pieced \cup RecordsIn(ReadableLines))

\* records are in the file in the order they were begun, the last of them n
Rising(ls, n) ==
  /\ \A i \in DOMAIN ls : ls[i].rec <= n /\ (ls[i].whole => ls[i].rec # Broken)
  /\ \A i, j \in DOMAIN ls :
       i < j /\ ls[i].rec # Broken /\ ls[j].rec # Broken => ls[i].rec < ls[j].rec

\* a line is left open by a record in pieces, and is not yet glued to another
\* or holds that record's beginning
OpenByPiece == open => lines # <<>> /\ lines[Len(lines)].rec \in pieced \cup {Broken}

RecordsBegun ==
  /\ returned \subseteq 1..Len(sessionOf) /\ pieced \subseteq 1..Len(sessionOf)
  /\ \A w \in Writers : writing[w] \in pieced \cup {0}

\* each record in pieces has spoiled one other at most, and none while the line
\* it left open is
LossBounded == Cardinality(Lost) + (IF open THEN 1 ELSE 0) <= Cardinality(pieced)

JournalIInv ==
  /\ JournalTypeOK /\ Rising(lines, Len(sessionOf)) /\ OpenByPiece /\ RecordsBegun
  /\ LossBounded

\* What is written to an open line spoils it.
LEMMA WrittenToOpen ==
  ASSUME JournalTypeOK, NEW l \in Line, open, lines # <<>>
  PROVE  /\ Len(lines) \in DOMAIN lines /\ DOMAIN Written(l) = DOMAIN lines
         /\ Len(Written(l)) = Len(lines)
         /\ \A i \in DOMAIN lines : i # Len(lines) => Written(l)[i] = lines[i]
         /\ Written(l)[Len(lines)].rec = Broken /\ ~Written(l)[Len(lines)].whole
<1>1. lines \in Seq(Line) /\ Len(lines) \in DOMAIN lines
  BY DEF JournalTypeOK
<1>2. Written(l) = [lines EXCEPT ![Len(lines)] =
          [rec |-> Broken, whole |-> FALSE, split |-> lines[Len(lines)].split \/ l.split]]
  BY DEF Written
<1>3. Written(l) \in Seq(Line)
  BY WrittenTyped
<1> QED BY <1>1, <1>2, <1>3

\* What is written otherwise is a line of its own.
LEMMA WrittenToEnd ==
  ASSUME JournalTypeOK, NEW l \in Line, ~open
  PROVE  /\ DOMAIN Written(l) = 1..Len(lines) + 1 /\ DOMAIN lines = 1..Len(lines)
         /\ Len(lines) \in Nat /\ Len(Written(l)) = Len(lines) + 1
         /\ \A i \in DOMAIN lines : Written(l)[i] = lines[i]
         /\ Written(l)[Len(lines) + 1] = l
<1>1. lines \in Seq(Line) /\ Written(l) = Append(lines, l)
  BY DEF JournalTypeOK, Written
<1> QED BY <1>1

\* The order stays.
LEMMA WrittenRises ==
  ASSUME JournalTypeOK, NEW l \in Line, OpenByPiece, NEW n \in Nat, NEW m \in Nat, n <= m,
         Rising(lines, n), l.rec # Broken => n < l.rec /\ l.rec = m, l.whole => l.rec # Broken
  PROVE  Rising(Written(l), m)
<1>1. lines \in Seq(Line) /\ \A i \in DOMAIN lines : lines[i] \in Line
  BY DEF JournalTypeOK
<1>2. \A i \in DOMAIN lines : lines[i].rec \in Nat
  BY <1>1, JournalAssumption DEF Line, Records, Broken
<1>3. CASE open
  <2>1. lines # <<>>
    BY <1>3 DEF OpenByPiece
  <2> QED BY <1>2, <1>3, <2>1, WrittenToOpen DEF Rising, Broken
<1>4. CASE ~open
  <2>1. l.rec \in Nat
    BY JournalAssumption DEF Line, Records, Broken
  <2>2. /\ DOMAIN Written(l) = 1..Len(lines) + 1 /\ DOMAIN lines = 1..Len(lines)
        /\ Len(lines) \in Nat
        /\ \A i \in DOMAIN lines : Written(l)[i] = lines[i]
        /\ Written(l)[Len(lines) + 1] = l
    BY <1>4, WrittenToEnd
  <2> QED BY <1>2, <2>1, <2>2 DEF Rising, Broken
<1> QED BY <1>3, <1>4

\* A record that could be read and is in one piece still can.
StillRead(ls) ==
  \A i \in ReadableLines :
    lines[i].rec \in pieced \/ (i \in DOMAIN ls /\ ls[i].whole /\ ls[i].rec = lines[i].rec)

\* Writing leaves what can be read.
LEMMA WrittenStillRead ==
  ASSUME JournalTypeOK, NEW l \in Line, OpenByPiece, NEW n, Rising(lines, n)
  PROVE  StillRead(Written(l))
<1>1. CASE open
  <2>1. lines # <<>> /\ lines[Len(lines)].rec \in pieced \cup {Broken}
    BY <1>1 DEF OpenByPiece
  <2>2. \A i \in ReadableLines : i \in DOMAIN lines /\ lines[i].whole /\ lines[i].rec # Broken
    BY DEF ReadableLines, Rising
  <2> QED BY <1>1, <2>1, <2>2, WrittenToOpen DEF StillRead
<1>2. CASE ~open
  <2>1. \A i \in ReadableLines : i \in DOMAIN lines /\ lines[i].whole
    BY DEF ReadableLines
  <2> QED BY <1>2, <2>1, WrittenToEnd DEF StillRead
<1> QED BY <1>1, <1>2

\* Then a step loses at most what it returns in one piece and cannot be read.
LEMMA NoMoreLost ==
  ASSUME StillRead(lines'), pieced \subseteq pieced'
  PROVE  Lost' \subseteq Lost \cup ((returned' \ returned) \ (pieced' \cup RecordsIn(ReadableLines)'))
<1> SUFFICES ASSUME NEW r, r \in Lost', r \in returned
             PROVE  r \in Lost
  BY DEF Lost
<1>1. r \notin pieced
  BY DEF Lost
<1>2. ASSUME r \in RecordsIn(ReadableLines)
      PROVE  FALSE
  <2>1. PICK i \in ReadableLines : lines[i].rec = r
    BY <1>2 DEF RecordsIn
  <2>2. i \in DOMAIN lines' /\ lines'[i].whole /\ lines'[i].rec = r
    BY <1>1, <2>1 DEF StillRead
  <2>3. r \in RecordsIn(ReadableLines)'
    BY <2>2 DEF RecordsIn, ReadableLines
  <2> QED BY <2>3 DEF Lost
<1> QED BY <1>1, <1>2 DEF Lost

\* Records, and sets of them, are finite.
LEMMA RecordsFinite ==
  ASSUME NEW S \in SUBSET Records
  PROVE  /\ IsFiniteSet(S) /\ Cardinality(S) \in Nat
         /\ \A T \in SUBSET S : Cardinality(T) <= Cardinality(S)
         /\ \A x : Cardinality(S \cup {x}) <= Cardinality(S) + 1
         /\ \A x : x \notin S => Cardinality(S \cup {x}) = Cardinality(S) + 1
<1>1. IsFiniteSet(Records)
  BY JournalAssumption, FS_Interval DEF Records
<1>2. IsFiniteSet(S) /\ Cardinality(S) \in Nat
  BY <1>1, FS_Subset, FS_CardinalityType
<1>3. \A T \in SUBSET S : Cardinality(T) <= Cardinality(S)
  BY <1>2, FS_Subset
<1>4. \A x : Cardinality(S \cup {x}) = IF x \in S THEN Cardinality(S) ELSE Cardinality(S) + 1
  BY <1>2, FS_AddElement
<1> QED BY <1>2, <1>3, <1>4

\* Nothing is written at first.
LEMMA JournalBegins == JournalInit => JournalIInv
<1> SUFFICES ASSUME JournalInit
             PROVE  JournalIInv
  OBVIOUS
<1>1. JournalTypeOK
  BY JournalInitTyped
<1>2. lines = <<>> /\ DOMAIN lines = {} /\ open = FALSE /\ returned = {} /\ pieced = {}
  BY DEF JournalInit
<1>3. Rising(lines, Len(sessionOf)) /\ OpenByPiece
  BY <1>2 DEF Rising, OpenByPiece
<1>4. RecordsBegun
  BY DEF RecordsBegun, JournalInit
<1>5. LossBounded
  <2>1. Lost = {}
    BY <1>2 DEF Lost
  <2> QED BY <1>2, <2>1, FS_EmptySet DEF LossBounded
<1> QED BY <1>1, <1>3, <1>4, <1>5 DEF JournalIInv

\* An open line that is the writer's own is completed.
Completed == [lines EXCEPT ![Len(lines)] = [@ EXCEPT !.whole = TRUE, !.split = FALSE]]

\* A completed line is the record it was the beginning of.
LEMMA CompletedLine ==
  ASSUME JournalTypeOK, lines # <<>>
  PROVE  /\ Len(lines) \in DOMAIN lines /\ DOMAIN Completed = DOMAIN lines
         /\ Len(Completed) = Len(lines)
         /\ \A i \in DOMAIN lines : i # Len(lines) => Completed[i] = lines[i]
         /\ Completed[Len(lines)].rec = lines[Len(lines)].rec /\ Completed[Len(lines)].whole
<1>1. lines \in Seq(Line) /\ Len(lines) \in DOMAIN lines
  BY DEF JournalTypeOK
<1>2. lines[Len(lines)] \in Line
  BY <1>1
<1> DEFINE l == [lines[Len(lines)] EXCEPT !.whole = TRUE, !.split = FALSE]
<1>3. l \in Line /\ l.rec = lines[Len(lines)].rec /\ l.whole
  BY <1>2 DEF Line
<1>4. Completed = [lines EXCEPT ![Len(lines)] = l]
  BY DEF Completed
<1> HIDE DEF l
<1>5. Completed \in Seq(Line)
  BY <1>1, <1>3, <1>4
<1> QED BY <1>1, <1>3, <1>4, <1>5

\* Completing keeps the order, and what can be read.
LEMMA CompletedRises ==
  ASSUME JournalTypeOK, NEW n \in Nat, Rising(lines, n), lines # <<>>,
         lines[Len(lines)].rec # Broken
  PROVE  /\ Rising(Completed, n) /\ StillRead(Completed)
         /\ Completed[Len(Completed)].rec = lines[Len(lines)].rec /\ Completed # <<>>
<1>1. /\ Len(lines) \in DOMAIN lines /\ DOMAIN Completed = DOMAIN lines
      /\ Len(Completed) = Len(lines)
      /\ \A i \in DOMAIN lines : i # Len(lines) => Completed[i] = lines[i]
      /\ Completed[Len(lines)].rec = lines[Len(lines)].rec /\ Completed[Len(lines)].whole
  BY CompletedLine
<1>2. \A i \in DOMAIN lines : Completed[i].rec = lines[i].rec
  BY <1>1
<1>3. Rising(Completed, n)
  BY <1>1, <1>2 DEF Rising
<1>4. StillRead(Completed)
  BY <1>1, <1>2 DEF StillRead, ReadableLines
<1> QED BY <1>1, <1>3, <1>4

\* A writer's own line is open and holds the beginning of its record.
LEMMA OwnLineOpen ==
  ASSUME JournalIInv, NEW w \in Writers, writing[w] # 0, OwnLine(w)
  PROVE  open /\ lines # <<>> /\ lines[Len(lines)].rec = writing[w] /\ writing[w] # Broken
<1>1. open /\ lines[Len(lines)].rec = writing[w]
  BY DEF OwnLine, Last
<1> QED BY <1>1 DEF JournalIInv, OpenByPiece, Broken

\* The numbers of records.
LEMMA RecordNumbers ==
  ASSUME JournalTypeOK, NEW s \in Sessions, Begun(s)
  PROVE  /\ Len(sessionOf) \in Nat /\ Len(sessionOf') = Len(sessionOf) + 1
         /\ Len(sessionOf') \in Records /\ Len(sessionOf') # Broken
         /\ Len(sessionOf') \notin 1..Len(sessionOf)
         /\ 1..Len(sessionOf) \subseteq 1..Len(sessionOf')
         /\ Len(sessionOf') \in 1..Len(sessionOf')
<1>1. /\ sessionOf \in Seq(Sessions) /\ sessionOf' = Append(sessionOf, s)
      /\ Len(sessionOf) < MaxRecords
  BY DEF JournalTypeOK, Begun
<1>2. Len(sessionOf) \in Nat /\ Len(sessionOf') = Len(sessionOf) + 1
  BY <1>1
<1> QED BY <1>1, <1>2, JournalAssumption DEF Records, Broken

\* A record in one piece: it is told, or it spoils itself and the open line,
\* which no other can be spoiled by.
LEMMA RecordKeeps ==
  ASSUME JournalIInv, NEW w \in Writers, NEW s \in Sessions, WriteRecord(w, s), JournalTypeOK'
  PROVE  JournalIInv'
<1> DEFINE n == Len(sessionOf')
           l == [rec |-> n, whole |-> TRUE, split |-> FALSE]
<1>1. /\ Begun(s) /\ lines' = Written(l) /\ open' = FALSE /\ returned' = returned \cup {n}
      /\ UNCHANGED <<writing, pieced>>
  BY DEF WriteRecord
<1>2. /\ Len(sessionOf) \in Nat /\ n = Len(sessionOf) + 1 /\ n \in Records /\ n # Broken
      /\ n \notin 1..Len(sessionOf) /\ 1..Len(sessionOf) \subseteq 1..n /\ n \in 1..n
  BY <1>1, RecordNumbers DEF JournalIInv
<1>3. l \in Line /\ l.rec = n /\ l.whole
  BY <1>2 DEF Line
<1> HIDE DEF l
<1>4. Rising(lines', n)
  BY <1>1, <1>2, <1>3, WrittenRises DEF JournalIInv
<1>5. OpenByPiece' /\ RecordsBegun'
  BY <1>1, <1>2 DEF OpenByPiece, RecordsBegun, JournalIInv
<1>6. LossBounded'
  <2>1. StillRead(lines')
    BY <1>1, <1>3, WrittenStillRead DEF JournalIInv
  <2>2. Lost' \subseteq Lost \cup ((returned' \ returned) \ (pieced' \cup RecordsIn(ReadableLines)'))
    BY <1>1, <2>1, NoMoreLost
  <2>3. Lost \in SUBSET Records /\ pieced \in SUBSET Records
    BY DEF JournalIInv, JournalTypeOK, Lost
  <2>4. Cardinality(Lost) \in Nat /\ Cardinality(pieced) \in Nat
    BY <2>3, RecordsFinite
  <2>5. CASE open
    <3>1. Lost' \subseteq Lost \cup {n}
      BY <1>1, <2>2
    <3>2. Lost \cup {n} \in SUBSET Records
      BY <1>2, <2>3
    <3>3. Cardinality(Lost') <= Cardinality(Lost \cup {n}) /\ Cardinality(Lost \cup {n}) \in Nat
      BY <3>1, <3>2, RecordsFinite
    <3>4. Cardinality(Lost \cup {n}) <= Cardinality(Lost) + 1
      BY <2>3, RecordsFinite
    <3>5. Cardinality(Lost') \in Nat
      BY <3>1, <3>2, RecordsFinite
    <3>6. Cardinality(Lost) + 1 <= Cardinality(pieced)
      BY <2>5 DEF JournalIInv, LossBounded
    <3>7. Cardinality(Lost') + 0 <= Cardinality(pieced)
      BY <2>4, <3>3, <3>4, <3>5, <3>6
    <3> QED BY <1>1, <3>7 DEF LossBounded
  <2>6. CASE ~open
    <3>1. n \in RecordsIn(ReadableLines)'
      <4>1. Len(lines) + 1 \in DOMAIN lines' /\ lines'[Len(lines) + 1] = l
        BY <1>1, <1>3, <2>6, WrittenToEnd DEF JournalIInv
      <4> QED BY <1>3, <4>1 DEF RecordsIn, ReadableLines
    <3>2. Lost' \subseteq Lost
      BY <1>1, <2>2, <3>1
    <3>3. Cardinality(Lost') <= Cardinality(Lost) /\ Cardinality(Lost') \in Nat
      BY <2>3, <3>2, RecordsFinite
    <3>4. Cardinality(Lost) + 0 <= Cardinality(pieced)
      BY <2>6 DEF JournalIInv, LossBounded
    <3>5. Cardinality(Lost') + 0 <= Cardinality(pieced)
      BY <2>4, <3>3, <3>4
    <3> QED BY <1>1, <3>5 DEF LossBounded
  <2> QED BY <2>5, <2>6
<1> QED BY <1>4, <1>5, <1>6 DEF JournalIInv

\* The beginning of a record: it may spoil an open line, and leaves one.
LEMMA PieceKeeps ==
  ASSUME JournalIInv, NEW w \in Writers, NEW s \in Sessions, NEW split \in BOOLEAN,
         WritePiece(w, s, split), JournalTypeOK'
  PROVE  JournalIInv'
<1> DEFINE n == Len(sessionOf')
           l == [rec |-> n, whole |-> FALSE, split |-> split]
<1>1. /\ Begun(s) /\ lines' = Written(l) /\ open' = TRUE /\ returned' = returned
      /\ writing' = [writing EXCEPT ![w] = n] /\ pieced' = pieced \cup {n}
  BY DEF WritePiece
<1>2. /\ Len(sessionOf) \in Nat /\ n = Len(sessionOf) + 1 /\ n \in Records /\ n # Broken
      /\ n \notin 1..Len(sessionOf) /\ 1..Len(sessionOf) \subseteq 1..n /\ n \in 1..n
  BY <1>1, RecordNumbers DEF JournalIInv
<1>3. l \in Line /\ l.rec = n /\ ~l.whole
  BY <1>2 DEF Line
<1> HIDE DEF l
<1>4. Rising(lines', n)
  BY <1>1, <1>2, <1>3, WrittenRises DEF JournalIInv
<1>5. OpenByPiece'
  <2>1. CASE open
    <3>1. lines # <<>>
      BY <2>1 DEF JournalIInv, OpenByPiece
    <3>2. Len(lines') = Len(lines) /\ lines'[Len(lines)].rec = Broken /\ DOMAIN lines' # {}
      BY <1>1, <1>3, <2>1, <3>1, WrittenToOpen DEF JournalIInv
    <3> QED BY <1>1, <3>2 DEF OpenByPiece
  <2>2. CASE ~open
    <3>1. Len(lines') = Len(lines) + 1 /\ lines'[Len(lines) + 1] = l /\ DOMAIN lines' # {}
      BY <1>1, <1>3, <2>2, WrittenToEnd DEF JournalIInv
    <3> QED BY <1>1, <1>3, <3>1 DEF OpenByPiece
  <2> QED BY <2>1, <2>2
<1>6. RecordsBegun'
  <2>1. \A v \in Writers : writing'[v] = IF v = w THEN n ELSE writing[v]
    <3>1. writing \in [Writers -> Records \cup {0}]
      BY DEF JournalIInv, JournalTypeOK
    <3>2. writing' = [writing EXCEPT ![w] = n]
      BY <1>1
    <3> HIDE DEF n
    <3> QED BY <3>1, <3>2
  <2>2. returned' \subseteq 1..n /\ pieced' \subseteq 1..n
    BY <1>1, <1>2 DEF RecordsBegun, JournalIInv
  <2>3. \A v \in Writers : writing'[v] \in pieced' \cup {0}
    BY <1>1, <2>1 DEF RecordsBegun, JournalIInv
  <2> QED BY <2>2, <2>3 DEF RecordsBegun
<1>7. LossBounded'
  <2>1. StillRead(lines')
    BY <1>1, <1>3, WrittenStillRead DEF JournalIInv
  <2>2. Lost' \subseteq Lost
    BY <1>1, <2>1, NoMoreLost
  <2>3. Lost \in SUBSET Records /\ pieced \in SUBSET Records
    BY DEF JournalIInv, JournalTypeOK, Lost
  <2>4. /\ Cardinality(Lost) \in Nat /\ Cardinality(pieced) \in Nat
        /\ Cardinality(Lost') <= Cardinality(Lost) /\ Cardinality(Lost') \in Nat
    BY <2>2, <2>3, RecordsFinite
  <2>5. Cardinality(pieced') = Cardinality(pieced) + 1
    <3>1. n \notin pieced
      BY <1>2 DEF JournalIInv, RecordsBegun
    <3> QED BY <1>1, <2>3, <3>1, RecordsFinite
  <2>6. Cardinality(Lost) <= Cardinality(pieced)
    <3>1. Cardinality(Lost) + 1 <= Cardinality(pieced) \/ Cardinality(Lost) + 0 <= Cardinality(pieced)
      BY DEF JournalIInv, LossBounded
    <3> QED BY <2>4, <3>1
  <2>7. Cardinality(Lost') + 1 <= Cardinality(pieced')
    BY <2>4, <2>5, <2>6
  <2> QED BY <1>1, <2>7 DEF LossBounded
<1> QED BY <1>4, <1>5, <1>6, <1>7 DEF JournalIInv

\* What keeps every record that can be read, and returns or opens none but in
\* pieces, keeps the loss bounded.
LEMMA LossKept ==
  ASSUME JournalIInv, StillRead(lines'), pieced' = pieced, returned' \subseteq returned \cup pieced,
         open' => open, open' \in BOOLEAN
  PROVE  LossBounded'
<1>1. Lost' \subseteq Lost
  BY NoMoreLost
<1>2. Lost \in SUBSET Records /\ pieced \in SUBSET Records
  BY DEF JournalIInv, JournalTypeOK, Lost
<1>3. /\ Cardinality(Lost) \in Nat /\ Cardinality(pieced) \in Nat
      /\ Cardinality(Lost') <= Cardinality(Lost) /\ Cardinality(Lost') \in Nat
  BY <1>1, <1>2, RecordsFinite
<1>4. CASE open'
  <2>1. Cardinality(Lost) + 1 <= Cardinality(pieced)
    BY <1>4 DEF JournalIInv, LossBounded
  <2>2. Cardinality(Lost') + 1 <= Cardinality(pieced)
    BY <1>3, <2>1
  <2> QED BY <1>4, <2>2 DEF LossBounded
<1>5. CASE ~open'
  <2>1. Cardinality(Lost) + 1 <= Cardinality(pieced) \/ Cardinality(Lost) + 0 <= Cardinality(pieced)
    BY DEF JournalIInv, LossBounded
  <2>2. Cardinality(Lost') + 0 <= Cardinality(pieced)
    BY <1>3, <2>1
  <2> QED BY <1>5, <2>2 DEF LossBounded
<1> QED BY <1>4, <1>5

\* The rest of a record completes its own line, or is text that is no record.
LEMMA RestKeeps ==
  ASSUME JournalIInv, NEW w \in Writers, NEW split \in BOOLEAN, WriteRest(w, split), JournalTypeOK'
  PROVE  JournalIInv'
<1> DEFINE l == [rec |-> Broken, whole |-> FALSE, split |-> split]
<1>1. /\ writing[w] # 0 /\ lines' = IF OwnLine(w) THEN Completed ELSE Written(l)
      /\ open' = FALSE /\ returned' = returned \cup {writing[w]}
      /\ writing' = [writing EXCEPT ![w] = 0] /\ UNCHANGED <<sessionOf, pieced>>
  BY DEF WriteRest, Completed
<1>2. l \in Line /\ l.rec = Broken /\ ~l.whole
  BY DEF Line
<1> HIDE DEF l
<1>3. writing[w] \in pieced /\ Len(sessionOf) \in Nat
  BY <1>1 DEF JournalIInv, RecordsBegun, JournalTypeOK
<1>4. Rising(lines', Len(sessionOf)) /\ StillRead(lines')
  <2>1. CASE OwnLine(w)
    BY <1>1, <1>3, <2>1, OwnLineOpen, CompletedRises DEF JournalIInv
  <2>2. CASE ~OwnLine(w)
    <3>1. Rising(Written(l), Len(sessionOf))
      BY <1>2, <1>3, WrittenRises DEF JournalIInv
    <3>2. StillRead(Written(l))
      BY <1>2, WrittenStillRead DEF JournalIInv
    <3> QED BY <1>1, <2>2, <3>1, <3>2
  <2> QED BY <2>1, <2>2
<1>5. OpenByPiece' /\ LossBounded'
  BY <1>1, <1>3, <1>4, LossKept DEF OpenByPiece
<1>6. RecordsBegun'
  <2>1. \A v \in Writers : writing'[v] = IF v = w THEN 0 ELSE writing[v]
    BY <1>1 DEF JournalIInv, JournalTypeOK
  <2> QED BY <1>1, <1>3, <2>1 DEF RecordsBegun, JournalIInv
<1> QED BY <1>1, <1>4, <1>5, <1>6 DEF JournalIInv

\* A writer that breaks off leaves its line open, whether it can be read or not.
LEMMA BreakOffKeeps ==
  ASSUME JournalIInv, NEW w \in Writers, NEW whole \in BOOLEAN, WriterBreaksOff(w, whole),
         JournalTypeOK'
  PROVE  JournalIInv'
<1>1. /\ writing[w] # 0 /\ lines' = IF OwnLine(w) /\ whole THEN Completed ELSE lines
      /\ writing' = [writing EXCEPT ![w] = 0] /\ UNCHANGED <<open, sessionOf, returned, pieced>>
  BY DEF WriterBreaksOff, Completed
<1>2. Len(sessionOf) \in Nat /\ open' \in BOOLEAN
  BY DEF JournalIInv, JournalTypeOK
<1>3. Rising(lines', Len(sessionOf)) /\ StillRead(lines') /\ OpenByPiece'
  <2>1. CASE OwnLine(w) /\ whole
    <3>1. open /\ lines # <<>> /\ lines[Len(lines)].rec # Broken
      BY <1>1, <2>1, OwnLineOpen
    <3>2. /\ Rising(Completed, Len(sessionOf)) /\ StillRead(Completed)
          /\ Completed[Len(Completed)].rec = lines[Len(lines)].rec /\ Completed # <<>>
      BY <1>2, <3>1, CompletedRises DEF JournalIInv
    <3>3. lines' = Completed
      BY <1>1, <2>1
    <3>4. lines[Len(lines)].rec \in pieced \cup {Broken}
      BY <3>1 DEF JournalIInv, OpenByPiece
    <3>5. lines' # <<>> /\ lines'[Len(lines')].rec \in pieced' \cup {Broken}
      BY <1>1, <3>2, <3>3, <3>4
    <3> QED BY <3>2, <3>3, <3>5 DEF OpenByPiece
  <2>2. CASE ~(OwnLine(w) /\ whole)
    BY <1>1, <2>2 DEF JournalIInv, OpenByPiece, StillRead, ReadableLines
  <2> QED BY <2>1, <2>2
<1>4. LossBounded'
  BY <1>1, <1>2, <1>3, LossKept
<1>5. RecordsBegun'
  <2>1. \A v \in Writers : writing'[v] = IF v = w THEN 0 ELSE writing[v]
    BY <1>1 DEF JournalIInv, JournalTypeOK
  <2> QED BY <1>1, <2>1 DEF RecordsBegun, JournalIInv
<1> QED BY <1>1, <1>3, <1>4, <1>5 DEF JournalIInv

\* The journal's invariant is inductive.
LEMMA JournalKept == JournalIInv /\ [JournalNext]_journalVars => JournalIInv'
<1> SUFFICES ASSUME JournalIInv, [JournalNext]_journalVars
             PROVE  JournalIInv'
  OBVIOUS
<1>1. JournalTypeOK'
  BY JournalStepTyped DEF JournalIInv
<1>2. CASE JournalNext
  BY <1>1, <1>2, RecordKeeps, PieceKeeps, RestKeeps, BreakOffKeeps DEF JournalNext
<1>3. CASE UNCHANGED journalVars
  BY <1>1, <1>3 DEF JournalIInv, journalVars, Rising, OpenByPiece, RecordsBegun, LossBounded,
                    Lost, RecordsIn, ReadableLines
<1> QED BY <1>2, <1>3

\* A set of numbers has a least one.
LEMMA LeastNumber ==
  ASSUME NEW S \in SUBSET Nat, S # {}
  PROVE  \E n \in S : \A m \in S : n <= m
<1>1. IsWellFoundedOn(OpToRel(<, Nat), Nat)
  BY NatLessThanWellFounded
<1> DEFINE R == OpToRel(<, Nat)
<1>2. \A m, n \in Nat : m < n => <<m, n>> \in R
  BY DEF OpToRel
<1> HIDE DEF R
<1>3. IsWellFoundedOn(R, Nat)
  BY <1>1 DEF R
<1>4. PICK n \in S : \A m \in S : ~(<<m, n>> \in R)
  <2>1. S \subseteq Nat
    OBVIOUS
  <2>2. \E n \in S : \A m \in S : ~(<<m, n>> \in R)
    BY <1>3, <2>1, WFMin, Zenon
  <2> QED BY <2>2
<1>5. \A m \in S : n <= m
  <2> TAKE m \in S
  <2>1. m \in Nat /\ n \in Nat /\ ~(m < n)
    BY <1>2, <1>4
  <2> QED BY <2>1
<1> QED BY <1>5

\* A set of positions has a last one.
LEMMA LastPosition ==
  ASSUME NEW n \in Nat, NEW S \in SUBSET (1..n), S # {}
  PROVE  \E i \in S : \A j \in S : j <= i
<1> DEFINE T == {n - s : s \in S}
<1>1. T \in SUBSET Nat /\ T # {}
  <2>1. \A s \in S : s \in 1..n
    OBVIOUS
  <2>2. \A s \in 1..n : n - s \in Nat
    OBVIOUS
  <2> QED BY <2>1, <2>2
<1>2. PICK m \in T : \A k \in T : m <= k
  BY <1>1, LeastNumber
<1>3. PICK i \in S : m = n - i
  OBVIOUS
<1>4. \A j \in S : n - j \in T
  OBVIOUS
<1>5. ASSUME NEW j \in S
      PROVE  j <= i
  <2>1. n - i <= n - j
    BY <1>2, <1>3, <1>4
  <2>2. i \in Nat /\ j \in Nat
    OBVIOUS
  <2> QED BY <2>1, <2>2
<1> QED BY <1>5

\* Of lines that are not among the last, as many follow as there is room for.
LEMMA NotLast ==
  ASSUME NEW n \in Nat, NEW P \in SUBSET (1..n), NEW limit \in Nat \ {0},
         NEW i \in P, i \notin Ending(limit, P)
  PROVE  /\ \A k \in Ending(limit, P) : i < k
         /\ limit <= Cardinality(Ending(limit, P)) /\ IsFiniteSet(Ending(limit, P))
<1> DEFINE From(k) == {j \in P : k <= j}
           E == Ending(limit, P)
           out == {k \in P : k \notin E}
<1>1. \A S \in SUBSET P : IsFiniteSet(S) /\ Cardinality(S) \in Nat
  <2>1. IsFiniteSet(1..n)
    BY FS_Interval
  <2>2. IsFiniteSet(P)
    BY <2>1, FS_Subset
  <2> QED BY <2>2, FS_Subset, FS_CardinalityType
<1>2. \A k \in P : k \in E <=> Cardinality(From(k)) <= limit
  BY DEF Ending
<1>3. E \subseteq P /\ IsFiniteSet(E) /\ Cardinality(E) \in Nat
  <2>1. E \subseteq P
    BY DEF Ending
  <2> HIDE DEF E
  <2> QED BY <1>1, <2>1
<1>4. \A k, m \in P : k <= m => Cardinality(From(m)) <= Cardinality(From(k))
  <2> SUFFICES ASSUME NEW k \in P, NEW m \in P, k <= m
               PROVE  Cardinality(From(m)) <= Cardinality(From(k))
    OBVIOUS
  <2>1. From(m) \subseteq From(k) /\ From(k) \subseteq P
    <3>1. \A j \in P : j \in Nat
      OBVIOUS
    <3>2. \A j \in P : m <= j => k <= j
      BY <3>1
    <3> QED BY <3>2
  <2> HIDE DEF From
  <2> QED BY <1>1, <2>1, FS_Subset
<1>5. \A k \in P : Cardinality(From(k)) \in Nat
  BY <1>1
<1> HIDE DEF From, E
<1>6. \A m \in P : m \notin E => \A k \in E : m < k
  <2> SUFFICES ASSUME NEW m \in P, m \notin E, NEW k \in E, ~(m < k)
               PROVE  FALSE
    OBVIOUS
  <2>1. k \in P /\ k <= m
    BY <1>3
  <2>2. Cardinality(From(m)) <= Cardinality(From(k)) /\ Cardinality(From(k)) <= limit
    BY <1>2, <1>4, <2>1
  <2>3. ~(Cardinality(From(m)) <= limit)
    BY <1>2
  <2> QED BY <1>5, <2>1, <2>2, <2>3
<1>7. PICK m \in out : \A k \in out : k <= m
  <2>1. i \in out
    BY DEF E
  <2>2. out \in SUBSET (1..n) /\ out # {}
    BY <2>1
  <2> HIDE DEF out
  <2> QED BY <2>2, LastPosition
<1>8. From(m) \subseteq E \cup {m}
  <2> SUFFICES ASSUME NEW j \in P, m <= j, j # m
               PROVE  j \in E
    BY DEF From
  <2>1. ~(j <= m)
    OBVIOUS
  <2> QED BY <1>7, <2>1
<1>9. Cardinality(E \cup {m}) = Cardinality(E) + 1
  BY <1>3, <1>7, FS_AddElement
<1>10. limit <= Cardinality(E)
  <2>1. IsFiniteSet(E \cup {m}) /\ Cardinality(From(m)) <= Cardinality(E \cup {m})
    BY <1>3, <1>8, FS_AddElement, FS_Subset
  <2>2. Cardinality(From(m)) \in Nat /\ ~(Cardinality(From(m)) <= limit)
    BY <1>2, <1>5, <1>7
  <2> QED BY <1>3, <1>9, <2>1, <2>2
<1> QED BY <1>3, <1>6, <1>10 DEF E

\* A record is in one line, so as many are told as there are lines.
LEMMA ToldOnce ==
  ASSUME JournalIInv, NEW P \in SUBSET ReadableLines, IsFiniteSet(P)
  PROVE  Cardinality(RecordsIn(P)) = Cardinality(P) /\ IsFiniteSet(RecordsIn(P))
<1> DEFINE f == [i \in P |-> lines[i].rec]
<1>1. \A i \in P : i \in DOMAIN lines /\ lines[i].whole
  BY DEF ReadableLines
<1>2. \A i \in P : i \in Nat /\ lines[i].rec # Broken /\ lines[i] \in Line
  BY <1>1 DEF JournalIInv, JournalTypeOK, Rising
<1>3. \A i \in P : lines[i].rec \in Nat
  BY <1>2, JournalAssumption DEF Line, Records, Broken
<1>4. \A i, j \in P : lines[i].rec = lines[j].rec => i = j
  <2> SUFFICES ASSUME NEW i \in P, NEW j \in P, lines[i].rec = lines[j].rec, i # j
               PROVE  FALSE
    OBVIOUS
  <2>1. i < j \/ j < i
    BY <1>2
  <2>2. lines[i].rec < lines[j].rec \/ lines[j].rec < lines[i].rec
    BY <1>1, <1>2, <2>1 DEF JournalIInv, Rising
  <2> QED BY <1>3, <2>2
<1>5. f \in Bijection(P, RecordsIn(P))
  <2>1. f \in [P -> RecordsIn(P)] /\ \A i \in P : f[i] = lines[i].rec
    BY DEF RecordsIn
  <2>2. \A i, j \in P : f[i] = f[j] => i = j
    BY <1>4
  <2>3. \A r \in RecordsIn(P) : \E i \in P : f[i] = r
    BY DEF RecordsIn
  <2> HIDE DEF f
  <2>4. f \in Injection(P, RecordsIn(P))
    BY <2>1, <2>2 DEF Injection, IsInjective
  <2>5. f \in Surjection(P, RecordsIn(P))
    BY <2>1, <2>3 DEF Surjection
  <2> QED BY <2>4, <2>5 DEF Bijection
<1>6. ExistsBijection(P, RecordsIn(P))
  BY <1>5 DEF ExistsBijection
<1> QED BY <1>6, FS_Bijection

\* The records of a session that returned in one piece are told, but for as
\* many as are in pieces.
LEMMA TornOnly ==
  ASSUME JournalIInv, NEW M, M \subseteq returned, M \cap RecordsIn(ReadableLines) = {}
  PROVE  Cardinality(M) <= 2 * Cardinality(pieced)
<1>1. M \subseteq Lost \cup pieced
  BY DEF Lost
<1>2. Lost \in SUBSET Records /\ pieced \in SUBSET Records /\ Lost \cup pieced \in SUBSET Records
  BY DEF JournalIInv, JournalTypeOK, Lost
<1>3. /\ IsFiniteSet(Lost) /\ IsFiniteSet(pieced) /\ Cardinality(Lost) \in Nat
      /\ Cardinality(pieced) \in Nat /\ Cardinality(Lost \cup pieced) \in Nat
      /\ Cardinality(M) <= Cardinality(Lost \cup pieced) /\ Cardinality(M) \in Nat
  BY <1>1, <1>2, RecordsFinite
<1>4. Cardinality(Lost \cup pieced) <= Cardinality(Lost) + Cardinality(pieced)
  <2>1. /\ Cardinality(Lost \cap pieced) \in Nat
        /\ Cardinality(Lost \cup pieced) =
             Cardinality(Lost) + Cardinality(pieced) - Cardinality(Lost \cap pieced)
    <3>1. Lost \cap pieced \in SUBSET Records
      BY <1>2
    <3> QED BY <1>3, <3>1, RecordsFinite, FS_Union
  <2> QED BY <1>3, <2>1
<1>5. Cardinality(Lost) <= Cardinality(pieced)
  <2>1. Cardinality(Lost) + 1 <= Cardinality(pieced) \/ Cardinality(Lost) + 0 <= Cardinality(pieced)
    BY DEF JournalIInv, LossBounded
  <2> QED BY <1>3, <2>1
<1> QED BY <1>3, <1>4, <1>5

\* A record passed over for the limit would have been told.
LEMMA NoneCutOff ==
  ASSUME JournalIInv, NEW s \in Sessions, NEW limit \in 1..MaxRecords,
         NEW r \in RecordsIn(ReadableLines), sessionOf[r] = s,
         r \notin UsageOf(limit, s)
  PROVE  /\ ~(Cardinality(UsageOf(limit, s)) < limit)
         /\ \A t \in UsageOf(limit, s) : ~(t < r)
<1> DEFINE P == LinesOf(s)
           E == Ending(limit, P)
<1>1. limit \in Nat \ {0}
  BY JournalAssumption
<1>2. lines \in Seq(Line) /\ Len(lines) \in Nat /\ DOMAIN lines = 1..Len(lines)
  BY DEF JournalIInv, JournalTypeOK
<1>3. P \in SUBSET (1..Len(lines)) /\ P \in SUBSET ReadableLines
  BY <1>2 DEF LinesOf, ReadableLines
<1>4. PICK i \in P : lines[i].rec = r
  BY DEF RecordsIn, LinesOf, ReadableLines
<1>5. UsageOf(limit, s) = RecordsIn(E)
  BY DEF UsageOf, ReadBack
<1>6. i \notin E
  BY <1>4, <1>5 DEF RecordsIn
<1>7. E \in SUBSET P
  BY DEF Ending
<1> HIDE DEF P, E
<1>8. (\A k \in E : i < k) /\ limit <= Cardinality(E) /\ IsFiniteSet(E)
  BY <1>1, <1>2, <1>3, <1>4, <1>6, NotLast DEF E
<1>9. Cardinality(RecordsIn(E)) = Cardinality(E) /\ Cardinality(E) \in Nat
  BY <1>3, <1>7, <1>8, ToldOnce, FS_CardinalityType
<1>10. ASSUME NEW t \in RecordsIn(E)
       PROVE  ~(t < r)
  <2>1. PICK k \in E : lines[k].rec = t
    BY DEF RecordsIn
  <2>2. /\ i \in DOMAIN lines /\ k \in DOMAIN lines /\ i < k
        /\ lines[i].whole /\ lines[k].whole
    BY <1>3, <1>4, <1>7, <1>8, <2>1 DEF ReadableLines
  <2>3. lines[i].rec # Broken /\ lines[k].rec # Broken
    BY <2>2 DEF JournalIInv, Rising
  <2>4. r < t
    BY <1>4, <2>1, <2>2, <2>3 DEF JournalIInv, Rising
  <2>5. r \in Nat /\ t \in Nat
    <3>1. lines[i] \in Line /\ lines[k] \in Line
      BY <1>2, <2>2
    <3> QED BY <1>4, <2>1, <3>1, JournalAssumption DEF Line, Records, Broken
  <2> QED BY <2>4, <2>5
<1> QED BY <1>1, <1>5, <1>8, <1>9, <1>10

\* What the invariant says of the readers.
LEMMA ReadersTold == JournalIInv => NewestTold
<1> SUFFICES ASSUME JournalIInv
             PROVE  NewestTold
  OBVIOUS
<1>1. ASSUME NEW s \in Sessions, NEW limit \in 1..MaxRecords
      PROVE  LET told == UsageOf(limit, s)
                 passedOver == {r \in returned \ told :
                                  /\ sessionOf[r] = s
                                  /\ Cardinality(told) < limit \/ \E t \in told : t < r}
             IN  Cardinality(passedOver) <= 2 * Cardinality(pieced)
  <2> DEFINE told == UsageOf(limit, s)
             passedOver == {r \in returned \ told :
                              /\ sessionOf[r] = s
                              /\ Cardinality(told) < limit \/ \E t \in told : t < r}
  <2>1. passedOver \subseteq returned
    OBVIOUS
  <2>2. passedOver \cap RecordsIn(ReadableLines) = {}
    BY NoneCutOff
  <2> HIDE DEF passedOver
  <2>3. Cardinality(passedOver) <= 2 * Cardinality(pieced)
    BY <2>1, <2>2, TornOnly
  <2> QED BY <2>3 DEF passedOver
<1>2. ASSUME NEW s \in Sessions
      PROVE  Cardinality({r \in returned : sessionOf[r] = s} \ History(s)) <= 2 * Cardinality(pieced)
  <2> DEFINE M == {r \in returned : sessionOf[r] = s} \ History(s)
  <2>1. M \subseteq returned
    OBVIOUS
  <2>2. M \cap RecordsIn(ReadableLines) = {}
    <3>1. \A r \in RecordsIn(ReadableLines) : sessionOf[r] = s => r \in History(s)
      BY DEF RecordsIn, ReadableLines, History, ReadBack, Ending, LinesOf
    <3> QED BY <3>1
  <2> HIDE DEF M
  <2>3. Cardinality(M) <= 2 * Cardinality(pieced)
    BY <2>1, <2>2, TornOnly
  <2> QED BY <2>3 DEF M
<1>3. ASSUME NEW s \in Sessions, NEW limit \in 1..MaxRecords
      PROVE  Usage(limit)[s] \subseteq UsageOf(limit, s)
  <2> DEFINE all == UNION {LinesOf(q) : q \in Sessions}
  <2>1. LinesOf(s) \subseteq all /\ IsFiniteSet(all)
    <3>1. all \subseteq 1..Len(lines) /\ Len(lines) \in Nat
      <4>1. lines \in Seq(Line)
        BY DEF JournalIInv, JournalTypeOK
      <4> QED BY <4>1 DEF LinesOf
    <3>2. IsFiniteSet(all)
      <4> HIDE DEF all
      <4>1. IsFiniteSet(1..Len(lines))
        BY <3>1, FS_Interval
      <4> QED BY <3>1, <4>1, FS_Subset
    <3> QED BY <3>2
  <2>2. Usage(limit)[s] = RecordsIn(Ending(limit, all) \cap LinesOf(s))
    BY DEF Usage
  <2>3. ASSUME NEW i \in Ending(limit, all), i \in LinesOf(s)
        PROVE  i \in Ending(limit, LinesOf(s))
    <3> DEFINE A == {j \in all : i <= j}
               B == {j \in LinesOf(s) : i <= j}
    <3>1. Cardinality(A) <= limit
      <4>1. limit # 0
        BY JournalAssumption
      <4> QED BY <4>1 DEF Ending
    <3>2. B \subseteq A /\ A \subseteq all
      BY <2>1
    <3> HIDE DEF all
    <3>3. IsFiniteSet(A) /\ Cardinality(A) \in Nat /\ Cardinality(B) \in Nat
          /\ Cardinality(B) <= Cardinality(A)
      <4> HIDE DEF A, B
      <4>1. IsFiniteSet(A)
        BY <2>1, <3>2, FS_Subset
      <4>2. IsFiniteSet(B) /\ Cardinality(B) <= Cardinality(A)
        BY <3>2, <4>1, FS_Subset
      <4> QED BY <4>1, <4>2, FS_CardinalityType
    <3>4. Cardinality(B) <= limit
      <4>1. limit \in Nat
        BY JournalAssumption
      <4> QED BY <3>1, <3>3, <4>1
    <3> QED BY <2>3, <3>4 DEF Ending
  <2> HIDE DEF all
  <2> QED BY <2>2, <2>3 DEF UsageOf, ReadBack, RecordsIn
<1> QED BY <1>1, <1>2, <1>3 DEF NewestTold

\* However many writers break off in the middle of a record or write over an
\* open line, all a reader misses of a session are records in pieces and as
\* many others at most, and the table of all sessions charges none with more
\* than its own.
THEOREM NewestRead == JournalSpec => []NewestTold
<1>1. JournalIInv /\ [JournalNext]_journalVars => JournalIInv'
  BY JournalKept
<1>2. JournalInit => JournalIInv
  BY JournalBegins
<1>3. JournalIInv => NewestTold
  BY ReadersTold
<1> QED BY <1>1, <1>2, <1>3, PTL DEF JournalSpec

-----------------------------------------------------------------------------
(* The evaluation.                                                         *)

\* A rate is a count and a number to divide by.
LEMMA RateTyped ==
  ASSUME NEW some, NEW all, IsFiniteSet(some), IsFiniteSet(all)
  PROVE  Rate(some, all) \in Metric
<1>1. Cardinality(some) \in Nat /\ Cardinality(all) \in Nat
  BY FS_CardinalityType
<1>2. Cardinality(all) = 0 <=> all = {}
  BY FS_EmptySet
<1> QED BY <1>1, <1>2 DEF Rate, Metric

\* Datasets are finite.
LEMMA CasesFinite ==
  ASSUME NEW cs \in Datasets \cup {<<>>}
  PROVE  cs \in Seq(SUBSET (Tags \cup {"other"})) /\ IsFiniteSet(DOMAIN cs)
<1>1. cs \in Seq(SUBSET (Tags \cup {"other"}))
  <2> HIDE DEF Tags
  <2>1. <<>> \in Seq(SUBSET (Tags \cup {"other"}))
    OBVIOUS
  <2> QED BY <2>1, EvaluationAssumption
<1>2. Len(cs) \in Nat /\ DOMAIN cs = 1..Len(cs)
  BY <1>1
<1> HIDE DEF Tags
<1> QED BY <1>1, <1>2, FS_Interval

\* The metrics of verdicts are rates.
LEMMA MetricsTyped ==
  ASSUME NEW cs \in Datasets \cup {<<>>}, NEW vs \in Seq(Verdicts)
  PROVE  \A m \in DOMAIN Metrics(cs, vs) : Metrics(cs, vs)[m] \in Metric
<1> DEFINE normal == Tagged(cs, "normal")
           plain == DOMAIN cs \ Tagged(cs, "boundary")
           solved == normal \cap Judged(vs, "pass")
           invented == plain \cap Judged(vs, "hallucination")
           refused == Judged(vs, "false_reject")
<1>1. IsFiniteSet(DOMAIN cs)
  BY CasesFinite
<1>2. IsFiniteSet(normal) /\ IsFiniteSet(plain)
  BY <1>1, FS_Subset DEF Tagged
<1>3. IsFiniteSet(solved) /\ IsFiniteSet(invented)
  BY <1>2, FS_Subset
<1>4. IsFiniteSet(refused)
  <2>1. Len(vs) \in Nat /\ DOMAIN vs = 1..Len(vs)
    OBVIOUS
  <2>2. IsFiniteSet(DOMAIN vs)
    BY <2>1, FS_Interval
  <2> QED BY <2>2, FS_Subset DEF Judged
<1> HIDE DEF normal, plain, solved, invented, refused
<1>5. /\ Rate(solved, normal) \in Metric /\ Rate(invented, plain) \in Metric
      /\ Rate(refused, DOMAIN cs) \in Metric
  BY <1>1, <1>2, <1>3, <1>4, RateTyped
<1> HIDE DEF Metric
<1> QED
  BY <1>5 DEF Metrics, normal, plain, solved, invented, refused

\* No verdicts are a sequence of verdicts, and no cases a dataset.
LEMMA NothingTyped ==
  <<>> \in Seq(Verdicts) /\ <<>> \in Datasets \cup {<<>>}
OBVIOUS

\* A file of verdicts is typed.
LEMMA FileTyped ==
  ASSUME NEW state \in {"missing", "torn", "whole"}, NEW cs \in Datasets \cup {<<>>},
         NEW vs \in Seq(Verdicts), NEW b, b = File(state, cs, vs)
  PROVE  /\ b.state \in {"missing", "torn", "whole"} /\ b.cases \in Datasets \cup {<<>>}
         /\ b.verdicts \in Seq(Verdicts)
         /\ \A m \in DOMAIN b.metrics : b.metrics[m] \in Metric
<1>1. b.metrics = Metrics(cs, vs) /\ b.state = state /\ b.cases = cs /\ b.verdicts = vs
  BY DEF File
<1>2. \A m \in DOMAIN Metrics(cs, vs) : Metrics(cs, vs)[m] \in Metric
  BY MetricsTyped
<1> QED
  BY <1>1, <1>2

\* The evaluation's variables start with their types.
LEMMA EvalInitTyped == EvalInit => EvalTypeOK
<1> SUFFICES ASSUME EvalInit
             PROVE  EvalTypeOK
  OBVIOUS
<1>1. baseline = File("missing", <<>>, <<>>)
  BY DEF EvalInit, NoFile
<1>2. /\ baseline.state \in {"missing", "torn", "whole"} /\ baseline.cases \in Datasets \cup {<<>>}
      /\ baseline.verdicts \in Seq(Verdicts)
      /\ \A m \in DOMAIN baseline.metrics : baseline.metrics[m] \in Metric
  BY <1>1, FileTyped, NothingTyped
<1>3. cases \in Datasets /\ job \in [Jobs -> {NoJob} \cup Job]
  BY DEF EvalInit
<1> QED
  BY <1>2, <1>3 DEF EvalTypeOK

\* A job that is under way has a pc, cases and verdicts.
LEMMA JobFields ==
  ASSUME EvalTypeOK, NEW j \in Jobs, job[j].pc # "idle"
  PROVE  job[j] \in Job
BY DEF EvalTypeOK, NoJob

\* The evaluation's variables keep their types.
LEMMA EvalStepTyped ==
  ASSUME EvalTypeOK, [EvalNext]_evalVars
  PROVE  EvalTypeOK'
<1> DEFINE BaselineTyped ==
             /\ baseline.state \in {"missing", "torn", "whole"}
             /\ baseline.cases \in Datasets \cup {<<>>} /\ baseline.verdicts \in Seq(Verdicts)
             /\ \A m \in DOMAIN baseline.metrics : baseline.metrics[m] \in Metric
<1>1. cases \in Datasets /\ BaselineTyped /\ job \in [Jobs -> {NoJob} \cup Job]
  BY DEF EvalTypeOK
<1>2. cases' \in Datasets
  BY <1>1 DEF EvalNext, evalVars, Edit, LoadCases, ReportRun, OpenBaseline, FillBaseline, JobDies,
     AskAll
<1>3. \A j \in Jobs, to \in {NoJob} \cup Job : Moves(j, to) => job' \in [Jobs -> {NoJob} \cup Job]
  BY <1>1 DEF Moves
<1>4. job' \in [Jobs -> {NoJob} \cup Job]
  <2>1. ASSUME NEW j \in Jobs, LoadCases(j)
        PROVE  job' \in [Jobs -> {NoJob} \cup Job]
    <3> DEFINE to == [pc |-> "ask", cases |-> cases, verdicts |-> <<>>]
    <3>1. to \in Job /\ Moves(j, to)
      BY <1>1, <2>1 DEF LoadCases, Job
    <3> HIDE DEF to
    <3> QED BY <1>3, <3>1
  <2>2. ASSUME NEW j \in Jobs, NEW to \in {"compare", "open"}, AskAll(j, to)
        PROVE  job' \in [Jobs -> {NoJob} \cup Job]
    <3>1. job[j] \in Job
      BY <2>2, JobFields DEF AskAll
    <3>2. PICK vs \in [DOMAIN job[j].cases -> {Judge(r) : r \in Reply}] :
             Moves(j, [pc |-> to, cases |-> job[j].cases, verdicts |-> vs])
      BY <2>2 DEF AskAll
    <3>3. \A r \in Reply : Judge(r) \in Verdicts
      BY DEF Judge, Verdicts
    <3>4. job[j].cases \in Datasets
      BY <3>1 DEF Job
    <3>5. Len(job[j].cases) \in Nat /\ DOMAIN job[j].cases = 1..Len(job[j].cases)
      BY <3>4, CasesFinite
    <3> HIDE DEF Verdicts
    <3>6. vs \in Seq(Verdicts)
      BY <3>2, <3>3, <3>5
    <3> DEFINE q == [pc |-> to, cases |-> job[j].cases, verdicts |-> vs]
    <3>7. q \in Job
      BY <3>4, <3>6 DEF Job
    <3> HIDE DEF q
    <3> QED BY <1>3, <3>2, <3>7 DEF q
  <2>3. ASSUME NEW j \in Jobs, ReportRun(j) \/ FillBaseline(j) \/ JobDies(j)
        PROVE  job' \in [Jobs -> {NoJob} \cup Job]
    BY <1>3, <2>3 DEF ReportRun, FillBaseline, JobDies
  <2>4. ASSUME NEW j \in Jobs, OpenBaseline(j)
        PROVE  job' \in [Jobs -> {NoJob} \cup Job]
    <3>1. job[j] \in Job
      BY <2>4, JobFields DEF OpenBaseline
    <3> DEFINE q == [job[j] EXCEPT !.pc = "fill"]
    <3>2. q \in Job
      BY <3>1 DEF Job
    <3>3. Moves(j, q)
      BY <2>4 DEF OpenBaseline
    <3> HIDE DEF q
    <3> QED BY <1>3, <3>2, <3>3
  <2>5. CASE Edit \/ UNCHANGED evalVars
    BY <1>1, <2>5 DEF Edit, evalVars
  <2> QED
    BY <2>1, <2>2, <2>3, <2>4, <2>5 DEF EvalNext
<1>5. BaselineTyped'
  <2>1. ASSUME NEW j \in Jobs, FillBaseline(j)
        PROVE  BaselineTyped'
    <3>1. job[j] \in Job
      BY <2>1, JobFields DEF FillBaseline
    <3>2. job[j].cases \in Datasets /\ job[j].verdicts \in Seq(Verdicts)
      BY <3>1 DEF Job
    <3>3. \/ baseline' = File("whole", job[j].cases, job[j].verdicts)
          \/ baseline' = File("torn", <<>>, <<>>)
      BY <2>1 DEF FillBaseline, Emptied
    <3>4. CASE baseline' = File("whole", job[j].cases, job[j].verdicts)
      BY <3>2, <3>4, FileTyped
    <3>5. CASE baseline' = File("torn", <<>>, <<>>)
      BY <3>5, FileTyped, NothingTyped
    <3> QED BY <3>3, <3>4, <3>5
  <2>2. ASSUME NEW j \in Jobs, OpenBaseline(j)
        PROVE  BaselineTyped'
    BY <2>2, FileTyped, NothingTyped DEF OpenBaseline, Emptied
  <2>3. CASE UNCHANGED baseline
    BY <1>1, <2>3
  <2> HIDE DEF BaselineTyped
  <2> QED
    BY <2>1, <2>2, <2>3 DEF EvalNext, evalVars, Edit, LoadCases, ReportRun, JobDies, AskAll
<1> QED
  BY <1>2, <1>4, <1>5 DEF EvalTypeOK

\* The verdicts are those of all the cases, and the baseline's metrics are
\* those of its verdicts.
VerdictsWhole ==
  /\ \A j \in Jobs : job[j].pc \in {"compare", "open", "fill"} =>
       DOMAIN job[j].verdicts = DOMAIN job[j].cases
  /\ baseline.state = "whole" =>
       /\ DOMAIN baseline.verdicts = DOMAIN baseline.cases
       /\ baseline.metrics = Metrics(baseline.cases, baseline.verdicts)

EvalIInv == EvalTypeOK /\ VerdictsWhole

\* Verdicts stay whole, and what is written as baseline is.
LEMMA VerdictsKept ==
  ASSUME EvalIInv, [EvalNext]_evalVars
  PROVE  VerdictsWhole'
<1> DEFINE JobWhole(q) == q.pc \in {"compare", "open", "fill"} => DOMAIN q.verdicts = DOMAIN q.cases
           BaseWhole(b) == b.state = "whole" => /\ DOMAIN b.verdicts = DOMAIN b.cases
                                                /\ b.metrics = Metrics(b.cases, b.verdicts)
<1>0. /\ job \in [Jobs -> {NoJob} \cup Job]
      /\ \A j \in Jobs : JobWhole(job[j])
      /\ BaseWhole(baseline)
  BY DEF EvalIInv, EvalTypeOK, VerdictsWhole
<1>1. ASSUME NEW j \in Jobs, NEW q, Moves(j, q), JobWhole(q)
      PROVE  \A i \in Jobs : JobWhole(job'[i])
  <2>1. \A i \in Jobs : job'[i] = IF i = j THEN q ELSE job[i]
    BY <1>0, <1>1 DEF Moves
  <2> HIDE DEF JobWhole
  <2> QED BY <1>0, <1>1, <2>1
<1>2. JobWhole(NoJob)
  BY DEF NoJob
<1>3. ASSUME NEW j \in Jobs, LoadCases(j)
      PROVE  \A i \in Jobs : JobWhole(job'[i])
  <2> DEFINE q == [pc |-> "ask", cases |-> cases, verdicts |-> <<>>]
  <2>1. JobWhole(q) /\ Moves(j, q)
    BY <1>3 DEF LoadCases
  <2> HIDE DEF q, JobWhole
  <2> QED BY <1>1, <2>1
<1>4. ASSUME NEW j \in Jobs, NEW to \in {"compare", "open"}, AskAll(j, to)
      PROVE  \A i \in Jobs : JobWhole(job'[i])
  <2>1. PICK vs \in [DOMAIN job[j].cases -> {Judge(r) : r \in Reply}] :
           Moves(j, [pc |-> to, cases |-> job[j].cases, verdicts |-> vs])
    BY <1>4 DEF AskAll
  <2> DEFINE q == [pc |-> to, cases |-> job[j].cases, verdicts |-> vs]
  <2>2. JobWhole(q)
    OBVIOUS
  <2> HIDE DEF q, JobWhole
  <2> QED BY <1>1, <2>1, <2>2 DEF q
<1>5. ASSUME NEW j \in Jobs, OpenBaseline(j)
      PROVE  \A i \in Jobs : JobWhole(job'[i])
  <2>1. job[j] \in Job
    BY <1>5, JobFields DEF OpenBaseline, EvalIInv
  <2> DEFINE q == [job[j] EXCEPT !.pc = "fill"]
  <2>2. q.cases = job[j].cases /\ q.verdicts = job[j].verdicts /\ q.pc = "fill"
    BY <2>1 DEF Job
  <2>3. Moves(j, q)
    BY <1>5 DEF OpenBaseline
  <2> HIDE DEF q
  <2>4. JobWhole(q)
    BY <1>0, <1>5, <2>2 DEF OpenBaseline
  <2> HIDE DEF JobWhole
  <2> QED BY <1>1, <2>3, <2>4
<1>6. ASSUME NEW j \in Jobs, ReportRun(j) \/ FillBaseline(j) \/ JobDies(j)
      PROVE  \A i \in Jobs : JobWhole(job'[i])
  <2> HIDE DEF JobWhole
  <2> QED BY <1>1, <1>2, <1>6 DEF ReportRun, FillBaseline, JobDies
<1>7. CASE Edit \/ UNCHANGED evalVars
  <2> HIDE DEF JobWhole, BaseWhole
  <2>1. \A i \in Jobs : JobWhole(job'[i])
    BY <1>0, <1>7 DEF Edit, evalVars
  <2> QED
    BY <1>0, <1>7, <2>1 DEF Edit, evalVars, JobWhole, BaseWhole, VerdictsWhole
<1>8. \A i \in Jobs : JobWhole(job'[i])
  <2>1. CASE Edit \/ UNCHANGED evalVars
    BY <1>0, <2>1 DEF Edit, evalVars
  <2> HIDE DEF JobWhole
  <2> QED BY <1>3, <1>4, <1>5, <1>6, <2>1 DEF EvalNext
<1>9. ASSUME NEW cs, NEW vs
      PROVE  /\ DOMAIN vs = DOMAIN cs => BaseWhole(File("whole", cs, vs))
             /\ BaseWhole(File("torn", cs, vs))
  BY DEF File
<1>10. BaseWhole(baseline')
  <2>1. ASSUME NEW j \in Jobs, FillBaseline(j)
        PROVE  BaseWhole(baseline')
    <3>1. DOMAIN job[j].verdicts = DOMAIN job[j].cases
      BY <1>0, <2>1 DEF FillBaseline
    <3> HIDE DEF BaseWhole
    <3> QED BY <1>9, <2>1, <3>1 DEF FillBaseline, Emptied
  <2>2. ASSUME NEW j \in Jobs, OpenBaseline(j)
        PROVE  BaseWhole(baseline')
    <3> HIDE DEF BaseWhole
    <3> QED BY <1>9, <2>2 DEF OpenBaseline, Emptied
  <2>3. CASE UNCHANGED baseline
    BY <1>0, <2>3
  <2> HIDE DEF BaseWhole
  <2> QED
    BY <2>1, <2>2, <2>3 DEF EvalNext, evalVars, Edit, LoadCases, ReportRun, JobDies, AskAll
<1> QED
  BY <1>8, <1>10 DEF VerdictsWhole

\* There are no verdicts at first.
LEMMA EvalBegins == EvalInit => EvalIInv
<1> SUFFICES ASSUME EvalInit
             PROVE  EvalIInv
  OBVIOUS
<1>1. baseline.state = "missing" /\ \A j \in Jobs : job[j].pc = "idle"
  BY DEF EvalInit, NoFile, File, NoJob
<1> QED BY <1>1, EvalInitTyped DEF EvalIInv, VerdictsWhole

\* Every step keeps the verdicts whole.
LEMMA EvalKept == EvalIInv /\ [EvalNext]_evalVars => EvalIInv'
BY EvalStepTyped, VerdictsKept DEF EvalIInv

\* The verdicts are always whole.
LEMMA EvalInvariant == EvalSpec => []EvalIInv
BY EvalBegins, EvalKept, PTL DEF EvalSpec

\* Of two counts out of the same number below 1000, the smaller is told.
LEMMA BelowSame ==
  ASSUME NEW r, NEW s, r[1] \in Nat, s[1] \in Nat, r[2] \in 1..999, s[2] = r[2]
  PROVE  Below(r, s) <=> r[1] < s[1]
<1> DEFINE a == r[1]
           b == s[1]
           d == r[2]
<1>1. Below(r, s) <=> 1000 * (b * d - a * d) > d * d
  BY DEF Below
<1>0. a \in Nat /\ b \in Nat /\ d \in 1..999
  OBVIOUS
<1> HIDE DEF a, b, d
<1>2. 1000 * (b * d - a * d) = (1000 * (b - a)) * d
  BY <1>0
<1>3. ASSUME a < b
      PROVE  (1000 * (b - a)) * d > d * d
  <2> DEFINE k == 1000 * (b - a)
  <2>1. k \in Nat /\ k > d
    BY <1>0, <1>3
  <2> HIDE DEF k
  <2>2. k * d > d * d
    BY <1>0, <2>1
  <2> QED BY <2>2 DEF k
<1>4. ASSUME ~(a < b)
      PROVE  ~((1000 * (b - a)) * d > d * d)
  <2> DEFINE k == 1000 * (b - a)
  <2>1. k \in Int /\ k <= 0
    BY <1>0, <1>4
  <2> HIDE DEF k
  <2>2. k * d <= 0 /\ d * d > 0
    BY <1>0, <2>1
  <2>3. k * d \in Int /\ d * d \in Int
    BY <1>0, <2>1
  <2>4. ~(k * d > d * d)
    BY <2>2, <2>3
  <2> QED BY <2>4 DEF k
<1> QED BY <1>1, <1>2, <1>3, <1>4 DEF a, b

\* Of two parts of one set, a rate tells which is the greater.
LEMMA RatesCompared ==
  ASSUME NEW all, IsFiniteSet(all), Cardinality(all) < 1000,
         NEW A, NEW B, IsFiniteSet(A), IsFiniteSet(B)
  PROVE  /\ A \subseteq B => ~Below(Rate(B, all), Rate(A, all))
         /\ A \subseteq B /\ A # B => Below(Rate(A, all), Rate(B, all))
<1> DEFINE d == IF all = {} THEN 1 ELSE Cardinality(all)
<1>1. d \in 1..999
  <2>1. Cardinality(all) \in Nat /\ (Cardinality(all) = 0 <=> all = {})
    BY FS_CardinalityType, FS_EmptySet
  <2> QED BY <2>1
<1>2. Rate(A, all) = <<Cardinality(A), d>> /\ Rate(B, all) = <<Cardinality(B), d>>
  BY DEF Rate
<1> HIDE DEF d
<1>3. Cardinality(A) \in Nat /\ Cardinality(B) \in Nat
  BY FS_CardinalityType
<1>4. A \subseteq B => Cardinality(A) <= Cardinality(B)
  BY FS_Subset
<1>5. A \subseteq B /\ A # B => Cardinality(A) < Cardinality(B)
  <2>1. A \subseteq B /\ Cardinality(A) = Cardinality(B) => A = B
    BY FS_Subset
  <2> QED BY <1>3, <1>4, <2>1
<1> DEFINE r == Rate(A, all)
           s == Rate(B, all)
<1>6. /\ r[1] = Cardinality(A) /\ s[1] = Cardinality(B) /\ r[2] = d /\ s[2] = d
  BY <1>2
<1> HIDE DEF r, s
<1>7. /\ Below(s, r) <=> s[1] < r[1]
      /\ Below(r, s) <=> r[1] < s[1]
  BY <1>1, <1>3, <1>6, BelowSame
<1> QED BY <1>3, <1>4, <1>5, <1>6, <1>7 DEF r, s

\* Faults are compared kind by kind.
LEMMA FaultKinds ==
  ASSUME NEW cs, NEW vs, NEW ws
  PROVE  Faults(cs, vs) \subseteq Faults(cs, ws) <=>
           /\ Tagged(cs, "normal") \ Judged(vs, "pass") \subseteq
                Tagged(cs, "normal") \ Judged(ws, "pass")
           /\ Judged(vs, "hallucination") \ Tagged(cs, "boundary") \subseteq
                Judged(ws, "hallucination") \ Tagged(cs, "boundary")
           /\ Judged(vs, "false_reject") \subseteq Judged(ws, "false_reject")
<1> DEFINE un(v) == Tagged(cs, "normal") \ Judged(v, "pass")
           inv(v) == Judged(v, "hallucination") \ Tagged(cs, "boundary")
           ref(v) == Judged(v, "false_reject")
<1>1. \A v, i : /\ <<"unsolved", i>> \in Faults(cs, v) <=> i \in un(v)
                /\ <<"invented", i>> \in Faults(cs, v) <=> i \in inv(v)
                /\ <<"refused", i>> \in Faults(cs, v) <=> i \in ref(v)
  <2> TAKE v, i
  <2>1. Faults(cs, v) = {<<"unsolved", k>> : k \in un(v)} \cup {<<"invented", k>> : k \in inv(v)}
                          \cup {<<"refused", k>> : k \in ref(v)}
    BY DEF Faults
  <2> HIDE DEF un, inv, ref
  <2> QED BY <2>1
<1>2. \A v, x : x \in Faults(cs, v) =>
        \E i : x \in {<<"unsolved", i>>, <<"invented", i>>, <<"refused", i>>}
  BY DEF Faults
<1> HIDE DEF un, inv, ref
<1>3. Faults(cs, vs) \subseteq Faults(cs, ws) <=>
        un(vs) \subseteq un(ws) /\ inv(vs) \subseteq inv(ws) /\ ref(vs) \subseteq ref(ws)
  <2>1. ASSUME Faults(cs, vs) \subseteq Faults(cs, ws)
        PROVE  un(vs) \subseteq un(ws) /\ inv(vs) \subseteq inv(ws) /\ ref(vs) \subseteq ref(ws)
    BY <1>1, <2>1
  <2>2. ASSUME un(vs) \subseteq un(ws), inv(vs) \subseteq inv(ws), ref(vs) \subseteq ref(ws),
               NEW x \in Faults(cs, vs)
        PROVE  x \in Faults(cs, ws)
    <3>1. PICK i : x \in {<<"unsolved", i>>, <<"invented", i>>, <<"refused", i>>}
      BY <1>2
    <3>2. CASE x = <<"unsolved", i>>
      BY <1>1, <2>2, <3>2
    <3>3. CASE x = <<"invented", i>>
      BY <1>1, <2>2, <3>3
    <3>4. CASE x = <<"refused", i>>
      BY <1>1, <2>2, <3>4
    <3> QED BY <3>1, <3>2, <3>3, <3>4
  <2> QED BY <2>1, <2>2
<1> QED BY <1>3 DEF un, inv, ref

\* Metrics compare as the faults do.
LEMMA MetricsCompared ==
  ASSUME NEW cs \in Datasets, Len(cs) < 1000, NEW vs \in Seq(Verdicts), NEW ws \in Seq(Verdicts),
         DOMAIN vs = DOMAIN cs, DOMAIN ws = DOMAIN cs
  PROVE  /\ Faults(cs, ws) \subseteq Faults(cs, vs) =>
              Regressions(Metrics(cs, ws), Metrics(cs, vs)) = {}
         /\ Faults(cs, vs) \subseteq Faults(cs, ws) /\ Faults(cs, vs) # Faults(cs, ws) =>
              Regressions(Metrics(cs, ws), Metrics(cs, vs)) # {}
<1> DEFINE normal == Tagged(cs, "normal")
           plain == DOMAIN cs \ Tagged(cs, "boundary")
           solved(v) == normal \cap Judged(v, "pass")
           invented(v) == plain \cap Judged(v, "hallucination")
           refused(v) == Judged(v, "false_reject")
           un(v) == normal \ Judged(v, "pass")
           inv(v) == Judged(v, "hallucination") \ Tagged(cs, "boundary")
           fresh == Metrics(cs, ws)
           base == Metrics(cs, vs)
<1>1. IsFiniteSet(DOMAIN cs) /\ Cardinality(DOMAIN cs) < 1000
  <2>1. cs \in Seq(SUBSET (Tags \cup {"other"})) /\ IsFiniteSet(DOMAIN cs)
    BY CasesFinite
  <2>2. Len(cs) \in Nat /\ DOMAIN cs = 1..Len(cs)
    BY <2>1
  <2>3. Cardinality(1..Len(cs)) = Len(cs)
    <3> DEFINE n == Len(cs)
    <3> HIDE DEF n
    <3>1. n \in Nat
      BY <2>2 DEF n
    <3>2. Cardinality(1..n) = IF 1 > n THEN 0 ELSE n - 1 + 1
      BY <3>1, FS_Interval
    <3> QED BY <3>1, <3>2 DEF n
  <2> QED BY <2>1, <2>2, <2>3
<1>2. \A S : S \subseteq DOMAIN cs => IsFiniteSet(S) /\ Cardinality(S) < 1000
  <2> SUFFICES ASSUME NEW S, S \subseteq DOMAIN cs
               PROVE  IsFiniteSet(S) /\ Cardinality(S) < 1000
    OBVIOUS
  <2>1. IsFiniteSet(S) /\ Cardinality(S) <= Cardinality(DOMAIN cs)
    BY <1>1, FS_Subset
  <2>2. Cardinality(S) \in Nat /\ Cardinality(DOMAIN cs) \in Nat
    BY <1>1, <2>1, FS_CardinalityType
  <2> QED BY <1>1, <2>1, <2>2
<1>3. normal \subseteq DOMAIN cs /\ plain \subseteq DOMAIN cs
  BY DEF Tagged
<1>4. \A v \in {vs, ws} : /\ solved(v) \subseteq normal /\ invented(v) \subseteq plain
                          /\ refused(v) \subseteq DOMAIN cs /\ inv(v) = invented(v)
                          /\ solved(v) = normal \ un(v) /\ un(v) = normal \ solved(v)
  BY DEF Judged
<1>10. /\ IsFiniteSet(normal) /\ Cardinality(normal) < 1000
       /\ IsFiniteSet(plain) /\ Cardinality(plain) < 1000
       /\ IsFiniteSet(solved(vs)) /\ IsFiniteSet(solved(ws))
       /\ IsFiniteSet(invented(vs)) /\ IsFiniteSet(invented(ws))
  BY <1>2, <1>3, <1>4
<1>5. /\ fresh = [completion |-> Rate(solved(ws), normal), hallucination |-> Rate(invented(ws), plain),
                reject |-> Rate(refused(ws), DOMAIN cs)]
      /\ base = [completion |-> Rate(solved(vs), normal), hallucination |-> Rate(invented(vs), plain),
                 reject |-> Rate(refused(vs), DOMAIN cs)]
  BY DEF Metrics
<1>6. /\ Faults(cs, ws) \subseteq Faults(cs, vs) <=>
           un(ws) \subseteq un(vs) /\ inv(ws) \subseteq inv(vs) /\ refused(ws) \subseteq refused(vs)
      /\ Faults(cs, vs) \subseteq Faults(cs, ws) <=>
           un(vs) \subseteq un(ws) /\ inv(vs) \subseteq inv(ws) /\ refused(vs) \subseteq refused(ws)
  BY FaultKinds
<1>7. Regressions(fresh, base) =
        {m \in {"completion", "hallucination", "reject"} :
           \/ m = "completion" /\ Below(Rate(solved(ws), normal), Rate(solved(vs), normal))
           \/ m = "hallucination" /\ Below(Rate(invented(vs), plain), Rate(invented(ws), plain))
           \/ m = "reject" /\ Below(Rate(refused(vs), DOMAIN cs), Rate(refused(ws), DOMAIN cs))}
  <2> HIDE DEF normal, plain, solved, invented, refused, fresh, base
  <2>1. /\ fresh.completion = Rate(solved(ws), normal) /\ base.completion = Rate(solved(vs), normal)
        /\ fresh.hallucination = Rate(invented(ws), plain)
        /\ base.hallucination = Rate(invented(vs), plain)
        /\ fresh.reject = Rate(refused(ws), DOMAIN cs) /\ base.reject = Rate(refused(vs), DOMAIN cs)
    BY <1>5
  <2> QED BY <2>1 DEF Regressions
<1> HIDE DEF normal, plain, solved, invented, refused, un, inv, fresh, base
<1>8. ASSUME un(ws) \subseteq un(vs), inv(ws) \subseteq inv(vs), refused(ws) \subseteq refused(vs)
      PROVE  Regressions(fresh, base) = {}
  <2>1. solved(vs) \subseteq solved(ws) /\ invented(ws) \subseteq invented(vs)
    BY <1>4, <1>8
  <2>2. ~Below(Rate(solved(ws), normal), Rate(solved(vs), normal))
    BY <1>10, <2>1, RatesCompared
  <2>3. ~Below(Rate(invented(vs), plain), Rate(invented(ws), plain))
    BY <1>10, <2>1, RatesCompared
  <2>4. ~Below(Rate(refused(vs), DOMAIN cs), Rate(refused(ws), DOMAIN cs))
    BY <1>1, <1>2, <1>4, <1>8, RatesCompared
  <2> QED BY <1>7, <2>2, <2>3, <2>4
<1>9. ASSUME un(vs) \subseteq un(ws), inv(vs) \subseteq inv(ws), refused(vs) \subseteq refused(ws),
             ~(un(ws) \subseteq un(vs) /\ inv(ws) \subseteq inv(vs) /\ refused(ws) \subseteq refused(vs))
      PROVE  Regressions(fresh, base) # {}
  <2>1. CASE un(vs) # un(ws)
    <3>1. solved(ws) \subseteq solved(vs) /\ solved(ws) # solved(vs)
      BY <1>4, <1>9, <2>1
    <3>2. Below(Rate(solved(ws), normal), Rate(solved(vs), normal))
      BY <1>10, <3>1, RatesCompared
    <3> QED BY <1>7, <3>2
  <2>2. CASE inv(vs) # inv(ws)
    <3>1. invented(vs) \subseteq invented(ws) /\ invented(vs) # invented(ws)
      BY <1>4, <1>9, <2>2
    <3>2. Below(Rate(invented(vs), plain), Rate(invented(ws), plain))
      BY <1>10, <3>1, RatesCompared
    <3> QED BY <1>7, <3>2
  <2>3. CASE refused(vs) # refused(ws)
    <3>1. Below(Rate(refused(vs), DOMAIN cs), Rate(refused(ws), DOMAIN cs))
      BY <1>1, <1>2, <1>4, <1>9, <2>3, RatesCompared
    <3> QED BY <1>7, <3>1
  <2> QED BY <1>9, <2>1, <2>2, <2>3
<1> QED
  BY <1>6, <1>8, <1>9 DEF fresh, base

\* Over the same cases as its baseline, a run that adds faults is told as
\* regressed and one that adds none is not, whoever else writes the baseline
\* and whatever dies: as long as one case weighs more than the thousandth
\* compare_baseline lets pass (metrics.py:43-128; main.py:1476-1481).
THEOREM RegressionsTold ==
  ASSUME \A cs \in Datasets : Len(cs) < 1000
  PROVE  EvalSpec => []RegressionTold
<1>1. EvalIInv => RegressionTold
  <2> SUFFICES ASSUME EvalIInv, NEW j \in Jobs, job[j].pc = "compare", baseline.state = "whole",
                      baseline.cases = job[j].cases
               PROVE  LET before == Faults(baseline.cases, baseline.verdicts)
                          fresh == Faults(job[j].cases, job[j].verdicts)
                      IN  /\ before \subseteq fresh /\ before # fresh => Told(j) = "regressed"
                          /\ fresh \subseteq before => Told(j) = "none"
    BY DEF RegressionTold
  <2>1. job[j] \in Job
    BY JobFields DEF EvalIInv
  <2>2. /\ job[j].cases \in Datasets /\ job[j].verdicts \in Seq(Verdicts)
        /\ baseline.verdicts \in Seq(Verdicts)
    BY <2>1 DEF Job, EvalIInv, EvalTypeOK
  <2>3. /\ DOMAIN job[j].verdicts = DOMAIN job[j].cases
        /\ DOMAIN baseline.verdicts = DOMAIN job[j].cases
        /\ baseline.metrics = Metrics(job[j].cases, baseline.verdicts)
    BY DEF EvalIInv, VerdictsWhole
  <2>4. Told(j) = IF Regressions(Metrics(job[j].cases, job[j].verdicts),
                                 Metrics(job[j].cases, baseline.verdicts)) = {}
                  THEN "none" ELSE "regressed"
    BY <2>3 DEF Told
  <2> QED BY <2>2, <2>3, <2>4, MetricsCompared
<1> QED
  BY <1>1, EvalInvariant, PTL

-----------------------------------------------------------------------------
(* The skill library.                                                      *)

\* A process that is at some point of its work has work.
LEMMA WorkFields ==
  ASSUME SkillTypeOK, NEW p \in Shells, shell[p].work # NoWork
  PROVE  /\ shell[p] \in [loaded : BOOLEAN, work : {NoWork} \cup Work]
         /\ shell[p].work \in Work
         /\ Own(p) \in SkillFiles
<1>1. shell[p].work \in Work
  BY DEF SkillTypeOK
<1>2. shell[p].work.skill.name \in SkillNames
  BY <1>1 DEF Work, Skill
<1> QED
  BY <1>1, <1>2, SkillsAssumption DEF SkillTypeOK, Own

\* Giving a process other work keeps the types.
LEMMA DoesTyped ==
  ASSUME SkillTypeOK, NEW p \in Shells, NEW w \in {NoWork} \cup Work, Does(p, w)
  PROVE  shell' \in [Shells -> [loaded : BOOLEAN, work : {NoWork} \cup Work]]
<1> DEFINE q == [shell[p] EXCEPT !.work = w]
<1>1. q \in [loaded : BOOLEAN, work : {NoWork} \cup Work]
  BY DEF SkillTypeOK
<1>2. shell' = [shell EXCEPT ![p] = q]
  BY DEF Does
<1> HIDE DEF q
<1> QED BY <1>1, <1>2 DEF SkillTypeOK

\* The skill another holds open may be shared or lost.
LEMMA HeldTyped ==
  ASSUME SkillTypeOK, NEW p \in Shells, NEW q \in Shells, NEW hold \in {"shared", "lost"}
  PROVE  Held(p, q, hold) \in [loaded : BOOLEAN, work : {NoWork} \cup Work]
<1> DEFINE w == [shell[q].work EXCEPT !.hold = hold]
           s == [shell[q] EXCEPT !.work = w]
<1>1. CASE At(q, "fill")
  <2>1. shell[q].work \in Work
    BY <1>1, WorkFields DEF At
  <2>2. w \in Work
    BY <2>1 DEF Work
  <2>3. s \in [loaded : BOOLEAN, work : {NoWork} \cup Work]
    <3> HIDE DEF w
    <3> QED BY <2>2 DEF SkillTypeOK
  <2>4. [shell[q] EXCEPT !.work.hold = hold] = s
    OBVIOUS
  <2> HIDE DEF s
  <2> QED BY <2>3, <2>4 DEF SkillTypeOK, Held
<1>2. CASE ~At(q, "fill")
  BY <1>2 DEF SkillTypeOK, Held
<1> QED BY <1>1, <1>2

\* The library holds what is written.
LEMMA WriteTyped ==
  ASSUME SkillTypeOK, NEW f \in SkillFiles, NEW text \in {Gone, Nameless, Mixed} \cup Skill,
         Write(f, text)
  PROVE  /\ library' \in [SkillFiles -> {Gone, Nameless, Mixed} \cup Skill]
         /\ touched' \in [Shells -> SUBSET SkillFiles]
BY DEF SkillTypeOK, Write

\* There is a skill of every name.
LEMMA SomeSkill ==
  /\ (CHOOSE s \in Skill : TRUE) \in Skill
  /\ \A n \in SkillNames : (CHOOSE s \in Skill : s.name = n) \in Skill
<1>1. PICK t \in Texts : TRUE
  BY SkillsAssumption
<1>2. \A n \in SkillNames : [is |-> "skill", name |-> n, text |-> t] \in Skill
  BY DEF Skill
<1>3. \A n \in SkillNames : \E s \in Skill : s.name = n
  BY <1>2
<1>4. \E s \in Skill : TRUE
  BY <1>2, SkillsAssumption
<1> HIDE DEF Skill
<1> QED BY <1>3, <1>4

\* A process that begins has work.
LEMMA BeginsTyped ==
  ASSUME SkillTypeOK, NEW p \in Shells, NEW cmd \in {"look", "add", "rm"},
         NEW pc \in {"open", "glob"}, NEW s \in Skill, Begins(p, cmd, pc, s)
  PROVE  SkillTypeOK'
<1> DEFINE w == [cmd |-> cmd, pc |-> pc, skill |-> s, hold |-> "none", todo |-> {},
                 found |-> <<>>]
<1>1. w \in Work
  <2> HIDE DEF Skill
  <2>1. <<>> \in Seq(Skill)
    OBVIOUS
  <2> QED BY <2>1 DEF Work
<1>2. Does(p, w)
  BY DEF Begins
<1> HIDE DEF w
<1>3. shell' \in [Shells -> [loaded : BOOLEAN, work : {NoWork} \cup Work]]
  BY <1>1, <1>2, DoesTyped
<1> QED
  BY <1>3 DEF Begins, OnlyReads, SkillTypeOK

\* What a file is read as are skills.
LEMMA ReadAsTyped ==
  ASSUME NEW f, NEW s \in ReadAs(f)
  PROVE  s \in Seq(Skill)
<1> HIDE DEF Skill
<1>1. <<>> \in Seq(Skill) /\ \A x \in Skill : <<x>> \in Seq(Skill)
  OBVIOUS
<1> QED BY <1>1 DEF ReadAs

\* The skill library's variables keep their types.
LEMMA SkillsStepTyped ==
  ASSUME SkillTypeOK, [SkillsNext]_skillVars
  PROVE  SkillTypeOK'
<1> DEFINE Shell == [loaded : BOOLEAN, work : {NoWork} \cup Work]
           Library == [SkillFiles -> {Gone, Nameless, Mixed} \cup Skill]
<1>0. shell \in [Shells -> Shell] /\ library \in Library /\ touched \in [Shells -> SUBSET SkillFiles]
  BY DEF SkillTypeOK
<1>1. ASSUME NEW p \in Shells, NewShell(p)
      PROVE  SkillTypeOK'
  <2> DEFINE q == [loaded |-> FALSE, work |-> NoWork]
  <2>1. q \in Shell
    OBVIOUS
  <2>2. shell' = [shell EXCEPT ![p] = q]
    BY <1>1 DEF NewShell
  <2> HIDE DEF q
  <2> QED BY <1>0, <1>1, <2>1, <2>2 DEF NewShell, SkillTypeOK
<1>2. ASSUME NEW p \in Shells, OpenSkill(p)
      PROVE  SkillTypeOK'
  <2> DEFINE w == [shell[p].work EXCEPT !.pc = "fill", !.hold = "own"]
  <2>1. shell[p].work \in Work /\ Own(p) \in SkillFiles
    BY <1>2, WorkFields DEF OpenSkill, At
  <2>2. w \in Work
    BY <2>1 DEF Work
  <2>3. Does(p, w) /\ Write(Own(p), Nameless)
    BY <1>2 DEF OpenSkill
  <2> HIDE DEF w
  <2> QED BY <2>1, <2>2, <2>3, DoesTyped, WriteTyped DEF SkillTypeOK
<1>3. ASSUME NEW p \in Shells, FillSkill(p)
      PROVE  SkillTypeOK'
  <2> DEFINE w == [shell[p].work EXCEPT !.pc = "glob", !.hold = "none"]
             s == [shell[p] EXCEPT !.work = w]
  <2>1. shell[p].work \in Work /\ Own(p) \in SkillFiles /\ shell[p] \in Shell
    BY <1>3, WorkFields DEF FillSkill, At
  <2>2. w \in Work
    BY <2>1 DEF Work
  <2>3. s \in Shell
    <3> HIDE DEF w
    <3> QED BY <2>1, <2>2
  <2>4. [shell[p] EXCEPT !.work.pc = "glob", !.work.hold = "none"] = s
    BY <2>1
  <2>5. shell' = [q \in Shells |->
                    IF q = p THEN s
                    ELSE IF shell[p].work.hold = "lost" THEN shell[q] ELSE Held(p, q, "shared")]
    BY <1>3, <2>4 DEF FillSkill
  <2> HIDE DEF s
  <2>6. \A q \in Shells : Held(p, q, "shared") \in Shell
    BY HeldTyped
  <2>7. shell' \in [Shells -> Shell]
    <3> HIDE DEF Shell
    <3> QED BY <1>0, <2>3, <2>5, <2>6
  <2>8. \/ \E text \in {shell[p].work.skill, Mixed} : Write(Own(p), text)
        \/ OnlyReads
    BY <1>3 DEF FillSkill
  <2>9. shell[p].work.skill \in Skill
    BY <2>1 DEF Work
  <2> HIDE DEF Skill
  <2> QED BY <1>0, <2>1, <2>7, <2>8, <2>9, WriteTyped DEF SkillTypeOK, OnlyReads
<1>4. ASSUME NEW p \in Shells, Exists(p)
      PROVE  SkillTypeOK'
  <2> DEFINE w == [shell[p].work EXCEPT !.pc = "unlink"]
  <2>1. shell[p].work \in Work
    BY <1>4, WorkFields DEF Exists, At
  <2>2. w \in Work
    BY <2>1 DEF Work
  <2>3. Does(p, NoWork) \/ Does(p, w)
    BY <1>4 DEF Exists
  <2> HIDE DEF w
  <2> QED BY <1>0, <1>4, <2>2, <2>3, DoesTyped DEF Exists, OnlyReads, SkillTypeOK
<1>5. ASSUME NEW p \in Shells, Unlinked(p)
      PROVE  SkillTypeOK'
  <2> DEFINE w == [shell[p].work EXCEPT !.pc = "glob", !.cmd = "look"]
             s == [shell[p] EXCEPT !.work = w, !.loaded = FALSE]
  <2>1. shell[p].work \in Work /\ Own(p) \in SkillFiles /\ shell[p] \in Shell
    BY <1>5, WorkFields DEF Unlinked, At
  <2>2. w \in Work
    BY <2>1 DEF Work
  <2>3. s \in Shell
    <3> HIDE DEF w
    <3> QED BY <2>1, <2>2
  <2>4. [shell[p] EXCEPT !.work.pc = "glob", !.work.cmd = "look", !.loaded = FALSE] = s
    BY <2>1
  <2>5. CASE library[Own(p)] = Gone
    BY <1>0, <1>5, <2>5, DoesTyped DEF Unlinked, OnlyReads, SkillTypeOK
  <2>6. CASE library[Own(p)] # Gone
    <3>1. /\ Write(Own(p), Gone)
          /\ shell' = [q \in Shells |-> IF q = p THEN s ELSE Held(p, q, "lost")]
      BY <1>5, <2>4, <2>6 DEF Unlinked
    <3>2. \A q \in Shells : Held(p, q, "lost") \in Shell
      BY HeldTyped
    <3> HIDE DEF s
    <3>3. shell' \in [Shells -> Shell]
      <4> HIDE DEF Shell
      <4> QED BY <2>3, <3>1, <3>2
    <3> QED BY <2>1, <3>1, <3>3, WriteTyped DEF SkillTypeOK
  <2> QED BY <2>5, <2>6
<1>6. ASSUME NEW p \in Shells, GlobSkills(p)
      PROVE  SkillTypeOK'
  <2> DEFINE all == {f \in SkillFiles : library[f] # Gone}
             w == [shell[p].work EXCEPT !.pc = "read", !.found = <<>>, !.todo = all]
  <2>1. shell[p].work \in Work
    BY <1>6, WorkFields DEF GlobSkills, At
  <2>2. w \in Work
    <3>1. all \in SUBSET SkillFiles /\ <<>> \in Seq(Skill)
      OBVIOUS
    <3> HIDE DEF all
    <3> QED BY <2>1, <3>1 DEF Work
  <2>3. Does(p, w)
    BY <1>6 DEF GlobSkills
  <2> HIDE DEF w
  <2> QED BY <1>0, <1>6, <2>2, <2>3, DoesTyped DEF GlobSkills, OnlyReads, SkillTypeOK
<1>7. ASSUME NEW p \in Shells, ReadSkill(p)
      PROVE  SkillTypeOK'
  <2> DEFINE f == First(shell[p].work.todo)
  <2>1. PICK s \in ReadAs(f) :
          Does(p, [shell[p].work EXCEPT !.found = @ \o s, !.todo = @ \ {f}])
    BY <1>7 DEF ReadSkill
  <2> HIDE DEF f
  <2>2. shell[p].work \in Work
    BY <1>7, WorkFields DEF ReadSkill, At
  <2>3. shell[p].work.found \o s \in Seq(Skill)
    <3>1. shell[p].work.found \in Seq(Skill)
      BY <2>2 DEF Work
    <3> HIDE DEF Skill
    <3> QED BY <3>1, ReadAsTyped
  <2> DEFINE w == [shell[p].work EXCEPT !.found = @ \o s, !.todo = @ \ {f}]
  <2>4. w \in Work
    <3> DEFINE all == shell[p].work.found \o s
               rest == shell[p].work.todo \ {f}
    <3>1. rest \in SUBSET SkillFiles
      BY <2>2 DEF Work
    <3>2. w = [shell[p].work EXCEPT !.found = all, !.todo = rest]
      BY <2>2 DEF Work
    <3> HIDE DEF all, rest, w
    <3>3. all \in Seq(Skill)
      BY <2>3 DEF all
    <3> QED BY <2>2, <3>1, <3>2, <3>3 DEF Work
  <2> HIDE DEF w
  <2> QED BY <1>0, <1>7, <2>1, <2>4, DoesTyped DEF ReadSkill, OnlyReads, SkillTypeOK, w
<1>8. ASSUME NEW p \in Shells, EndLoad(p)
      PROVE  SkillTypeOK'
  <2> DEFINE w == [shell[p].work EXCEPT !.pc = "exists", !.found = <<>>]
             v == IF shell[p].work.cmd = "rm" THEN w ELSE NoWork
             q == [shell[p] EXCEPT !.loaded = TRUE, !.work = v]
  <2>1. shell[p].work \in Work /\ shell[p] \in Shell
    BY <1>8, WorkFields DEF EndLoad, At
  <2>2. w \in Work
    <3>1. <<>> \in Seq(Skill)
      OBVIOUS
    <3> QED BY <2>1, <3>1 DEF Work
  <2>3. v \in {NoWork} \cup Work
    BY <2>2
  <2>4. shell' = [shell EXCEPT ![p] = q]
    BY <1>8 DEF EndLoad
  <2> HIDE DEF v
  <2>5. q \in Shell
    BY <2>1, <2>3
  <2> HIDE DEF q
  <2> QED BY <1>0, <1>8, <2>4, <2>5 DEF EndLoad, SkillTypeOK
<1>9. ASSUME NEW p \in Shells,
             \/ LoadSkills(p) \/ \E n \in SkillNames : RemoveSkill(p, n)
             \/ \E s \in Skill : AddSkill(p, s)
      PROVE  SkillTypeOK'
  <2> HIDE DEF Skill
  <2> QED BY <1>9, BeginsTyped, SomeSkill DEF LoadSkills, RemoveSkill, AddSkill
<1>10. ASSUME NEW f \in SkillFiles, NEW text \in {Gone, Nameless} \cup Skill, Place(f, text)
       PROVE  SkillTypeOK'
  <2> HIDE DEF Skill
  <2> QED BY <1>0, <1>10, WriteTyped DEF Place, SkillTypeOK
<1>11. CASE UNCHANGED skillVars
  BY <1>11 DEF skillVars, SkillTypeOK
<1> QED
  BY <1>1, <1>2, <1>3, <1>4, <1>5, <1>6, <1>7, <1>8, <1>9, <1>10, <1>11 DEF SkillsNext

\* The skill library's variables start with their types.
LEMMA SkillsInitTyped == SkillsInit => SkillTypeOK
BY DEF SkillsInit, SkillTypeOK

\* While p reads, it has found, or is yet to read, the skill of every file
\* nobody has touched.
ReadingHolds(p) ==
  At(p, "read") =>
    \A f \in SkillFiles \ touched[p] :
      library[f] \in Skill =>
        f \in shell[p].work.todo \/ library[f] \in ToSet(shell[p].work.found)

SkillIInv == SkillTypeOK /\ \A p \in Shells : ReadingHolds(p)

\* What was found stays found, and what is read is found.
LEMMA FoundMore ==
  ASSUME NEW s \in Seq(Skill), NEW t \in Seq(Skill)
  PROVE  ToSet(s) \cup ToSet(t) \subseteq ToSet(s \o t)
<1> HIDE DEF Skill
<1>1. \A i \in DOMAIN s : i \in DOMAIN (s \o t) /\ (s \o t)[i] = s[i]
  OBVIOUS
<1>2. \A i \in DOMAIN t : Len(s) + i \in DOMAIN (s \o t) /\ (s \o t)[Len(s) + i] = t[i]
  OBVIOUS
<1>3. \A x \in ToSet(s) : x \in ToSet(s \o t)
  BY <1>1 DEF ToSet
<1>4. \A x \in ToSet(t) : x \in ToSet(s \o t)
  BY <1>2 DEF ToSet
<1> QED BY <1>3, <1>4

\* A process that reads is not disturbed by a file that is changed.
LEMMA ReaderTold ==
  ASSUME SkillIInv, NEW q \in Shells, NEW f \in SkillFiles,
         NEW text \in {Gone, Nameless, Mixed} \cup Skill, Write(f, text),
         At(q, "read")' => shell'[q].work = shell[q].work
  PROVE  ReadingHolds(q)'
<1> SUFFICES ASSUME At(q, "read")'
             PROVE  ReadingHolds(q)'
  BY DEF ReadingHolds
<1>1. At(q, "read") /\ shell'[q].work = shell[q].work
  BY DEF At
<1>2. touched'[q] = touched[q] \cup {f}
  BY <1>1 DEF Write
<1>3. \A g \in SkillFiles \ touched'[q] : g \notin touched[q] /\ library'[g] = library[g]
  BY <1>2 DEF Write, SkillIInv, SkillTypeOK
<1> HIDE DEF Skill
<1> QED
  BY <1>1, <1>3 DEF ReadingHolds, SkillIInv

\* A process that reads is not disturbed by what changes no file.
LEMMA ReaderLeft ==
  ASSUME SkillIInv, NEW q \in Shells, library' = library,
         At(q, "read")' => shell'[q].work = shell[q].work /\ touched'[q] = touched[q]
  PROVE  ReadingHolds(q)'
BY DEF ReadingHolds, SkillIInv, At

\* A process that changes a file does not read, and others read on.
LEMMA OthersRead ==
  ASSUME SkillTypeOK, NEW p \in Shells, NEW q \in Shells, NEW hold \in {"shared", "lost"}
  PROVE  /\ Held(p, q, hold) = shell[q] \/ ~At(q, "read")
         /\ ~At(q, "read") => Held(p, q, hold).work = NoWork \/ Held(p, q, hold).work.pc # "read"
<1>1. CASE At(q, "fill")
  <2>1. shell[q] \in [loaded : BOOLEAN, work : {NoWork} \cup Work] /\ shell[q].work \in Work
    BY <1>1, WorkFields DEF At
  <2>2. shell[q].work.pc = "fill"
    BY <1>1 DEF At
  <2>3. [shell[q] EXCEPT !.work.hold = hold].work.pc = "fill"
    BY <2>1, <2>2 DEF Work
  <2> QED BY <2>2, <2>3 DEF Held, At
<1>2. CASE ~At(q, "fill")
  BY <1>2 DEF Held, At
<1> QED BY <1>1, <1>2

\* Every step leaves those who read with what they need.
LEMMA ReadersKept ==
  ASSUME SkillIInv, [SkillsNext]_skillVars, NEW q \in Shells
  PROVE  ReadingHolds(q)'
<1>0. SkillTypeOK /\ shell \in [Shells -> [loaded : BOOLEAN, work : {NoWork} \cup Work]]
  BY DEF SkillIInv, SkillTypeOK
<1>1. ASSUME NEW p \in Shells, NewShell(p)
      PROVE  ReadingHolds(q)'
  BY <1>0, <1>1, ReaderLeft DEF NewShell, At, SkillTypeOK
<1>2. ASSUME NEW p \in Shells, NEW w \in {NoWork} \cup Work, Does(p, w),
             w = NoWork \/ w.pc # "read"
      PROVE  At(q, "read")' => q # p /\ shell'[q].work = shell[q].work
  BY <1>0, <1>2 DEF Does, At
<1>3. ASSUME NEW p \in Shells, OpenSkill(p)
      PROVE  ReadingHolds(q)'
  <2> DEFINE w == [shell[p].work EXCEPT !.pc = "fill", !.hold = "own"]
  <2>1. shell[p].work \in Work /\ Own(p) \in SkillFiles
    BY <1>0, <1>3, WorkFields DEF OpenSkill, At
  <2>2. w \in Work /\ w.pc # "read"
    BY <2>1 DEF Work
  <2>3. Does(p, w) /\ Write(Own(p), Nameless)
    BY <1>3 DEF OpenSkill
  <2> HIDE DEF w
  <2>4. At(q, "read")' => shell'[q].work = shell[q].work
    BY <1>2, <2>2, <2>3
  <2> QED BY <2>1, <2>3, <2>4, ReaderTold
<1>4. ASSUME NEW p \in Shells, FillSkill(p)
      PROVE  ReadingHolds(q)'
  <2> DEFINE s == [shell[p] EXCEPT !.work.pc = "glob", !.work.hold = "none"]
  <2>1. shell[p].work \in Work /\ Own(p) \in SkillFiles
    BY <1>0, <1>4, WorkFields DEF FillSkill, At
  <2>2. s.work.pc = "glob"
    BY <1>0, <2>1 DEF Work
  <2>3. shell'[q] = IF q = p THEN s
                    ELSE IF shell[p].work.hold = "lost" THEN shell[q] ELSE Held(p, q, "shared")
    BY <1>4 DEF FillSkill
  <2> HIDE DEF s
  <2>4. At(q, "read")' => shell'[q].work = shell[q].work
    BY <1>0, <2>2, <2>3, OthersRead DEF At
  <2>5. \/ \E text \in {shell[p].work.skill, Mixed} : Write(Own(p), text)
        \/ OnlyReads
    BY <1>4 DEF FillSkill
  <2>6. shell[p].work.skill \in Skill
    BY <2>1 DEF Work
  <2>7. CASE OnlyReads
    BY <2>4, <2>7, ReaderLeft DEF OnlyReads
  <2>8. ASSUME NEW text \in {shell[p].work.skill, Mixed}, Write(Own(p), text)
        PROVE  ReadingHolds(q)'
    <3> HIDE DEF Skill
    <3>1. text \in {Gone, Nameless, Mixed} \cup Skill
      BY <2>6
    <3> QED BY <2>1, <2>4, <2>8, <3>1, ReaderTold
  <2> QED BY <2>5, <2>7, <2>8
<1>5. ASSUME NEW p \in Shells, Exists(p)
      PROVE  ReadingHolds(q)'
  <2> DEFINE w == [shell[p].work EXCEPT !.pc = "unlink"]
  <2>1. shell[p].work \in Work
    BY <1>0, <1>5, WorkFields DEF Exists, At
  <2>2. w \in Work /\ w.pc # "read"
    BY <2>1 DEF Work
  <2>3. Does(p, NoWork) \/ Does(p, w)
    BY <1>5 DEF Exists
  <2> HIDE DEF w
  <2>4. At(q, "read")' => shell'[q].work = shell[q].work
    BY <1>2, <2>2, <2>3
  <2> QED BY <1>5, <2>4, ReaderLeft DEF Exists, OnlyReads
<1>6. ASSUME NEW p \in Shells, Unlinked(p)
      PROVE  ReadingHolds(q)'
  <2> DEFINE s == [shell[p] EXCEPT !.work.pc = "glob", !.work.cmd = "look", !.loaded = FALSE]
  <2>1. shell[p].work \in Work /\ Own(p) \in SkillFiles
    BY <1>0, <1>6, WorkFields DEF Unlinked, At
  <2>2. s.work.pc = "glob"
    BY <1>0, <2>1 DEF Work
  <2>3. CASE library[Own(p)] = Gone
    <3>1. Does(p, NoWork) /\ OnlyReads
      BY <1>6, <2>3 DEF Unlinked
    <3>2. At(q, "read")' => shell'[q].work = shell[q].work
      BY <1>2, <3>1
    <3> QED BY <3>1, <3>2, ReaderLeft DEF OnlyReads
  <2>4. CASE library[Own(p)] # Gone
    <3>1. Write(Own(p), Gone) /\ shell'[q] = IF q = p THEN s ELSE Held(p, q, "lost")
      BY <1>6, <2>4 DEF Unlinked
    <3> HIDE DEF s
    <3>2. At(q, "read")' => shell'[q].work = shell[q].work
      BY <1>0, <2>2, <3>1, OthersRead DEF At
    <3> QED BY <2>1, <3>1, <3>2, ReaderTold
  <2> QED BY <2>3, <2>4
<1>7. ASSUME NEW p \in Shells, NEW w \in Work, Does(p, w), OnlyReads,
             \A f \in SkillFiles \ touched[p] :
               library[f] \in Skill => f \in w.todo \/ library[f] \in ToSet(w.found)
      PROVE  ReadingHolds(q)'
  <2>1. shell'[q].work = IF q = p THEN w ELSE shell[q].work
    BY <1>0, <1>7 DEF Does
  <2>2. CASE q = p
    <3> HIDE DEF Skill
    <3> QED BY <1>7, <2>1, <2>2 DEF ReadingHolds, OnlyReads
  <2>3. CASE q # p
    BY <1>7, <2>1, <2>3, ReaderLeft DEF OnlyReads
  <2> QED BY <2>2, <2>3
<1>8. ASSUME NEW p \in Shells, GlobSkills(p)
      PROVE  ReadingHolds(q)'
  <2> DEFINE all == {f \in SkillFiles : library[f] # Gone}
             w == [shell[p].work EXCEPT !.pc = "read", !.found = <<>>, !.todo = all]
  <2>1. shell[p].work \in Work
    BY <1>0, <1>8, WorkFields DEF GlobSkills, At
  <2>2. w \in Work /\ w.todo = all
    <3>1. all \in SUBSET SkillFiles /\ <<>> \in Seq(Skill)
      OBVIOUS
    <3> HIDE DEF all
    <3> QED BY <2>1, <3>1 DEF Work
  <2>3. Does(p, w) /\ OnlyReads
    BY <1>8 DEF GlobSkills
  <2>4. \A f \in SkillFiles : library[f] \in Skill => f \in all
    BY DEF Skill, Gone
  <2> HIDE DEF w, all
  <2> QED BY <1>7, <2>2, <2>3, <2>4
<1>9. ASSUME NEW p \in Shells, ReadSkill(p)
      PROVE  ReadingHolds(q)'
  <2> DEFINE f == First(shell[p].work.todo)
             found == shell[p].work.found
             todo == shell[p].work.todo
  <2>1. PICK s \in ReadAs(f) :
          Does(p, [shell[p].work EXCEPT !.found = @ \o s, !.todo = @ \ {f}])
    BY <1>9 DEF ReadSkill
  <2> HIDE DEF f
  <2>2. shell[p].work \in Work
    BY <1>0, <1>9, WorkFields DEF ReadSkill, At
  <2>3. found \in Seq(Skill) /\ todo \subseteq SkillFiles
    BY <2>2 DEF Work
  <2>4. s \in Seq(Skill) /\ found \o s \in Seq(Skill)
    <3> HIDE DEF Skill
    <3> QED BY <2>3, ReadAsTyped
  <2> DEFINE all == found \o s
             rest == todo \ {f}
             w == [shell[p].work EXCEPT !.found = all, !.todo = rest]
  <2>5. [shell[p].work EXCEPT !.found = @ \o s, !.todo = @ \ {f}] = w
    BY <2>2 DEF Work
  <2>6. w \in Work /\ w.todo = rest /\ w.found = all
    <3>1. rest \in SUBSET SkillFiles /\ all \in Seq(Skill)
      BY <2>3, <2>4
    <3> HIDE DEF all, rest
    <3> QED BY <2>2, <3>1 DEF Work
  <2>7. ToSet(found) \cup ToSet(s) \subseteq ToSet(all)
    BY <2>3, <2>4, FoundMore
  <2>8. library[f] \in Skill => library[f] \in ToSet(s)
    <3> SUFFICES ASSUME library[f] \in Skill
                 PROVE  library[f] \in ToSet(s)
      OBVIOUS
    <3>1. library[f] # Mixed
      BY DEF Skill, Mixed
    <3> HIDE DEF Skill
    <3>2. s = <<library[f]>>
      BY <3>1 DEF ReadAs
    <3>3. 1 \in DOMAIN s /\ s[1] = library[f]
      BY <3>2
    <3> QED BY <3>3 DEF ToSet
  <2>9. \A g \in SkillFiles \ touched[p] :
          library[g] \in Skill => g \in rest \/ library[g] \in ToSet(all)
    <3> HIDE DEF Skill
    <3>1. At(p, "read")
      BY <1>9 DEF ReadSkill
    <3> HIDE DEF all
    <3> QED BY <2>7, <2>8, <3>1 DEF SkillIInv, ReadingHolds
  <2> HIDE DEF w, all, rest
  <2>10. OnlyReads /\ Does(p, w)
    BY <1>9, <2>1, <2>5 DEF ReadSkill
  <2> QED BY <1>7, <2>6, <2>9, <2>10
<1>10. ASSUME NEW p \in Shells, EndLoad(p)
       PROVE  ReadingHolds(q)'
  <2> DEFINE w == IF shell[p].work.cmd = "rm"
                  THEN [shell[p].work EXCEPT !.pc = "exists", !.found = <<>>] ELSE NoWork
             s == [shell[p] EXCEPT !.loaded = TRUE, !.work = w]
  <2>1. shell[p].work \in Work
    BY <1>0, <1>10, WorkFields DEF EndLoad, At
  <2>2. w = NoWork \/ w.pc = "exists"
    BY <2>1 DEF Work
  <2>3. shell' = [shell EXCEPT ![p] = s]
    BY <1>10 DEF EndLoad
  <2> HIDE DEF w
  <2>4. s.work = w
    BY <1>0
  <2> HIDE DEF s
  <2>5. At(q, "read")' => q # p /\ shell'[q] = shell[q]
    BY <1>0, <2>2, <2>3, <2>4 DEF At
  <2>6. q # p => touched'[q] = touched[q]
    BY <1>0, <1>10 DEF EndLoad, SkillTypeOK
  <2> QED BY <1>10, <2>5, <2>6, ReaderLeft DEF EndLoad
<1>11. ASSUME NEW p \in Shells, NEW cmd \in {"look", "add", "rm"}, NEW pc \in {"open", "glob"},
              NEW s, Begins(p, cmd, pc, s)
       PROVE  ReadingHolds(q)'
  <2> DEFINE w == [cmd |-> cmd, pc |-> pc, skill |-> s, hold |-> "none", todo |-> {},
                   found |-> <<>>]
  <2>1. w.pc # "read" /\ Does(p, w) /\ OnlyReads
    BY <1>11 DEF Begins
  <2> HIDE DEF w
  <2>2. At(q, "read")' => shell'[q].work = shell[q].work
    BY <1>0, <2>1 DEF Does, At
  <2> QED BY <2>1, <2>2, ReaderLeft DEF OnlyReads
<1>12. ASSUME NEW p \in Shells,
              \/ LoadSkills(p) \/ \E n \in SkillNames : RemoveSkill(p, n)
              \/ \E s \in Skill : AddSkill(p, s)
       PROVE  ReadingHolds(q)'
  <2> HIDE DEF Skill
  <2> QED BY <1>11, <1>12 DEF LoadSkills, RemoveSkill, AddSkill
<1>13. ASSUME NEW f \in SkillFiles, NEW text \in {Gone, Nameless} \cup Skill, Place(f, text)
       PROVE  ReadingHolds(q)'
  <2> HIDE DEF Skill
  <2> QED BY <1>13, ReaderTold DEF Place
<1>14. CASE UNCHANGED skillVars
  BY <1>14, ReaderLeft DEF skillVars
<1> QED
  BY <1>1, <1>3, <1>4, <1>5, <1>6, <1>8, <1>9, <1>10, <1>12, <1>13, <1>14 DEF SkillsNext

\* Nobody reads the library at first.
LEMMA SkillBegins == SkillsInit => SkillIInv
<1> SUFFICES ASSUME SkillsInit
             PROVE  SkillIInv
  OBVIOUS
<1>1. \A p \in Shells : ~At(p, "read")
  BY DEF SkillsInit, At
<1> QED BY <1>1, SkillsInitTyped DEF SkillIInv, ReadingHolds

\* Every step keeps what those who read need.
LEMMA SkillKept == SkillIInv /\ [SkillsNext]_skillVars => SkillIInv'
BY SkillsStepTyped, ReadersKept DEF SkillIInv

\* Those who read the library always have what they need.
LEMMA SkillInvariant == SkillsSpec => []SkillIInv
BY SkillBegins, SkillKept, PTL DEF SkillsSpec

\* A library that has just been loaded holds the skill of every file nobody
\* touched meanwhile, however many processes add and remove skills and
\* whatever the user puts there (_load_from_disk, library.py:56-77).
THEOREM LibraryWhole == SkillsSpec => SkillsListed
<1> DEFINE Whole ==
      \A p \in Shells : EndLoad(p) =>
        \A f \in SkillFiles \ touched[p] :
          library[f] \in Skill => library[f] \in ToSet(shell[p].work.found)
<1>1. SkillIInv => Whole
  <2> HIDE DEF Skill
  <2> QED BY DEF SkillIInv, ReadingHolds, EndLoad
<1>2. SkillIInv /\ [SkillsNext]_skillVars => [Whole]_skillVars
  BY <1>1
<1> QED
  BY <1>2, SkillInvariant, PTL DEF SkillsSpec, SkillsListed

-----------------------------------------------------------------------------
(* The start of a command.                                                 *)

LaunchIInv ==
  /\ LaunchTypeOK
  /\ defaults = Original
  /\ phase \in {"idle", "loaded"} => options = Blank
  /\ ClosestLayer

\* The settings start with their types.
LEMMA LaunchBegins ==
  ASSUME LaunchInit
  PROVE  LaunchIInv
<1>1. DOMAIN Original = Settings
  BY DEF Original
<1> QED
  BY <1>1, LaunchAssumption DEF LaunchInit, LaunchIInv, LaunchTypeOK, ClosestLayer, Ready

\* The settings keep their types.
LEMMA LaunchStepTyped ==
  ASSUME LaunchTypeOK, [LaunchNext]_launchVars
  PROVE  LaunchTypeOK'
<1> USE LaunchAssumption DEF LaunchTypeOK
<1>1. ASSUME NEW f \in Files, Load(f)
      PROVE  LaunchTypeOK'
  BY <1>1 DEF Load, WithSandbox, WithEnvironment
<1>2. ASSUME NEW o \in Options, Override(o)
      PROVE  LaunchTypeOK'
  BY <1>2 DEF Override, CommandStep, Refuse
<1>3. ASSUME NEW o \in Options, Serve(o)
      PROVE  LaunchTypeOK'
  BY <1>3 DEF Serve, CommandStep, Refuse, RunsIn
<1>4. ASSUME NEW kind \in {"run", "chat", "multi", "plan"}, Start(kind)
      PROVE  LaunchTypeOK'
  BY <1>4 DEF Start, CommandStep, Refuse, RunsIn
<1>5. CASE UNCHANGED launchVars
  BY <1>5 DEF launchVars
<1> QED
  BY <1>1, <1>2, <1>3, <1>4, <1>5 DEF LaunchNext, StartRun, Chat

\* What a Config has read is what the file and the environment say.
LEMMA LoadClosest ==
  ASSUME LaunchIInv, NEW f \in Files, Load(f), phase' = "loaded",
         NEW s \in Settings \ {"sandbox", "own_sandbox"}, ~Misread(s)
  PROVE  data'[s] = Closest(s)'
<1> DEFINE base == IF f[s] = Unset THEN Original[s] ELSE f[s]
<1>1. data' = WithSandbox(WithEnvironment(Merged(defaults, f))) /\ file' = f /\ options' = options
      /\ environment' = environment
  BY DEF Load
<1>0. s = "multi" => environment[s] # "bad"
  BY DEF Misread
<1>2. data'[s] = EnvValue(s, environment[s], base)
  BY <1>0, <1>1 DEF WithSandbox, WithEnvironment, Merged, LaunchIInv, Settings
<1>3. Says("option", s)' = Unset
  BY <1>1 DEF Says, LaunchIInv, Load, Blank
<1>4. Says("file", s)' = f[s]
  BY <1>1 DEF Says
<1>5. Closest(s)' = IF Says("environment", s) # Unset THEN Says("environment", s) ELSE base
  <2>1. Says("environment", s)' = Says("environment", s)
    BY <1>1 DEF Says
  <2> QED BY <1>3, <1>4, <2>1 DEF Closest
<1> DEFINE e == environment[s]
           none == \/ s = "steps" /\ e \in {"", "bad"}
                   \/ s \in {"key", "multi"} /\ e = ""
<1>6. Says("environment", s) = IF none THEN Unset ELSE e
  <2>1. <<s, e>> \in Unusable <=> none
    BY <1>0 DEF Unusable
  <2> QED BY <2>1 DEF Says
<1>7. EnvValue(s, e, base) = IF e = Unset \/ none THEN base ELSE e
  <2>1. CASE s = "hitl"
    BY <2>1 DEF EnvValue
  <2>2. CASE s = "steps"
    BY <2>2 DEF EnvValue
  <2>3. CASE s = "key"
    BY <2>3 DEF EnvValue
  <2>4. CASE s = "multi"
    BY <1>0, <2>4 DEF EnvValue
  <2> QED BY <1>0, <2>1, <2>2, <2>3, <2>4 DEF Settings
<1>8. CASE e = Unset \/ none
  BY <1>2, <1>5, <1>6, <1>7, <1>8
<1>9. CASE ~(e = Unset \/ none)
  BY <1>2, <1>5, <1>6, <1>7, <1>9
<1> QED
  BY <1>8, <1>9

\* Where the options say nothing, nothing changes.
LEMMA UnsaidKept ==
  ASSUME NEW s \in Settings, Says("option", s) = Unset, Says("option", s)' = Unset,
         UNCHANGED <<environment, file>>
  PROVE  Closest(s)' = Closest(s)
BY DEF Closest, Says, Original

\* What an option says is what its setting is.
LEMMA OptionClosest ==
  ASSUME NEW s \in Settings \ {"multi"}, NEW o, options' = o, o[s] # Unset, o[s] # ""
  PROVE  Closest(s)' = o[s]
BY DEF Closest, Says

\* With the same layers the closest one says the same.
LEMMA SameLayers ==
  ASSUME NEW s, UNCHANGED <<environment, file, options>>
  PROVE  Closest(s)' = Closest(s)
BY DEF Closest, Says

\* The closest layer is heeded at every step.
LEMMA LaunchKept ==
  ASSUME LaunchIInv, [LaunchNext]_launchVars
  PROVE  LaunchIInv'
<1>0. LaunchTypeOK'
  BY LaunchStepTyped DEF LaunchIInv
<1>1. defaults' = Original
  BY DEF LaunchIInv, LaunchNext, launchVars, Load, Override, CommandStep, Serve, Start, StartRun, Chat
<1>j. \A s : Misread(s)' <=> Misread(s)
  BY DEF LaunchNext, launchVars, Load, Override, CommandStep, Serve, Start, StartRun, Chat, Misread
<1>k. ~Misread("hitl") /\ "hitl" \in Settings \ {"sandbox", "own_sandbox"}
  BY DEF Misread, Settings
<1>2. ASSUME NEW f \in Files, Load(f)
      PROVE  LaunchIInv'
  <2>1. phase' \in {"loaded", "refused"} /\ options' = Blank
    BY <1>2 DEF Load, LaunchIInv
  <2>2. phase' = "loaded" => \A s \in Settings \ {"sandbox", "own_sandbox"} : ~Misread(s) => data'[s] = Closest(s)'
    BY <1>2, LoadClosest
  <2> QED
    BY <1>0, <1>1, <1>j, <2>1, <2>2 DEF LaunchIInv, ClosestLayer, Ready
<1>3. ASSUME NEW o \in Options, Override(o)
      PROVE  LaunchIInv'
  <2>1. phase' \in {"refused", "overridden"} /\ options = Blank /\ options' = o
        /\ UNCHANGED <<environment, file>>
    BY <1>3 DEF Override, Refuse, CommandStep, LaunchIInv
  <2>2. ASSUME phase' = "overridden", NEW s \in Settings \ {"sandbox", "own_sandbox"}, ~Misread(s)
        PROVE  data'[s] = Closest(s)'
    <3>1. data[s] = Closest(s)
      BY <1>3, <2>2 DEF Override, LaunchIInv, ClosestLayer, Ready
    <3>2. data'[s] = IF o[s] \in {Unset, ""} \/ s = "multi" THEN data[s] ELSE o[s]
      BY <1>3, <2>2 DEF Override, Refuse
    <3>3. CASE o[s] \in {Unset, ""} \/ s = "multi"
      <4>1. Says("option", s) = Unset
        BY <2>1 DEF Says, Blank
      <4>2. Says("option", s)' = Unset
        BY <2>1, <3>3 DEF Says
      <4> QED BY <2>1, <3>1, <3>2, <3>3, <4>1, <4>2, UnsaidKept
    <3>4. CASE ~(o[s] \in {Unset, ""} \/ s = "multi")
      BY <2>1, <3>2, <3>4, OptionClosest
    <3> QED BY <3>3, <3>4
  <2> QED
    BY <1>0, <1>1, <1>j, <2>1, <2>2 DEF LaunchIInv, ClosestLayer, Ready
<1>4. ASSUME NEW o \in Options, Serve(o)
      PROVE  LaunchIInv'
  <2>1. phase' \in {"refused", "serve"} /\ options = Blank /\ options' = o
        /\ UNCHANGED <<environment, file>>
    BY <1>4 DEF Serve, Refuse, RunsIn, CommandStep, LaunchIInv
  <2>2. ASSUME phase' = "serve"
        PROVE  /\ data' = [data EXCEPT !["hitl"] = ServeMode(o)]
               /\ mode' = ServeMode(o) /\ ServeMode(o) # "always" /\ data["hitl"] # Null
               /\ o["hitl"] \in {Unset, "never", "auto"}
               /\ \A s \in Settings \ {"hitl"} : o[s] = Unset
    BY <1>4, <2>2 DEF Serve, Refuse, RunsIn
  <2>3. ASSUME phase' = "serve", NEW s \in Settings \ {"sandbox", "own_sandbox"}, ~Misread(s)
        PROVE  data'[s] = Closest(s)'
    <3>1. data[s] = Closest(s)
      BY <1>4, <2>3 DEF Serve, LaunchIInv, ClosestLayer, Ready
    <3>2. data'[s] = IF s = "hitl" THEN ServeMode(o) ELSE data[s]
      BY <2>2, <2>3 DEF LaunchIInv, LaunchTypeOK
    <3>3. ServeMode(o) = IF o["hitl"] # Unset THEN o["hitl"] ELSE data["hitl"]
      BY <2>2, <2>3 DEF ServeMode, ModeOf
    <3>4. CASE o[s] = Unset
      <4>1. Says("option", s) = Unset /\ Says("option", s)' = Unset
        BY <2>1, <3>4 DEF Says, Blank
      <4> QED BY <2>1, <3>1, <3>2, <3>3, <3>4, <4>1, UnsaidKept
    <3>5. CASE o[s] # Unset
      <4>1. s = "hitl" /\ o[s] # ""
        BY <2>2, <2>3, <3>5 DEF Unset
      <4> QED BY <2>1, <3>2, <3>3, <3>5, <4>1, OptionClosest
    <3> QED BY <3>4, <3>5
  <2>4. phase' = "serve" => mode' = Closest("hitl")'
    <3> SUFFICES ASSUME phase' = "serve"
                 PROVE  mode' = Closest("hitl")'
      OBVIOUS
    <3>1. data'["hitl"] = Closest("hitl")'
      BY <1>k, <2>3
    <3>2. data'["hitl"] = ServeMode(o)
      BY <2>2 DEF LaunchIInv, LaunchTypeOK, Settings
    <3> QED BY <2>2, <3>1, <3>2
  <2>5. phase' = "serve" => mode' # "always"
    BY <2>2
  <2> QED
    BY <1>0, <1>1, <1>j, <2>1, <2>3, <2>4, <2>5 DEF LaunchIInv, ClosestLayer, Ready
<1>5. ASSUME NEW kind \in {"run", "chat", "multi", "plan"}, Start(kind)
      PROVE  LaunchIInv'
  <2>1. phase = "overridden" /\ phase' \in {"refused", kind}
        /\ UNCHANGED <<environment, file, data, options>>
    BY <1>5 DEF Start, Refuse, RunsIn, CommandStep
  <2>2. \A s \in Settings \ {"sandbox", "own_sandbox"} : ~Misread(s) => data'[s] = Closest(s)'
    BY <2>1, SameLayers DEF LaunchIInv, ClosestLayer, Ready
  <2>3. phase' # "refused" => mode' = ModeOf("auto")
    BY <1>5 DEF Start, Refuse, RunsIn
  <2>4. data["hitl"] = Closest("hitl")'
    BY <1>k, <2>1, <2>2
  <2> QED
    BY <1>0, <1>1, <1>j, <2>1, <2>2, <2>3, <2>4 DEF LaunchIInv, ClosestLayer, Ready, ModeOf
<1>6. CASE UNCHANGED launchVars
  <2>1. /\ data' = data /\ phase' = phase /\ mode' = mode /\ options' = options
        /\ \A s : Closest(s)' = Closest(s)
    BY <1>6, SameLayers DEF launchVars
  <2>2. ClosestLayer'
    BY <1>j, <2>1 DEF LaunchIInv, ClosestLayer, Ready
  <2> QED BY <1>0, <1>1, <1>j, <2>1, <2>2 DEF LaunchIInv
<1> QED
  BY <1>2, <1>3, <1>4, <1>5, <1>6 DEF LaunchNext, StartRun, Chat

\* Whatever Configs the process has made before, the one in use holds what
\* the closest layer that can be used says, but for a boolean of the
\* environment that is none, and an agent or a server runs in the mode that
\* says so (config.py:220-317; main.py:100-109, 944-957; server.py:109-119).
THEOREM ClosestHeeded == LaunchSpec => []ClosestLayer
<1>1. LaunchIInv => ClosestLayer
  BY DEF LaunchIInv
<1> QED
  BY <1>1, LaunchBegins, LaunchKept, PTL DEF LaunchSpec

-----------------------------------------------------------------------------
(* Together.                                                               *)

LocalIInv ==
  /\ MemoryIInv /\ ChatIInv /\ SnapIInv /\ JournalIInv /\ LaunchIInv
  /\ SkillIInv /\ EvalIInv

\* The files of all the parts are as they should be from the start.
LEMMA LocalBegins == LocalInit => LocalIInv
BY MemoryBegins, ChatBegins, SnapBegins, JournalBegins, LaunchBegins, SkillBegins, EvalBegins
   DEF LocalInit, LocalIInv

\* A step moves one part, and leaves the others as they are.
LEMMA OnePartMoves ==
  ASSUME [LocalNext]_<<part, localVars>>
  PROVE  /\ [MemoryNext]_memoryVars /\ [ChatNext]_chatVars /\ [SnapNext]_snapVars
         /\ [JournalNext]_journalVars /\ [LaunchNext]_launchVars /\ [SkillsNext]_skillVars
         /\ [EvalNext]_evalVars
BY DEF LocalNext, localVars

\* What every part of the disk holds stays as it should be, whichever
\* commands a process runs.
LEMMA LocalKept == LocalIInv /\ [LocalNext]_<<part, localVars>> => LocalIInv'
<1> SUFFICES ASSUME LocalIInv, [LocalNext]_<<part, localVars>>
             PROVE  LocalIInv'
  OBVIOUS
<1>1. MemoryIInv' /\ ChatIInv' /\ SnapIInv'
  BY OnePartMoves, MemoryKept, ChatKept, SnapKept DEF LocalIInv
<1>2. JournalIInv' /\ LaunchIInv' /\ SkillIInv' /\ EvalIInv'
  BY OnePartMoves, JournalKept, LaunchKept, SkillKept, EvalKept DEF LocalIInv
<1> QED
  BY <1>1, <1>2 DEF LocalIInv

\* The variables of every part keep their types, whichever part a process
\* moves.
THEOREM LocalTypeCorrect == LocalSpec => []LocalTyped
<1>1. LocalIInv => LocalTyped
  BY DEF LocalIInv, LocalTyped, MemoryIInv, ChatIInv, SnapIInv, JournalIInv,
         LaunchIInv, SkillIInv, EvalIInv
<1> QED
  BY <1>1, LocalBegins, LocalKept, PTL DEF LocalSpec
=============================================================================
