-------------------------- MODULE CodecCacheProofs --------------------------
(***************************************************************************)
(* Proofs about CodecCache, for any channels, handlers and time to live,   *)
(* and however long the process runs and however often it dies.            *)
(***************************************************************************)
EXTENDS CodecCache, TLAPS

-----------------------------------------------------------------------------
(* Entries and their expiry *)

\* What is left of f at time m.
Alive(f, m) == [k \in Keys |-> IF f[k].expires <= m THEN NoEntry ELSE f[k]]

\* What persist_locked() writes, and what is loaded of it, are entries that
\* were there.
LEMMA AliveFacts ==
  ASSUME NEW f \in [Keys -> Entries], NEW m \in Nat
  PROVE  /\ Alive(f, m) \in [Keys -> Entries]
         /\ \A k \in Keys : Alive(f, m)[k] \in {f[k], NoEntry}
         /\ Alive(Alive(f, m), m) = Alive(f, m)
<1>1. NoEntry \in Entries /\ NoEntry.expires <= m
  BY DEF Entries, NoEntry
<1>2. Alive(f, m) \in [Keys -> Entries] /\ \A k \in Keys : Alive(f, m)[k] \in {f[k], NoEntry}
  BY <1>1 DEF Alive
<1>3. \A k \in Keys : Alive(Alive(f, m), m)[k] = Alive(f, m)[k]
  BY <1>1 DEF Alive
<1>4. /\ Alive(f, m) = [k \in Keys |-> Alive(f, m)[k]]
      /\ Alive(Alive(f, m), m) = [k \in Keys |-> Alive(Alive(f, m), m)[k]]
  BY DEF Alive
<1> QED
  BY <1>2, <1>3, <1>4

\* Entries that agree as far as they are alive go on agreeing.
LEMMA AliveLater ==
  ASSUME NEW f \in [Keys -> Entries], NEW g \in [Keys -> Entries],
         NEW m \in Nat, NEW n \in Nat, m <= n, Alive(f, m) = Alive(g, m)
  PROVE  Alive(f, n) = Alive(g, n)
<1>1. \A k \in Keys : f[k].expires \in Nat /\ g[k].expires \in Nat
  BY DEF Entries, NoEntry
<1>2. ASSUME NEW k \in Keys
      PROVE  Alive(f, n)[k] = Alive(g, n)[k]
  <2>1. Alive(f, m)[k] = Alive(g, m)[k]
    OBVIOUS
  <2>2. NoEntry.expires = 0
    BY DEF NoEntry
  <2> QED
    BY <1>1, <2>1, <2>2 DEF Alive
<1>3. /\ Alive(f, n) = [k \in Keys |-> Alive(f, n)[k]]
      /\ Alive(g, n) = [k \in Keys |-> Alive(g, n)[k]]
  BY DEF Alive
<1> QED
  BY <1>2, <1>3

\* The two definitions of the model in these terms, in a state and the next.
LEMMA UnexpiredIsAlive ==
  /\ Unexpired(items) = Alive(items, now) /\ Unexpired(items)' = Alive(items', now')
  /\ Unexpired(temporary) = Alive(temporary, now)
  /\ Unexpired(temporary)' = Alive(temporary', now')
  /\ load = IF file = None THEN Nothing ELSE Alive(file, now)
  /\ load' = IF file' = None THEN Nothing ELSE Alive(file', now')
BY DEF Unexpired, Alive, Expired, load

\* A cache without entries has none later either.
LEMMA NothingFacts ==
  /\ Nothing \in [Keys -> Entries] /\ None \notin [Keys -> Entries] /\ None \notin Threads
  /\ \A m \in Nat : Alive(Nothing, m) = Nothing
BY CacheAssumption DEF CacheAssumption, Nothing, Entries, NoEntry, Alive

\* An empty cache, and no file.
LEMMA InvInit == Init => TypeOK /\ IInv
<1> SUFFICES ASSUME Init PROVE TypeOK /\ IInv
  OBVIOUS
<1>1. TypeOK
  BY NothingFacts DEF Init, TypeOK
<1>2. LockInv
  BY DEF Init, LockInv, Writing
<1>3. RecentInv
  <2>1. \A k \in Keys : items[k] = NoEntry /\ written[k] = 0
    BY DEF Init, Nothing
  <2>2. \A t \in Threads : pc[t] = "idle"
    BY DEF Init
  <2>3. file = None /\ sets = 0 /\ 0 <= sets
    BY DEF Init
  <2>4. \A t \in Threads : ~Writing(t)
    BY <2>2 DEF Writing
  <2> QED
    BY <2>1, <2>2, <2>3, <2>4 DEF RecentInv
<1>4. CompleteInv
  <2>1. load = Nothing /\ Unexpired(items) = Nothing
    BY NothingFacts, UnexpiredIsAlive DEF Init
  <2> QED
    BY <2>1 DEF Init, CompleteInv, Writing
<1> QED
  BY <1>1, <1>2, <1>3, <1>4 DEF IInv

-----------------------------------------------------------------------------
(* Types and the lock *)

\* Every variable keeps its type.
LEMMA TypeStep ==
  ASSUME TypeOK, LockInv, Next
  PROVE  TypeOK'
<1> USE DEF TypeOK, memVars, diskVars, histVars
<1>1. NoEntry \in Entries /\ Ttl \in Nat \ {0} /\ Nothing \in [Keys -> Entries]
  BY CacheAssumption, NothingFacts DEF CacheAssumption, Entries
<1>2. Unexpired(items) \in [Keys -> Entries] /\ load \in [Keys -> Entries]
  <2>1. \A f \in [Keys -> Entries] : Alive(f, now) \in [Keys -> Entries]
    BY AliveFacts
  <2>2. load = Nothing \/ (file # None /\ load = Alive(file, now))
    BY UnexpiredIsAlive
  <2> QED
    BY <1>1, <2>1, <2>2, UnexpiredIsAlive
<1>3. ASSUME NEW t \in Threads, NEW k \in Keys, Set(t, k) PROVE TypeOK'
  <2>1. sets + 1 \in Nat \ {0} /\ now + Ttl \in Nat
    BY <1>1
  <2>2. [n |-> sets + 1, expires |-> now + Ttl] \in Entries
    BY <2>1 DEF Entries
  <2> QED
    BY <1>3, <2>1, <2>2 DEF Set, Enter
<1>4. ASSUME NEW t \in Threads, NEW k \in Keys, FindExpired(t, k) PROVE TypeOK'
  BY <1>4 DEF FindExpired, Enter
<1>5. ASSUME NEW t \in Threads, Erase(t) PROVE TypeOK'
  BY <1>1, <1>5 DEF Erase
<1>6. ASSUME NEW t \in Threads, Open(t) PROVE TypeOK'
  BY <1>2, <1>6 DEF Open
<1>7. ASSUME NEW t \in Threads, Write(t) PROVE TypeOK'
  <2>1. temporary' \in [Keys -> Entries]
    BY <1>1, <1>7 DEF Write, LockInv, Writing
  <2> QED
    BY <1>7, <2>1 DEF Write
<1>8. ASSUME NEW t \in Threads, Remove(t) PROVE TypeOK'
  BY <1>8 DEF Remove
<1>9. ASSUME NEW t \in Threads, Rename(t) PROVE TypeOK'
  <2>1. temporary \in [Keys -> Entries]
    BY <1>9 DEF Rename, LockInv, Writing
  <2>2. \A k \in Keys : temporary[k].n \in Nat /\ Larger(written[k], temporary[k].n) \in Nat
    BY <2>1 DEF Larger, Entries, NoEntry
  <2>3. written' \in [Keys -> Nat]
    BY <1>9, <2>2 DEF Rename
  <2> QED
    BY <1>1, <1>9, <2>1, <2>3 DEF Rename, Leave
<1>10. ASSUME NEW t \in Threads, PersistFails(t) PROVE TypeOK'
  <2>1. temporary' \in [Keys -> Entries] \cup {None}
    BY <1>1, <1>10 DEF PersistFails
  <2> QED
    BY <1>1, <1>10, <2>1 DEF PersistFails, Leave
<1>11. CASE Tick
  BY <1>11 DEF Tick
<1>12. CASE Restart
  <2>1. crashes' \in Nat
    BY <1>12 DEF Restart
  <2> QED
    BY <1>1, <1>2, <1>12, <2>1 DEF Restart
<1> QED
  BY <1>3, <1>4, <1>5, <1>6, <1>7, <1>8, <1>9, <1>10, <1>11, <1>12 DEF Next

\* Nobody enters while the lock of the file is taken from under a handler.
LEMMA LockStep ==
  ASSUME TypeOK, LockInv, Next
  PROVE  LockInv'
<1> USE NothingFacts DEF TypeOK, LockInv, Writing, memVars, diskVars, histVars
<1>1. Unexpired(items) # None
  BY AliveFacts, UnexpiredIsAlive
<1>3. ASSUME NEW t \in Threads, NEW k \in Keys, Set(t, k) PROVE LockInv'
  BY <1>3 DEF Set, Enter
<1>4. ASSUME NEW t \in Threads, NEW k \in Keys, FindExpired(t, k) PROVE LockInv'
  BY <1>4 DEF FindExpired, Enter, Expired
<1>5. ASSUME NEW t \in Threads, Erase(t) PROVE LockInv'
  BY <1>5 DEF Erase
<1>6. ASSUME NEW t \in Threads, Open(t) PROVE LockInv'
  BY <1>1, <1>6 DEF Open, Expired
<1>7. ASSUME NEW t \in Threads, Write(t) PROVE LockInv'
  <2>1. temporary' # None
    BY <1>7 DEF Write, Entries
  <2> QED
    BY <1>7, <2>1 DEF Write, Expired
<1>8. ASSUME NEW t \in Threads, Remove(t) PROVE LockInv'
  BY <1>8 DEF Remove, Expired
<1>9. ASSUME NEW t \in Threads, Rename(t) PROVE LockInv'
  BY <1>9 DEF Rename, Leave, Expired
<1>10. ASSUME NEW t \in Threads, PersistFails(t) PROVE LockInv'
  BY <1>10 DEF PersistFails, Leave, Expired
<1>11. CASE Tick
  <2>1. \A k \in Keys : items[k].expires \in Nat
    BY DEF Entries, NoEntry
  <2> QED
    BY <1>11, <2>1 DEF Tick, Expired
<1>12. CASE Restart
  BY <1>12 DEF Restart
<1> QED
  BY <1>3, <1>4, <1>5, <1>6, <1>7, <1>8, <1>9, <1>10, <1>11, <1>12 DEF Next

-----------------------------------------------------------------------------
(* How recent entries are *)

\* What persist_locked() and load() take of memory or file.
LEMMA UnexpiredOrNone ==
  ASSUME TypeOK, NEW k \in Keys
  PROVE  /\ Unexpired(items)[k] \in {items[k], NoEntry}
         /\ load[k] # NoEntry => file # None /\ load[k] = file[k]
BY AliveFacts, UnexpiredIsAlive DEF TypeOK, Nothing

\* No entry falls back behind what was written before, in memory, in the file,
\* and in what is being written.
LEMMA RecentStep ==
  ASSUME TypeOK, LockInv, RecentInv, Next
  PROVE  RecentInv'
<1> USE NothingFacts DEF TypeOK, RecentInv, Writing, memVars, diskVars, histVars
<1>1. \A k \in Keys : written[k] \in Nat /\ sets \in Nat
  OBVIOUS
<1>2. NoEntry.n = 0
  BY DEF NoEntry
<1>3. ASSUME NEW t \in Threads, NEW k \in Keys, Set(t, k) PROVE RecentInv'
  <2>1. /\ sets' = sets + 1 /\ written' = written /\ file' = file /\ temporary' = temporary
        /\ items' = [items EXCEPT ![k] = [n |-> sets + 1, expires |-> now + Ttl]]
        /\ pc' = [pc EXCEPT ![t] = "persist"]
    BY <1>3 DEF Set
  <2>2. \A j \in Keys : written[j] <= sets
    OBVIOUS
  <2> QED
    BY <1>1, <2>1, <2>2
<1>4. ASSUME NEW t \in Threads, NEW k \in Keys, FindExpired(t, k) PROVE RecentInv'
  BY <1>1, <1>4 DEF FindExpired, Enter
<1>5. ASSUME NEW t \in Threads, Erase(t) PROVE RecentInv'
  BY <1>1, <1>5 DEF Erase
<1>6. ASSUME NEW t \in Threads, Open(t) PROVE RecentInv'
  BY <1>1, <1>6, UnexpiredOrNone DEF Open, LockInv
<1>7. ASSUME NEW t \in Threads, Write(t) PROVE RecentInv'
  BY <1>1, <1>7 DEF Write, LockInv
<1>8. ASSUME NEW t \in Threads, Remove(t) PROVE RecentInv'
  BY <1>1, <1>8 DEF Remove
<1>9. ASSUME NEW t \in Threads, Rename(t) PROVE RecentInv'
  BY <1>1, <1>2, <1>9 DEF Rename, Leave, Larger, LockInv
<1>10. ASSUME NEW t \in Threads, PersistFails(t) PROVE RecentInv'
  BY <1>1, <1>2, <1>10 DEF PersistFails, Leave, LockInv
<1>11. CASE Tick
  BY <1>11 DEF Tick
<1>12. CASE Restart
  BY <1>1, <1>2, <1>12, UnexpiredOrNone DEF Restart
<1> QED
  BY <1>3, <1>4, <1>5, <1>6, <1>7, <1>8, <1>9, <1>10, <1>11, <1>12 DEF Next

-----------------------------------------------------------------------------
(* How complete the file is *)

\* Only one handler writes the file.
LEMMA OneWriter ==
  ASSUME LockInv, NEW t \in Threads, Writing(t) \/ lock \in {None, t}
  PROVE  \A u \in Threads : Writing(u) => u = t
BY NothingFacts DEF LockInv

\* The file is behind memory only until it is written, or after a failure.
LEMMA CompleteStep ==
  ASSUME TypeOK, LockInv, CompleteInv, Next
  PROVE  CompleteInv'
<1> USE DEF TypeOK, memVars, diskVars, histVars
<1>1. ASSUME NEW t \in Threads, pc'[t] = "persist"
      PROVE  CompleteInv'
  BY <1>1 DEF CompleteInv
<1>2. ASSUME now' = now
      PROVE  /\ items' = items => Unexpired(items)' = Unexpired(items)
             /\ temporary' = temporary => Unexpired(temporary)' = Unexpired(temporary)
             /\ file' = file => load' = load
  BY <1>2, UnexpiredIsAlive
<1>3. ASSUME NEW t \in Threads, (\E k \in Keys : Set(t, k)) \/ Erase(t) PROVE CompleteInv'
  BY <1>1, <1>3 DEF Set, Erase
<1>4. ASSUME NEW t \in Threads, NEW k \in Keys, FindExpired(t, k) PROVE CompleteInv'
  <2>1. \A u \in Threads : /\ Writing(u)' <=> Writing(u)
                           /\ pc'[u] = "persist" <=> pc[u] = "persist"
                           /\ pc'[u] = "write" <=> pc[u] = "write"
    BY <1>4 DEF FindExpired, Enter, Writing
  <2> QED
    BY <1>2, <1>4, <2>1 DEF FindExpired, CompleteInv
<1>5. ASSUME NEW t \in Threads, Open(t) PROVE CompleteInv'
  <2>1. \A u \in Threads : Writing(u)' => u = t
    BY <1>5, OneWriter DEF Open, Writing
  <2>2. Writing(t)'
    BY <1>5 DEF Open, Writing
  <2>3. Unexpired(temporary)' = Unexpired(items)'
    BY <1>5, AliveFacts, UnexpiredIsAlive DEF Open
  <2> QED
    BY <2>1, <2>2, <2>3 DEF CompleteInv, Writing
<1>6. ASSUME NEW t \in Threads, Write(t) PROVE CompleteInv'
  <2>1. Writing(t) /\ Writing(t)' /\ pc[t] = "write" /\ pc'[t] = "remove"
    BY <1>6 DEF Write, Writing
  <2>2. \A u \in Threads : Writing(u)' => u = t
    BY <1>6, <2>1, OneWriter DEF Write, Writing
  <2>3. ASSUME ~failed', \A u \in Threads : pc'[u] # "persist"
        PROVE  Unexpired(temporary)' = Unexpired(items)'
    <3>1. temporary' = temporary /\ \A u \in Threads : pc[u] # "persist"
      BY <1>6, <2>3 DEF Write
    <3> QED
      BY <1>2, <1>6, <2>1, <3>1 DEF CompleteInv, Write
  <2> QED
    BY <2>1, <2>2, <2>3 DEF CompleteInv, Writing
<1>7. ASSUME NEW t \in Threads, Remove(t) PROVE CompleteInv'
  <2>1. /\ Writing(t)' /\ pc'[t] = "rename"
        /\ \A u \in Threads : /\ Writing(u)' <=> Writing(u)
                              /\ pc'[u] = "persist" <=> pc[u] = "persist"
                              /\ pc'[u] = "write" => pc[u] = "write"
    BY <1>7 DEF Remove, Writing
  <2> QED
    BY <1>2, <1>7, <2>1 DEF Remove, CompleteInv
<1>8. ASSUME NEW t \in Threads, Rename(t) PROVE CompleteInv'
  <2>1. Writing(t) /\ ~Writing(t)' /\ pc[t] = "rename" /\ temporary # None
    BY <1>8 DEF Rename, Leave, Writing, LockInv
  <2>2. \A u \in Threads : ~Writing(u)'
    BY <1>8, <2>1, OneWriter DEF Rename, Leave, Writing
  <2>3. ASSUME ~failed', \A u \in Threads : pc'[u] # "persist"
        PROVE  load' = Unexpired(items)'
    <3>1. ~failed /\ \A u \in Threads : pc[u] # "persist"
      BY <1>8, <2>1, <2>3 DEF Rename, Leave
    <3>2. Unexpired(temporary) = Unexpired(items)
      BY <2>1, <3>1 DEF CompleteInv
    <3>3. load' = Unexpired(temporary)
      BY <1>8, <2>1, UnexpiredIsAlive DEF Rename
    <3> QED
      BY <1>2, <1>8, <3>2, <3>3 DEF Rename
  <2> QED
    BY <2>2, <2>3 DEF CompleteInv, Writing
<1>9. ASSUME NEW t \in Threads, PersistFails(t) PROVE CompleteInv'
  <2>1. Writing(t) \/ lock \in {None, t}
    BY <1>9 DEF PersistFails, Writing
  <2>2. \A u \in Threads : ~Writing(u)'
    BY <1>9, <2>1, OneWriter DEF PersistFails, Leave, Writing
  <2>3. failed'
    BY <1>9 DEF PersistFails
  <2> QED
    BY <2>2, <2>3 DEF CompleteInv, Writing
<1>10. CASE Tick
  <2>1. now' = now + 1 /\ items' = items /\ file' = file /\ temporary' = temporary
    BY <1>10 DEF Tick
  <2>2. \A f, g \in [Keys -> Entries] : Alive(f, now) = Alive(g, now) => Alive(f, now') = Alive(g, now')
    BY <2>1, AliveLater
  <2>3. load = Unexpired(items) => load' = Unexpired(items)'
    <3>1. CASE file = None
      <4>1. Nothing \in [Keys -> Entries] /\ Alive(Nothing, now) = Nothing /\ Alive(Nothing, now') = Nothing
        BY <2>1, NothingFacts
      <4> QED
        BY <2>1, <2>2, <3>1, <4>1, UnexpiredIsAlive
    <3>2. CASE file # None
      BY <2>1, <2>2, <3>2, UnexpiredIsAlive
    <3> QED
      BY <3>1, <3>2
  <2>4. ASSUME NEW t \in Threads, Writing(t), Unexpired(temporary) = Unexpired(items)
        PROVE  Unexpired(temporary)' = Unexpired(items)'
    BY <2>1, <2>2, <2>4, UnexpiredIsAlive DEF LockInv
  <2>5. pc' = pc /\ failed' = failed
    BY <1>10 DEF Tick
  <2> QED
    BY <2>3, <2>4, <2>5 DEF CompleteInv, Writing
<1>11. CASE Restart
  <2>1. items' = load /\ load' = load
    BY <1>2, <1>11 DEF Restart
  <2>2. Unexpired(items)' = load
    BY <1>11, <2>1, AliveFacts, NothingFacts, UnexpiredIsAlive DEF Restart
  <2>3. \A t \in Threads : ~Writing(t)'
    BY <1>11 DEF Restart, Writing
  <2> QED
    BY <2>1, <2>2, <2>3 DEF CompleteInv, Writing
<1> QED
  BY <1>3, <1>4, <1>5, <1>6, <1>7, <1>8, <1>9, <1>10, <1>11 DEF Next

-----------------------------------------------------------------------------
\* Nothing happens.
LEMMA Stutter ==
  ASSUME TypeOK, IInv, UNCHANGED vars
  PROVE  TypeOK' /\ IInv'
<1> USE DEF vars, memVars, diskVars, histVars
<1>1. TypeOK' /\ LockInv' /\ RecentInv'
  BY DEF TypeOK, IInv, LockInv, RecentInv, Writing, Expired
<1>2. CompleteInv'
  BY UnexpiredIsAlive DEF IInv, CompleteInv, Writing
<1> QED
  BY <1>1, <1>2 DEF IInv

\* The types and the inductive invariant: one writer at a time, entries that
\* are at least as recent as what was written before, and a file that equals
\* memory unless somebody is about to write it or the last writer failed.
THEOREM Inductive == Spec => [](TypeOK /\ IInv)
<1>1. ASSUME TypeOK, IInv, Next PROVE TypeOK' /\ IInv'
  BY <1>1, TypeStep, LockStep, RecentStep, CompleteStep DEF IInv
<1>2. TypeOK /\ IInv /\ [Next]_vars => TypeOK' /\ IInv'
  BY <1>1, Stutter
<1> QED
  BY InvInit, <1>2, PTL DEF Spec

\* What a restart loads is never older than what persist_locked() wrote before:
\* neither a later write nor a crash brings an older entry back.
THEOREM WrittenSafety == Spec => []NoOlderEntryReturns
<1>1. TypeOK /\ IInv => NoOlderEntryReturns
  <2> SUFFICES ASSUME TypeOK, IInv, NEW k \in Keys, load[k] # NoEntry
               PROVE  load[k].n >= written[k]
    BY DEF NoOlderEntryReturns
  <2>1. file # None /\ load[k] = file[k]
    BY UnexpiredOrNone
  <2> QED
    BY <2>1 DEF TypeOK, IInv, RecentInv
<1> QED
  BY Inductive, <1>1, PTL

\* When every call has returned and the last writer did not fail, the file
\* holds what memory holds, whatever handlers did between each other's steps.
THEOREM RestartSafety == Spec => []RestartRemembers
<1>1. IInv => RestartRemembers
  BY DEF IInv, CompleteInv, RestartRemembers, Writing
<1> QED
  BY Inductive, <1>1, PTL

\* try_get() of the C++ bridge erases what is expired, and set() only ever
\* replaces an entry by a later one.
THEOREM EntrySafety == Spec => FreshEntryStays
<1> DEFINE Stays ==
      build = "cpp" /\ crashes' = crashes =>
        \A k \in Keys : ~Expired(items[k]) => items'[k].n >= items[k].n
<1>1. ASSUME TypeOK, IInv, Next PROVE Stays
  <2> SUFFICES ASSUME build = "cpp", crashes' = crashes, NEW k \in Keys, ~Expired(items[k])
               PROVE  items'[k].n >= items[k].n
    OBVIOUS
  <2>1. items[k].n \in Nat
    BY <1>1 DEF TypeOK, Entries, NoEntry
  <2>2. CASE items' = items
    BY <2>1, <2>2
  <2>3. ASSUME NEW t \in Threads, NEW j \in Keys, Set(t, j) PROVE items'[k].n >= items[k].n
    <3>1. items' = [items EXCEPT ![j] = [n |-> sets + 1, expires |-> now + Ttl]]
      BY <2>3 DEF Set
    <3>2. items[k].n <= sets /\ sets \in Nat
      BY <1>1, <2>1 DEF TypeOK, IInv, RecentInv, NoEntry
    <3> QED
      BY <1>1, <2>1, <3>1, <3>2 DEF TypeOK
  <2>4. ASSUME NEW t \in Threads, Erase(t) PROVE items'[k].n >= items[k].n
    <3>1. Expired(items[job[t]]) /\ items' = [items EXCEPT ![job[t]] = NoEntry]
      BY <1>1, <2>4 DEF Erase, IInv, LockInv
    <3>2. job[t] # k
      BY <3>1
    <3> QED
      BY <1>1, <2>1, <3>1, <3>2 DEF TypeOK
  <2>5. ~Restart
    BY <1>1 DEF Restart, TypeOK
  <2> QED
    BY <1>1, <2>2, <2>3, <2>4, <2>5 DEF Next, FindExpired, Open, Write, Remove, Rename,
         PersistFails, Tick, memVars
<1>2. TypeOK /\ IInv /\ [Next]_vars => [Stays]_vars
  BY <1>1
<1> QED
  BY Inductive, <1>2, PTL DEF Spec, FreshEntryStays
=============================================================================
