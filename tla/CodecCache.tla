----------------------------- MODULE CodecCache -----------------------------
(***************************************************************************)
(* VideoCodecCache of both bridges: what the last identification of a      *)
(* channel's codec was, in memory and in a file that survives a restart.   *)
(*                                                                         *)
(* An entry is the number of the set() that made it and its expiry; set()  *)
(* numbers stand for codecs, so that an entry tells how recent it is.      *)
(* Several handlers use the cache.  The C++ bridge does everything under   *)
(* one mutex, the C# bridge only the writing of the file.  The process may *)
(* die at any statement; the file system may refuse any operation.         *)
(***************************************************************************)
EXTENDS Integers

CONSTANTS Keys, Threads, None,
          Ttl,      \* codec_cache_seconds
          MaxTime, MaxSets, MaxCrashes  \* bounds

NoEntry == [n |-> 0, expires |-> 0]
Entries == {NoEntry} \cup [n : Nat \ {0}, expires : Nat]

ASSUME CacheAssumption ==
  /\ None \notin Keys \cup Threads \cup [Keys -> Entries] /\ Ttl \in Nat \ {0}
  /\ MaxTime \in Nat /\ MaxSets \in Nat /\ MaxCrashes \in Nat

VARIABLES
  build,    \* "cpp" or "csharp"
  now,      \* the clock
  items,    \* items_: the entries in memory
  lock,     \* who writes the file
  pc, job,  \* what a handler does, and for which channel
  file, temporary,  \* cache_file_ and its .tmp: None or the entries in it
  failed,   \* the last attempt to write the file was not complete
  sets, crashes,    \* counters
  written   \* history: per key, the most recent set() in a file that was renamed

memVars  == <<items, lock, pc, job>>
diskVars == <<file, temporary>>
histVars == <<failed, sets, crashes, written>>
vars == <<build, now, memVars, diskVars, histVars>>

Nothing == [k \in Keys |-> NoEntry]

Init ==
  /\ build \in {"cpp", "csharp"} /\ now = 0
  /\ items = Nothing /\ lock = None
  /\ pc = [t \in Threads |-> "idle"] /\ job = [t \in Threads |-> None]
  /\ file = None /\ temporary = None
  /\ failed = FALSE /\ sets = 0 /\ crashes = 0 /\ written = [k \in Keys |-> 0]

-----------------------------------------------------------------------------
Expired(e) == e.expires <= now

\* What persist_locked() writes, and what load() accepts of it.
Unexpired(entries) == [k \in Keys |-> IF Expired(entries[k]) THEN NoEntry ELSE entries[k]]

load == IF file = None THEN Nothing ELSE Unexpired(file)

EnterMutant(t) == pc[t] = "idle" /\ lock' = lock

\* In C++, the mutex is taken for the whole call.
Enter(t) ==
  /\ pc[t] = "idle"
  /\ build = "cpp" => lock = None
  /\ lock' = IF build = "cpp" THEN t ELSE lock

SetMutant(t, k) ==
  /\ pc[t] = "idle" /\ sets < MaxSets /\ lock = None /\ lock' = lock
  /\ sets' = sets + 1
  /\ items' = [items EXCEPT ![k] = [n |-> sets + 1, expires |-> now + Ttl]]
  /\ UNCHANGED <<build, now, pc, job, diskVars, failed, crashes, written>>

Set(t, k) ==
  /\ Enter(t) /\ sets < MaxSets
  /\ sets' = sets + 1
  /\ items' = [items EXCEPT ![k] = [n |-> sets + 1, expires |-> now + Ttl]]
  /\ job' = [job EXCEPT ![t] = k]
  /\ pc' = [pc EXCEPT ![t] = "persist"]
  /\ UNCHANGED <<build, now, diskVars, failed, crashes, written>>

\* try_get() finds an expired entry.  Any other outcome changes nothing.
FindExpired(t, k) ==
  /\ Enter(t)
  /\ items[k] # NoEntry /\ Expired(items[k])
  /\ job' = [job EXCEPT ![t] = k]
  /\ pc' = [pc EXCEPT ![t] = "erase"]
  /\ UNCHANGED <<build, now, items, diskVars, histVars>>

Erase(t) ==
  /\ pc[t] = "erase" /\ pc' = [pc EXCEPT ![t] = "persist"]
  /\ items' = [items EXCEPT ![job[t]] = NoEntry]
  /\ UNCHANGED <<build, now, lock, job, diskVars, histVars>>

-----------------------------------------------------------------------------
(* persist_locked(), PersistQuietly() *)

\* The temporary file is truncated; the entries are chosen now, with the lock.
Open(t) ==
  /\ pc[t] = "persist" /\ pc' = [pc EXCEPT ![t] = "write"]
  /\ lock \in {None, t} /\ lock' = t
  /\ temporary' = Unexpired(items)
  /\ UNCHANGED <<build, now, items, job, file, histVars>>

\* The handler returns from set() or try_get().
Leave(t) ==
  /\ pc' = [pc EXCEPT ![t] = "idle"] /\ job' = [job EXCEPT ![t] = None]
  /\ lock' = None

\* Creating, writing, removing or renaming failed: the entries stay in memory.
\* C++ does not test whether remove() failed, nor what became of its writes.
PersistFails(t) ==
  /\ \/ pc[t] = "persist" /\ lock \in {None, t} /\ temporary' = temporary
     \/ pc[t] = "write" /\ build = "csharp" /\ temporary' \in {None, Nothing}
     \/ pc[t] = "remove" /\ build = "csharp" /\ temporary' = temporary
     \/ pc[t] = "rename" /\ temporary' = temporary
  /\ failed' = TRUE
  /\ Leave(t)
  /\ UNCHANGED <<build, now, items, file, sets, crashes, written>>

\* On a full disk, the C++ stream loses rows and close() says nothing.
Write(t) ==
  /\ pc[t] = "write" /\ pc' = [pc EXCEPT ![t] = "remove"]
  /\ \E lost \in SUBSET Keys :
       /\ build = "csharp" => lost = {}
       /\ temporary' = [k \in Keys |-> IF k \in lost THEN NoEntry ELSE temporary[k]]
  /\ failed' = (temporary' # temporary)
  /\ UNCHANGED <<build, now, items, lock, job, file, sets, crashes, written>>

Remove(t) ==
  /\ pc[t] = "remove" /\ pc' = [pc EXCEPT ![t] = "rename"]
  /\ file' \in IF build = "cpp" THEN {None, file} ELSE {None}
  /\ UNCHANGED <<build, now, items, lock, job, temporary, histVars>>

Larger(i, j) == IF i > j THEN i ELSE j

RenameMutant(t) ==
  /\ pc[t] = "rename"
  /\ file' = (IF file = None THEN temporary ELSE file) /\ temporary' = None
  /\ written' = [k \in Keys |-> Larger(written[k], temporary[k].n)]
  /\ Leave(t)
  /\ UNCHANGED <<build, now, items, failed, sets, crashes>>

Rename(t) ==
  /\ pc[t] = "rename"
  /\ file' = temporary /\ temporary' = None
  /\ written' = [k \in Keys |-> Larger(written[k], temporary[k].n)]
  /\ Leave(t)
  /\ UNCHANGED <<build, now, items, failed, sets, crashes>>

-----------------------------------------------------------------------------
Tick ==
  /\ now < MaxTime /\ now' = now + 1
  /\ UNCHANGED <<build, memVars, diskVars, histVars>>

\* The process dies; the next one loads the file.  A file that was being
\* written keeps some of its rows, the .tmp is never read.
Restart ==
  /\ crashes < MaxCrashes /\ crashes' = crashes + 1
  /\ items' = load /\ lock' = None
  /\ pc' = [t \in Threads |-> "idle"] /\ job' = [t \in Threads |-> None]
  /\ failed' = FALSE
  /\ UNCHANGED <<build, now, diskVars, sets, written>>

Next ==
  \/ \E t \in Threads :
       \/ \E k \in Keys : Set(t, k) \/ FindExpired(t, k)
       \/ Erase(t) \/ Open(t) \/ Write(t) \/ Remove(t) \/ Rename(t) \/ PersistFails(t)
  \/ Tick \/ Restart

Spec == Init /\ [][Next]_vars

-----------------------------------------------------------------------------
\* A restart never loads an entry older than one that was written before: once
\* a corrected codec is in the file, no write of another handler and no crash
\* brings the wrong one back (main.cpp 1350-1370).  The file may be missing:
\* 1364 removes it before 1365 renames.  A correction that could not be written
\* is in memory only: a restart finds the entry before it, unless a later write
\* succeeded (RestartRemembers).
NoOlderEntryReturns ==
  \A k \in Keys : load[k] # NoEntry => load[k].n >= written[k]

\* When no call is under way and the last one wrote everything, a restart
\* finds exactly what memory holds (README 47).
RestartRemembers ==
  (\A t \in Threads : pc[t] = "idle") /\ ~failed => load = Unexpired(items)

\* Whoever finds an entry expired does not erase the one that another request
\* has identified meanwhile (1293-1295).  Only the C++ mutex ensures it: in
\* C#, TryRemove follows TryGetValue without a lock.
FreshEntryStays ==
  [][build = "cpp" /\ crashes' = crashes =>
       \A k \in Keys : ~Expired(items[k]) => items'[k].n >= items[k].n]_vars

-----------------------------------------------------------------------------
(***************************************************************************)
(* Types, and the inductive invariant behind the proofs.                   *)
(***************************************************************************)

TypeOK ==
  /\ build \in {"cpp", "csharp"} /\ now \in Nat
  /\ items \in [Keys -> Entries] /\ lock \in Threads \cup {None}
  /\ pc \in [Threads -> {"idle", "erase", "persist", "write", "remove", "rename"}]
  /\ job \in [Threads -> Keys \cup {None}]
  /\ file \in [Keys -> Entries] \cup {None} /\ temporary \in [Keys -> Entries] \cup {None}
  /\ failed \in BOOLEAN /\ sets \in Nat /\ crashes \in Nat
  /\ written \in [Keys -> Nat]

Writing(t) == pc[t] \in {"write", "remove", "rename"}

\* Who writes the file has the lock; in C++, so has whoever is in a call.
LockInv ==
  \A t \in Threads :
    /\ Writing(t) => lock = t /\ temporary # None
    /\ pc[t] # "idle" => job[t] \in Keys
    /\ build = "cpp" /\ pc[t] # "idle" => lock = t
    /\ build = "cpp" /\ pc[t] = "erase" => Expired(items[job[t]])

\* No entry, in memory, in the file or on its way there, is older than what was
\* written of its key, and what is on its way is not newer than memory.
RecentInv ==
  \A k \in Keys :
    /\ written[k] <= sets
    /\ items[k] # NoEntry => items[k].n \in written[k]..sets
    /\ file # None /\ file[k] # NoEntry => file[k].n \in written[k]..sets
    /\ \A t \in Threads : Writing(t) /\ temporary[k] # NoEntry =>
         /\ temporary[k].n \in written[k]..sets
         /\ items[k] # NoEntry => items[k].n >= temporary[k].n

\* The file lacks something of memory only as long as somebody is about to
\* write it, or after a failure; likewise what is being written.
CompleteInv ==
  /\ ~failed /\ (\A t \in Threads : pc[t] # "persist" /\ ~Writing(t)) => load = Unexpired(items)
  /\ \A t \in Threads :
       (pc[t] = "write" \/ (Writing(t) /\ ~failed)) /\ (\A u \in Threads : pc[u] # "persist")
         => Unexpired(temporary) = Unexpired(items)

IInv == LockInv /\ RecentInv /\ CompleteInv
=============================================================================
