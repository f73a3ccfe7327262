--------------------------- MODULE TLStatNameSet ----------------------------
(***************************************************************************)
(* TLStatNameSet (fb303/ThreadLocalStats.cpp): names of stats interned as  *)
(* shared strings that the set itself only refers to weakly.               *)
(*                                                                         *)
(* The set is keyed by the string an entry points to, expired or not, so   *)
(* the deleter of a string takes its entry out before it frees it, while   *)
(* getSlow() may be replacing that entry.  Each section under the lock of  *)
(* a name's set is one step; the sets of different names do not interact   *)
(* otherwise.                                                              *)
(***************************************************************************)
CONSTANTS Users,      \* threads that get names and let go of them
          StatNames,
          Addrs,      \* addresses of strings
          Null

ASSUME NameSetAssumption == Null \notin StatNames \cup Addrs

VARIABLES
    nameAt,  \* each address: the string there, Null if it is not allocated
    entry,   \* each name: the address its weak pointer refers to, or Null
    held,    \* each thread: the strings it has a shared pointer to
    place,   \* each thread: where it is in get() or in SpDeleter
    want,    \* each thread: the argument of its get()
    dying    \* each thread: the string its SpDeleter is for

nameSetVars == <<nameAt, entry, held, place, want, dying>>

\* weak.lock() succeeds: some thread has a shared pointer.
Lockable(a) == \E t \in Users : a \in held[t]

NameSetInit ==
    /\ nameAt = [a \in Addrs |-> Null]
    /\ entry = [n \in StatNames |-> Null]
    /\ held = [t \in Users |-> {}]
    /\ place = [t \in Users |-> "idle"]
    /\ want = [t \in Users |-> Null]
    /\ dying = [t \in Users |-> Null]

-----------------------------------------------------------------------------
(***************************************************************************)
(* get(name)                                                               *)
(***************************************************************************)
Get(t, n) ==
    /\ place[t] = "idle"
    /\ place' = [place EXCEPT ![t] = "fast"]
    /\ want' = [want EXCEPT ![t] = n]
    /\ UNCHANGED <<nameAt, entry, held, dying>>

\* The entry's string, if there is one and it can still be shared.
Hit(n) == entry[n] # Null /\ Lockable(entry[n])

\* get() returns the string at address a.
Share(t, a) ==
    /\ held' = [held EXCEPT ![t] = @ \cup {a}]
    /\ place' = [place EXCEPT ![t] = "idle"]
    /\ want' = [want EXCEPT ![t] = Null]

GetFast(t) ==
    /\ place[t] = "fast"
    /\ \/ Hit(want[t]) /\ Share(t, entry[want[t]])
       \/ /\ ~Hit(want[t])
          /\ place' = [place EXCEPT ![t] = "slow"]
          /\ UNCHANGED <<held, want>>
    /\ UNCHANGED <<nameAt, entry, dying>>

\* Mutant: an entry found under the write lock is not tried again.
GetSlowBlind(t, a) ==
    /\ place[t] = "slow" /\ nameAt[a] = Null
    /\ nameAt' = [nameAt EXCEPT ![a] = want[t]]
    /\ entry' = [entry EXCEPT ![want[t]] = a]
    /\ Share(t, a)
    /\ UNCHANGED dying

\* Share the entry, or make a new string in place of one that has expired.
GetSlow(t, a) ==
    /\ place[t] = "slow"
    /\ \/ /\ Hit(want[t]) /\ a = entry[want[t]]
          /\ UNCHANGED <<nameAt, entry>>
       \/ /\ ~Hit(want[t]) /\ nameAt[a] = Null
          /\ nameAt' = [nameAt EXCEPT ![a] = want[t]]
          /\ entry' = [entry EXCEPT ![want[t]] = a]
    /\ Share(t, a)
    /\ UNCHANGED dying

-----------------------------------------------------------------------------
(***************************************************************************)
(* The last shared pointer goes: SpDeleter.                                *)
(***************************************************************************)
\* A thread drops its shared pointer; if it was the last, it runs SpDeleter.
Release(t, a) ==
    /\ place[t] = "idle" /\ a \in held[t]
    /\ held' = [held EXCEPT ![t] = @ \ {a}]
    /\ \/ /\ \E u \in Users \ {t} : a \in held[u]
          /\ UNCHANGED <<place, dying>>
       \/ /\ \A u \in Users \ {t} : a \notin held[u]
          /\ place' = [place EXCEPT ![t] = "clean"]
          /\ dying' = [dying EXCEPT ![t] = a]
    /\ UNCHANGED <<nameAt, entry, want>>

\* Mutant: whatever entry has the name is erased.
CleanByName(t) ==
    /\ place[t] = "clean"
    /\ entry' = [entry EXCEPT ![nameAt[dying[t]]] = Null]
    /\ place' = [place EXCEPT ![t] = "delete"]
    /\ UNCHANGED <<nameAt, held, want, dying>>

\* Mutant: an entry is only erased by the next getSlow().
CleanNothing(t) ==
    /\ place[t] = "clean"
    /\ place' = [place EXCEPT ![t] = "delete"]
    /\ UNCHANGED <<nameAt, entry, held, want, dying>>

\* clean(): erase the entry of the name if it is for this very string.
Clean(t) ==
    LET n == nameAt[dying[t]]
    IN  /\ place[t] = "clean"
        /\ entry' = [entry EXCEPT ![n] = IF @ = dying[t] THEN Null ELSE @]
        /\ place' = [place EXCEPT ![t] = "delete"]
        /\ UNCHANGED <<nameAt, held, want, dying>>

\* delete str
Delete(t) ==
    /\ place[t] = "delete"
    /\ nameAt' = [nameAt EXCEPT ![dying[t]] = Null]
    /\ place' = [place EXCEPT ![t] = "idle"]
    /\ dying' = [dying EXCEPT ![t] = Null]
    /\ UNCHANGED <<entry, held, want>>

-----------------------------------------------------------------------------
NameSetStep(t) == \/ \E n \in StatNames : Get(t, n)
           \/ GetFast(t)
           \/ \E a \in Addrs : GetSlow(t, a) \/ Release(t, a)
           \/ Clean(t) \/ Delete(t)

NameSetNext == \E t \in Users : NameSetStep(t)

NameSetSpec == NameSetInit /\ [][NameSetNext]_nameSetVars

-----------------------------------------------------------------------------
(***************************************************************************)
(* Properties.                                                             *)
(***************************************************************************)
NameSetTypeOK ==
    /\ nameAt \in [Addrs -> StatNames \cup {Null}]
    /\ entry \in [StatNames -> Addrs \cup {Null}]
    /\ held \in [Users -> SUBSET Addrs]
    /\ place \in [Users -> {"idle", "fast", "slow", "clean", "delete"}]
    /\ want \in [Users -> StatNames \cup {Null}]
    /\ dying \in [Users -> Addrs \cup {Null}]

(***************************************************************************)
(* "assume lockable - not-null, still-alive": hashing and comparing keys   *)
(* never reads a string that was freed, and a key is found under its name. *)
(***************************************************************************)
KeysReadable == \A n \in StatNames : entry[n] # Null => nameAt[entry[n]] = n

(***************************************************************************)
(* "the appearance of a set": all the shared pointers there are to strings *)
(* with one name are to one string, through any race of get() with the     *)
(* deleter of an earlier string of that name.                              *)
(***************************************************************************)
Interned ==
    \A a, b \in Addrs :
        (Lockable(a) /\ Lockable(b) /\ nameAt[a] = nameAt[b]) => a = b

(***************************************************************************)
(* The set does not grow with names that nobody uses: an entry whose       *)
(* string has expired is one whose deleter has still to run clean(), and a *)
(* string in use always has its entry.                                     *)
(***************************************************************************)
EntriesInUse ==
    /\ \A n \in StatNames : (entry[n] # Null /\ ~Lockable(entry[n])) =>
          \E t \in Users : place[t] = "clean" /\ dying[t] = entry[n]
    /\ \A a \in Addrs : Lockable(a) => nameAt[a] # Null /\ entry[nameAt[a]] = a

(***************************************************************************)
(* What makes the three inductive: a string is dying in one thread only,   *)
(* has no shared pointer left, keeps its storage until it is deleted and   *)
(* has no entry once clean() is over; every allocated string is shared or  *)
(* dying.                                                                  *)
(***************************************************************************)
DyingInv ==
    /\ \A t \in Users : place[t] \in {"clean", "delete"} =>
          /\ dying[t] \in Addrs /\ ~Lockable(dying[t])
          /\ nameAt[dying[t]] # Null
          /\ place[t] = "delete" => \A n \in StatNames : entry[n] # dying[t]
    /\ \A t, u \in Users : (t # u /\ place[t] \in {"clean", "delete"}
                                    /\ place[u] \in {"clean", "delete"}) =>
          dying[t] # dying[u]

WantInv == \A t \in Users : place[t] \in {"fast", "slow"} => want[t] \in StatNames

NameSetInv == NameSetTypeOK /\ KeysReadable /\ EntriesInUse /\ DyingInv /\ WantInv
=============================================================================
