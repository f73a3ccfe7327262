----------------------------- MODULE RegexUtil ------------------------------
(***************************************************************************)
(* The map of named entries with its folly::RegexMatchCache, and the       *)
(* lookups by regex that fill the cache (fb303/detail/RegexUtil.h), as one *)
(* shard of CallbackValuesMap uses them.                                   *)
(*                                                                         *)
(* The cache knows a string by its address.  cachedFindMatchesSnapshot()   *)
(* matches strings with no lock held, so an entry may leave the map during *)
(* the scan and its storage be used again.  The cache itself is folly's    *)
(* and is modelled from how it is used: per regex, which of the strings    *)
(* match and which are queued, not yet looked at.                          *)
(***************************************************************************)
EXTENDS FiniteSets

CONSTANTS Addrs,       \* addresses where the key of an entry can be
          Keys,        \* names of entries
          Regexes,     \* patterns
          Matches(_),  \* the names a pattern matches
          Finders,     \* threads that look up by regex
          NoKey

ASSUME MatchAssumption ==
    /\ NoKey \notin Keys
    /\ \A r \in Regexes : Matches(r) \subseteq Keys

VARIABLES
    content,  \* each address: the key stored there, NoKey if not allocated
    inMap,    \* map.map, as the addresses of its entries
    strings,  \* map.matches: the strings it holds
    known,    \* map.matches: the regexes it holds
    queue,    \* ... per regex, strings not looked at yet
    matched,  \* ... per regex, strings that match
    find      \* each finder: its call, with the fields of NoFind

cacheVars == <<strings, known, queue, matched>>
regexVars == <<content, inMap, cacheVars, find>>

NoFind == [pc |-> "idle", regex |-> NoKey,
           alive |-> {},      \* entries it keeps from being freed
           handle |-> {},     \* strings the scan still has to look at
           scanned |-> {},    \* strings it has looked at ...
           hits |-> {},       \* ... and found to match
           out |-> {},        \* names it returns
           want |-> {}]       \* history: names it should return

RegexInit ==
    /\ content = [a \in Addrs |-> NoKey]
    /\ inMap = {} /\ strings = {} /\ known = {}
    /\ queue = [r \in Regexes |-> {}]
    /\ matched = [r \in Regexes |-> {}]
    /\ find = [f \in Finders |-> NoFind]

-----------------------------------------------------------------------------
(***************************************************************************)
(* folly::RegexMatchCache                                                  *)
(***************************************************************************)
IsReady(r) == r \in known /\ queue[r] = {}

\* Strings of a set whose key, as it is now, the regex matches.
Hits(r, as) == {a \in as : content[a] \in Matches(r)}

\* Knowing a regex queues every string for it.
QueueOf(r) == IF r \in known THEN queue[r] ELSE strings

EraseStrings(as) ==
    /\ strings' = strings \ as
    /\ queue' = [r \in Regexes |-> queue[r] \ as]
    /\ matched' = [r \in Regexes |-> matched[r] \ as]
    /\ UNCHANGED known

ForgetRegexes(rs) ==
    /\ known' = known \ rs
    /\ queue' = [r \in Regexes |-> IF r \in rs THEN {} ELSE queue[r]]
    /\ matched' = [r \in Regexes |-> IF r \in rs THEN {} ELSE matched[r]]
    /\ UNCHANGED strings

\* prepareToFindMatches(): know the regex and look at what is queued for it.
PrepareToFindMatches(r) ==
    /\ known' = known \cup {r}
    /\ matched' = [matched EXCEPT ![r] = @ \cup Hits(r, QueueOf(r))]
    /\ queue' = [queue EXCEPT ![r] = {}]
    /\ UNCHANGED strings

-----------------------------------------------------------------------------
(***************************************************************************)
(* Changes to the map.  An entry is freed when it has left the map and no  *)
(* finder keeps it alive.                                                  *)
(***************************************************************************)
Pinned == UNION {find[f].alive : f \in Finders}

FreeUnused(left, pins) ==
    [a \in Addrs |-> IF a \in left \ pins THEN NoKey ELSE content[a]]

NamesInMap == {content[a] : a \in inMap}

\* cachedAddString()
AddString(a, n) ==
    /\ content[a] = NoKey /\ n \notin NamesInMap
    /\ content' = [content EXCEPT ![a] = n]
    /\ inMap' = inMap \cup {a}
    /\ strings' = strings \cup {a}
    /\ queue' = [r \in Regexes |-> IF r \in known THEN queue[r] \cup {a}
                                                  ELSE queue[r]]
    /\ UNCHANGED <<known, matched, find>>

\* Mutant: the entry leaves the map but its string stays in the cache.
EraseStringMapOnly(a) ==
    /\ a \in inMap
    /\ inMap' = inMap \ {a}
    /\ content' = FreeUnused({a}, Pinned)
    /\ UNCHANGED <<cacheVars, find>>

\* cachedEraseString()
EraseString(a) ==
    /\ a \in inMap
    /\ EraseStrings({a})
    /\ inMap' = inMap \ {a}
    /\ content' = FreeUnused({a}, Pinned)
    /\ UNCHANGED find

\* registerCallback() over an entry with the name: the new entry is made
\* before the old one is erased, and freed.
ReplaceString(a, b) ==
    /\ a \in inMap /\ content[b] = NoKey
    /\ content' = [FreeUnused({a}, Pinned) EXCEPT ![b] = content[a]]
    /\ inMap' = (inMap \ {a}) \cup {b}
    /\ strings' = (strings \ {a}) \cup {b}
    /\ queue' = [r \in Regexes |->
                   (queue[r] \ {a}) \cup (IF r \in known THEN {b} ELSE {})]
    /\ matched' = [r \in Regexes |-> matched[r] \ {a}]
    /\ UNCHANGED <<known, find>>

\* cachedClearStrings()
ClearStrings ==
    /\ inMap # {}
    /\ content' = FreeUnused(inMap, Pinned)
    /\ inMap' = {} /\ strings' = {} /\ known' = {}
    /\ queue' = [r \in Regexes |-> {}]
    /\ matched' = [r \in Regexes |-> {}]
    /\ UNCHANGED find

\* cachedTrimStale(): the regexes not used since the expiry are evicted.
TrimStale(rs) ==
    /\ rs # {} /\ rs \subseteq known
    /\ ForgetRegexes(rs)
    /\ UNCHANGED <<content, inMap, find>>

-----------------------------------------------------------------------------
(***************************************************************************)
(* cachedFindMatchesSnapshot(), step by step between its locks.            *)
(***************************************************************************)
FinderAt(f, label) == find[f].pc = label

\* The lookup returns, and what it kept alive may be freed.
ReturnFound(f, out, want) ==
    /\ find' = [find EXCEPT ![f] = [NoFind EXCEPT !.pc = "returned",
                                                   !.out = out, !.want = want]]
    /\ content' = FreeUnused(find[f].alive \ inMap,
                     UNION {find[g].alive : g \in Finders \ {f}})

\* cachedFindMatchesCopyUnderSharedLock(): what the cache says it matched.
Found(r) == {content[a] : a \in matched[r]}
Wanted(r) == NamesInMap \cap Matches(r)

GetRegexKeys(f, r) ==
    /\ FinderAt(f, "idle")
    /\ find' = [find EXCEPT ![f].pc = "check", ![f].regex = r]
    /\ UNCHANGED <<content, inMap, cacheVars>>

\* Under the shared lock: the answer is ready, or the map is empty, or not.
CheckReady(f) ==
    LET r == find[f].regex
    IN  /\ FinderAt(f, "check")
        /\ \/ /\ IsReady(r)
              /\ ReturnFound(f, Found(r), Wanted(r))
           \/ /\ ~IsReady(r)
              /\ find' = [find EXCEPT ![f].pc =
                            IF inMap = {} THEN "locked" ELSE "pin"]
              /\ UNCHANGED content
        /\ UNCHANGED <<inMap, cacheVars>>

\* cachedFindMatches(): prepare under the exclusive lock, then copy.
FindLocked(f) ==
    LET r == find[f].regex
    IN  /\ FinderAt(f, "locked")
        /\ PrepareToFindMatches(r)
        /\ ReturnFound(f, {content[a] : a \in matched'[r]}, Wanted(r))
        /\ UNCHANGED inMap

\* Mutant: nothing is kept alive for the scan.
PinNothing(f) ==
    LET r == find[f].regex
    IN  /\ FinderAt(f, "pin") /\ ~IsReady(r)
        /\ find' = [find EXCEPT ![f].pc = "scan", ![f].handle = QueueOf(r)]
        /\ known' = known \cup {r}
        /\ queue' = [queue EXCEPT ![r] = QueueOf(r)]
        /\ UNCHANGED <<content, inMap, strings, matched>>

\* Under the exclusive lock: keep every entry alive, know the regex, and take
\* the strings queued for it (initPrepareToFindMatches()).
Pin(f) ==
    LET r == find[f].regex
    IN  /\ FinderAt(f, "pin")
        /\ \/ /\ IsReady(r)
              /\ ReturnFound(f, Found(r), Wanted(r))
              /\ UNCHANGED cacheVars
           \/ /\ ~IsReady(r)
              /\ find' = [find EXCEPT ![f].pc = "scan", ![f].alive = inMap,
                                      ![f].handle = QueueOf(r)]
              /\ known' = known \cup {r}
              /\ queue' = [queue EXCEPT ![r] = QueueOf(r)]
              /\ UNCHANGED <<content, strings, matched>>
        /\ UNCHANGED inMap

\* evaluate(), one string, with no lock held.
Scan(f, a) ==
    /\ FinderAt(f, "scan") /\ a \in find[f].handle
    /\ find' = [find EXCEPT ![f].handle = @ \ {a},
                            ![f].scanned = @ \cup {a},
                            ![f].hits = @ \cup Hits(find[f].regex, {a})]
    /\ UNCHANGED <<content, inMap, cacheVars>>

\* evaluate() throws: the regex is erased if it has not become ready.
ScanThrows(f) ==
    LET r == find[f].regex
    IN  /\ FinderAt(f, "scan") /\ find[f].handle # {}
        /\ IF IsReady(r) THEN UNCHANGED cacheVars ELSE ForgetRegexes({r})
        /\ ReturnFound(f, {}, {})
        /\ UNCHANGED inMap

\* Mutant: entries are let go once the scan is over, before it is published.
ScanEndsEarlyRelease(f) ==
    /\ FinderAt(f, "scan") /\ find[f].handle = {}
    /\ find' = [find EXCEPT ![f].pc = "publish", ![f].alive = {}]
    /\ content' = FreeUnused(find[f].alive \ inMap,
                     UNION {find[g].alive : g \in Finders \ {f}})
    /\ UNCHANGED <<inMap, cacheVars>>

\* The scan is over; the entries stay alive until its result is published.
ScanEnds(f) ==
    /\ FinderAt(f, "scan") /\ find[f].handle = {}
    /\ find' = [find EXCEPT ![f].pc = "publish"]
    /\ UNCHANGED <<content, inMap, cacheVars>>

\* Mutant: strings added during the scan are left in the queue.
PublishNoDrain(f) ==
    LET r == find[f].regex
        done == find[f].scanned \cap queue[r]
    IN  /\ FinderAt(f, "publish")
        /\ matched' = [matched EXCEPT ![r] = @ \cup (find[f].hits \cap done)]
        /\ queue' = [queue EXCEPT ![r] = @ \ done]
        /\ ReturnFound(f, {content[a] : a \in matched'[r]}, Wanted(r))
        /\ UNCHANGED <<inMap, strings, known>>

\* finiPrepareToFindMatches(): what was scanned and is still queued, by its
\* address, is settled.  What is left, or everything if the regex has been
\* evicted meanwhile, is looked at under the lock; then copy.
Publish(f) ==
    LET r == find[f].regex
        done == find[f].scanned \cap queue[r]
        left == QueueOf(r) \ done
    IN  /\ FinderAt(f, "publish")
        /\ matched' = [matched EXCEPT ![r] =
                         @ \cup (find[f].hits \cap done) \cup Hits(r, left)]
        /\ queue' = [queue EXCEPT ![r] = {}]
        /\ known' = known \cup {r}
        /\ ReturnFound(f, {content[a] : a \in matched'[r]}, Wanted(r))
        /\ UNCHANGED <<inMap, strings>>

\* The caller has used the result.
Done(f) ==
    /\ FinderAt(f, "returned")
    /\ find' = [find EXCEPT ![f] = NoFind]
    /\ UNCHANGED <<content, inMap, cacheVars>>

-----------------------------------------------------------------------------
FindStep(f) == \/ CheckReady(f) \/ FindLocked(f) \/ Pin(f) \/ ScanThrows(f)
               \/ ScanEnds(f) \/ Publish(f) \/ Done(f)
               \/ \E a \in Addrs : Scan(f, a)
               \/ \E r \in Regexes : GetRegexKeys(f, r)

MapStep == \/ \E a \in Addrs : \E n \in Keys : AddString(a, n)
           \/ \E a \in Addrs : EraseString(a)
           \/ \E a, b \in Addrs : ReplaceString(a, b)
           \/ ClearStrings
           \/ \E rs \in SUBSET Regexes : TrimStale(rs)

RegexNext == MapStep \/ \E f \in Finders : FindStep(f)

RegexSpec == RegexInit /\ [][RegexNext]_regexVars

-----------------------------------------------------------------------------
(***************************************************************************)
(* Properties.                                                             *)
(***************************************************************************)
FindType ==
    [pc : {"idle", "check", "locked", "pin", "scan", "publish", "returned"},
     regex : Regexes \cup {NoKey}, alive : SUBSET Addrs, handle : SUBSET Addrs,
     scanned : SUBSET Addrs, hits : SUBSET Addrs, out : SUBSET Keys,
     want : SUBSET Keys]

RegexTypeOK ==
    /\ content \in [Addrs -> Keys \cup {NoKey}]
    /\ inMap \subseteq Addrs
    /\ strings \subseteq Addrs
    /\ known \subseteq Regexes
    /\ queue \in [Regexes -> SUBSET Addrs]
    /\ matched \in [Regexes -> SUBSET Addrs]
    /\ find \in [Finders -> FindType]

(***************************************************************************)
(* "map and the cache's string universe staying in lockstep": the cache    *)
(* holds exactly the strings of the entries in the map, and per regex only *)
(* those, all of them allocated and with different names.                  *)
(***************************************************************************)
Lockstep ==
    /\ strings = inMap
    /\ \A a \in inMap : content[a] # NoKey
    /\ \A a, b \in inMap : content[a] = content[b] => a = b
    /\ \A r \in Regexes : /\ matched[r] \cup queue[r] \subseteq strings
                          /\ matched[r] \cap queue[r] = {}
                          /\ r \notin known => matched[r] = {} /\ queue[r] = {}

(***************************************************************************)
(* What the cache has settled for a regex is right for the string that is  *)
(* at the address now, although addresses are used again and results of    *)
(* scans are published by address ("would publish an unrelated counter as  *)
(* a match").                                                              *)
(***************************************************************************)
CacheCorrect ==
    \A r \in known : \A a \in strings \ queue[r] :
        a \in matched[r] <=> content[a] \in Matches(r)

(***************************************************************************)
(* The scan without a lock only looks at strings of live entries ("queued  *)
(* string pointers cannot dangle").                                        *)
(***************************************************************************)
ScanSeesLive == \A f \in Finders : \A a \in find[f].handle : content[a] # NoKey

(***************************************************************************)
(* getRegexKeys() returns exactly the names in the map that match at the   *)
(* time it copies them, whatever was added, erased or evicted during its   *)
(* scan.                                                                   *)
(***************************************************************************)
FindsExactly == \A f \in Finders : find[f].out = find[f].want

(***************************************************************************)
(* What makes them inductive: between pinning and publishing, and only     *)
(* then, a finder keeps entries alive; the strings it has taken are among  *)
(* them, they stay allocated, and what it found still holds of them.       *)
(***************************************************************************)
PinInv ==
    \A f \in Finders :
        /\ find[f].pc \notin {"idle", "returned"} => find[f].regex \in Regexes
        /\ find[f].pc \notin {"scan", "publish"} => find[f].alive = {}
        /\ find[f].handle \cup find[f].scanned \subseteq find[f].alive
        /\ find[f].hits = Hits(find[f].regex, find[f].scanned)
        /\ \A a \in find[f].alive : content[a] # NoKey

RegexInv == RegexTypeOK /\ Lockstep /\ CacheCorrect /\ PinInv /\ FindsExactly
=============================================================================
