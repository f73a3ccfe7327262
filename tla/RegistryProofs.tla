--------------------------- MODULE RegistryProofs ---------------------------
(***************************************************************************)
(* Proofs about the two parts of ThreadLocalStats.cpp: the registry of     *)
(* thread-local stats, for any threads, stats, names and updates, and the  *)
(* set of interned names (at the end), for any threads and addresses.      *)
(*                                                                         *)
(* The registry: callers keep an operation's stats to themselves, so the   *)
(* place an operation is at says in which state its stats are; the link's  *)
(* mutex keeps tlStats_ to one thread at a time; and as long as the        *)
(* container is there, what is registered or pending is what is linked.    *)
(***************************************************************************)
EXTENDS ThreadLocalStats, TLStatNameSet, FiniteSetTheorems, SequenceTheorems, TLAPS

\* The jobs left of a destructor, a move and a move assignment.
TakeJob(d, s)    == [do |-> "take", stat |-> d, from |-> s]
DestroyJobs(s)   == <<Job("unlink", s), Job("drop", s)>>
TakeJobs(d, s)   == <<TakeJob(d, s), Job("link", d)>>
AssignJobs(d, s) == <<Job("unlink", d), Job("unlink", s), TakeJob(d, s), Job("link", d)>>

\* The stats a list of jobs is about.
Uses(q) == ({q[i].stat : i \in DOMAIN q} \cup {q[i].from : i \in DOMAIN q}) \ {None}

\* Where a thread is in link() or unlink() of s, and the state s is then in.
LinkOK(t, s) ==
    /\ name[s] # None
    /\ \/ pc[t] \in {"start", "drain", "work", "deferred", "push"} /\ life[s] = "unlinked"
       \/ pc[t] = "unlock" /\ life[s] = "linked"
UnlinkOK(t, s) ==
    \/ pc[t] = "start" /\ life[s] # "none"
    \/ pc[t] \in {"deliver", "lock", "drain", "work"} /\ life[s] = "linked" /\ local[s] = {}
    \/ pc[t] = "unlock" /\ life[s] = "unlinked"

\* The jobs a thread has left, and the state of the stats they are about.
OneStat(t, s) ==
    \/ todo[t] = <<Job("link", s)>> /\ LinkOK(t, s)
    \/ todo[t] = <<Job("export", s)>> /\ pc[t] \in {"start", "drain", "work"}
       /\ life[s] = "linked"
    \/ todo[t] = DestroyJobs(s) /\ UnlinkOK(t, s)
    \/ todo[t] = <<Job("drop", s)>> /\ pc[t] = "start" /\ life[s] = "unlinked"
TwoStats(t, d, s) ==
    /\ d # s /\ name[s] # None
    /\ \/ todo[t] = AssignJobs(d, s) /\ UnlinkOK(t, d) /\ life[s] # "none"
       \/ todo[t] = MoveJobs(d, s) /\ UnlinkOK(t, s) /\ life[d] = "unlinked"
       \/ todo[t] = TakeJobs(d, s) /\ pc[t] = "start"
          /\ life[d] = "unlinked" /\ life[s] = "unlinked"
ThreadOK(t) ==
    \/ todo[t] = <<>> /\ pc[t] = "start"
    \/ \E s \in Stats : OneStat(t, s)
    \/ \E d, s \in Stats : TwoStats(t, d, s)
    \/ /\ todo[t] = <<Job("aggregate", None)>>
       /\ pc[t] \in {"start", "lock", "drain", "work", "deliver"}
    \/ /\ todo[t] = <<Job("close", None)>>
       /\ pc[t] \in {"start", "drain", "work", "unlock", "free"}
JobInv == \A t \in Threads : ThreadOK(t)

\* No two operations are about one stat.
OneUser == \A t, u \in Threads : t # u => Uses(todo[t]) \cap Uses(todo[u]) = {}

\* The mutex belongs to the thread inside.
Holds(t) == \/ pc[t] \in {"drain", "work", "unlock"}
            \/ pc[t] = "deliver" /\ Doing(t).do = "aggregate"
LockInv == \A t \in Threads : Holds(t) <=> mutex = t

\* A stat has a name exactly if it is linked, between operations; and only a
\* linked stat holds updates.
StatInv ==
    \A s \in Stats :
        /\ life[s] = "none" => name[s] = None
        /\ life[s] = "linked" => name[s] # None
        /\ life[s] = "unlinked" /\ name[s] # None => Busy(s)
        /\ life[s] # "linked" => local[s] = {}

\* What is registered or pending is what is linked, each stat once.
Linked == {s \in Stats : life[s] = "linked"}
RegInv ==
    container = "alive" =>
        /\ tlStats \cup Pending = Linked
        /\ tlStats \cap Pending = {}
        /\ \A i, j \in DOMAIN linkPending : i # j => linkPending[i] # linkPending[j]
        /\ tlStats # {} => ~tlStatsEmpty
        /\ \A t \in Threads : At(t, {"unlink"}, "work") => Doing(t).stat \in tlStats

\* The end of the container: one thread, and nobody else inside.
CloseInv ==
    /\ container # "alive" => users = {}
    /\ \A t \in Threads : Doing(t).do = "aggregate" => t \in users
    /\ \A t \in Threads : Doing(t).do = "close" =>
          /\ users = {}
          /\ pc[t] \in {"start", "drain", "work"} => container = "alive"
          /\ pc[t] \in {"unlock", "free"} => container = "detached"
          /\ \A u \in Threads : Doing(u).do = "close" => t = u

\* Updates are in hand between reset() and addValueAggregated() only.
HandInv ==
    \A t \in Threads :
        /\ inHand[t] # {} => pc[t] = "deliver"
        /\ At(t, {"aggregate"}, "deliver") => at[t] \in tlStats

\* References to the link: one for each stat, one for the container.
Existing == {s \in Stats : life[s] # "none"}
RefInv == refCount = Cardinality(Existing) + (IF container = "freed" THEN 0 ELSE 1)

\* An update made under a name is in the name's global stat, in a stat with the
\* name or in a hand that will deliver it there, and nowhere else.
InStat(s, n, u) == name[s] = n /\ u \in local[s]
InHand(t, n, u) == u \in inHand[t] /\ Meant(t) = n
PlaceInv ==
    \A n \in Names, u \in Updates :
        u \in added[n] <=> \/ u \in total[n]
                           \/ \E s \in Stats : InStat(s, n, u)
                           \/ \E t \in Threads : InHand(t, n, u)
OnceInv ==
    /\ \A s1, s2 \in Stats : s1 # s2 => local[s1] \cap local[s2] = {}
    /\ \A t1, t2 \in Threads : t1 # t2 => inHand[t1] \cap inHand[t2] = {}
    /\ \A t \in Threads, s \in Stats : inHand[t] \cap local[s] = {}
    /\ \A n \in Names : /\ \A s \in Stats : total[n] \cap local[s] = {}
                        /\ \A t \in Threads : total[n] \cap inHand[t] = {}

IInv == /\ TypeOK /\ JobInv /\ OneUser /\ LockInv /\ StatInv /\ RegInv
        /\ CloseInv /\ HandInv /\ RefInv /\ PlaceInv /\ OnceInv

-----------------------------------------------------------------------------
\* The jobs of a move assignment, as one list.
LEMMA FourJobs ==
  ASSUME NEW S, NEW a \in S, NEW b \in S, NEW c \in S, NEW d \in S
  PROVE  <<a>> \o <<b, c, d>> = <<a, b, c, d>>
<1> DEFINE x == <<a>>
           y == <<b, c, d>>
           z == <<a, b, c, d>>
<1>1. x \in Seq(S) /\ y \in Seq(S) /\ z \in Seq(S) OBVIOUS
<1>2. Len(x) = 1 /\ Len(y) = 3 OBVIOUS
<1>3. Len(x \o y) = 4 BY <1>1, <1>2
<1>4. \A i \in 1 .. 4 : (x \o y)[i] = IF i <= 1 THEN x[i] ELSE y[i - 1] BY <1>1, <1>2
<1>5. x \o y \in Seq(S) BY <1>1
<1>6. /\ z[1] = a /\ z[2] = b /\ z[3] = c /\ z[4] = d /\ Len(z) = 4
      /\ x[1] = a /\ y[1] = b /\ y[2] = c /\ y[3] = d
  OBVIOUS
<1>7. \A i \in 1 .. 4 : (x \o y)[i] = z[i] BY <1>4, <1>6
<1>8. x \o y = z
  <2> HIDE DEF x, y, z
  <2> QED BY <1>1, <1>3, <1>5, <1>6, <1>7, SeqEqual
<1> QED BY <1>8

\* What each list of jobs begins with, goes on with and is about.
LEMMA OneJob ==
  ASSUME NEW what, NEW s \in Stats \cup {None}
  PROVE  /\ <<Job(what, s)>> # <<>> /\ Len(<<Job(what, s)>>) = 1
         /\ Head(<<Job(what, s)>>) = Job(what, s) /\ Tail(<<Job(what, s)>>) = <<>>
         /\ Uses(<<Job(what, s)>>) = {s} \ {None} /\ Uses(<<>>) = {}
  BY DEF Uses, Job

\* The same for a destructor, what is left of a move, a move and an assignment.
LEMMA DestroyList ==
  ASSUME NEW s \in Stats
  PROVE  /\ DestroyJobs(s) # <<>> /\ Len(DestroyJobs(s)) = 2
         /\ Head(DestroyJobs(s)) = Job("unlink", s) /\ Tail(DestroyJobs(s)) = <<Job("drop", s)>>
         /\ Uses(DestroyJobs(s)) = {s} /\ Uses(Tail(DestroyJobs(s))) = {s}
  BY RegistryAssumption DEF DestroyJobs, Uses, Job

\* Take the other's name, then link.
LEMMA TakeList ==
  ASSUME NEW d \in Stats, NEW s \in Stats
  PROVE  /\ TakeJobs(d, s) # <<>> /\ Len(TakeJobs(d, s)) = 2
         /\ Head(TakeJobs(d, s)) = TakeJob(d, s) /\ Tail(TakeJobs(d, s)) = <<Job("link", d)>>
         /\ Uses(TakeJobs(d, s)) = {d, s} /\ Uses(Tail(TakeJobs(d, s))) = {d}
  BY RegistryAssumption DEF TakeJobs, TakeJob, Uses, Job

\* Unlink the other, then take.
LEMMA MoveList ==
  ASSUME NEW d \in Stats, NEW s \in Stats
  PROVE  /\ MoveJobs(d, s) # <<>> /\ Len(MoveJobs(d, s)) = 3
         /\ Head(MoveJobs(d, s)) = Job("unlink", s) /\ Tail(MoveJobs(d, s)) = TakeJobs(d, s)
         /\ Uses(MoveJobs(d, s)) = {d, s} /\ Uses(Tail(MoveJobs(d, s))) = {d, s}
  BY RegistryAssumption DEF MoveJobs, TakeJobs, TakeJob, Uses, Job

\* Unlink the target, then move.
LEMMA AssignList ==
  ASSUME NEW d \in Stats, NEW s \in Stats
  PROVE  /\ AssignJobs(d, s) # <<>> /\ Len(AssignJobs(d, s)) = 4
         /\ Head(AssignJobs(d, s)) = Job("unlink", d) /\ Tail(AssignJobs(d, s)) = MoveJobs(d, s)
         /\ Uses(AssignJobs(d, s)) = {d, s} /\ Uses(Tail(AssignJobs(d, s))) = {d, s}
  BY RegistryAssumption DEF AssignJobs, MoveJobs, TakeJob, Uses, Job

\* The jobs are of their type.
LEMMA JobTypes ==
  ASSUME NEW d \in Stats, NEW s \in Stats
  PROVE  /\ \A w \in {"link", "unlink", "drop", "export"} : Job(w, s) \in JobType
         /\ \A w \in {"aggregate", "close"} : Job(w, None) \in JobType
         /\ TakeJob(d, s) \in JobType
  BY DEF Job, TakeJob, JobType

\* So are the lists.
LEMMA ListTypes ==
  ASSUME NEW d \in Stats, NEW s \in Stats
  PROVE  /\ DestroyJobs(s) \in Seq(JobType) /\ MoveJobs(d, s) \in Seq(JobType)
         /\ AssignJobs(d, s) \in Seq(JobType)
<1>1. /\ Job("unlink", d) \in JobType /\ Job("unlink", s) \in JobType
      /\ TakeJob(d, s) \in JobType /\ Job("link", d) \in JobType
      /\ Job("drop", s) \in JobType
  BY JobTypes
<1>2. DestroyJobs(s) \in Seq(JobType) BY <1>1 DEF DestroyJobs
<1>3. MoveJobs(d, s) \in Seq(JobType) BY <1>1 DEF MoveJobs, TakeJob
<1>4. AssignJobs(d, s) \in Seq(JobType) BY <1>1 DEF AssignJobs
<1> QED BY <1>2, <1>3, <1>4

\* A stat is busy when it is one that some thread's jobs are about.
LEMMA BusyIs ==
  ASSUME NEW s \in Stats
  PROVE  Busy(s) <=> \E t \in Threads : s \in Uses(todo[t])
  BY RegistryAssumption DEF Busy, Uses

\* What the job a thread is doing says about the thread.
LEMMA Places ==
  ASSUME NEW t \in Threads, ThreadOK(t)
  PROVE  /\ todo[t] = <<>> => Doing(t) = NoJob /\ pc[t] = "start" /\ Uses(todo[t]) = {}
         /\ todo[t] # <<>> => Doing(t) = Head(todo[t])
         /\ todo[t] = <<>> <=> Doing(t).do = "none"
         /\ Doing(t).do \in {"none", "link", "unlink", "take", "drop", "export",
                             "aggregate", "close"}
         /\ Doing(t).do = "link" => \E s \in Stats :
               Doing(t).stat = s /\ todo[t] = <<Job("link", s)>> /\ LinkOK(t, s)
               /\ Uses(todo[t]) = {s} /\ Tail(todo[t]) = <<>> /\ Len(todo[t]) = 1
         /\ Doing(t).do = "unlink" => \E s \in Stats :
               Doing(t).stat = s /\ UnlinkOK(t, s) /\ s \in Uses(todo[t])
               /\ Uses(Tail(todo[t])) = Uses(todo[t]) /\ Len(todo[t]) # 1
               /\ Doing(t) = Job("unlink", s)
         /\ Doing(t).do = "take" => \E d, s \in Stats :
               Doing(t) = TakeJob(d, s) /\ todo[t] = TakeJobs(d, s) /\ d # s
               /\ pc[t] = "start" /\ life[d] = "unlinked" /\ life[s] = "unlinked"
               /\ name[s] # None
         /\ Doing(t).do = "drop" => \E s \in Stats :
               Doing(t).stat = s /\ todo[t] = <<Job("drop", s)>> /\ pc[t] = "start"
               /\ life[s] = "unlinked"
         /\ Doing(t).do = "export" => \E s \in Stats :
               Doing(t).stat = s /\ todo[t] = <<Job("export", s)>> /\ life[s] = "linked"
               /\ pc[t] \in {"start", "drain", "work"}
         /\ Doing(t).do = "aggregate" =>
               todo[t] = <<Job("aggregate", None)>>
               /\ pc[t] \in {"start", "lock", "drain", "work", "deliver"}
         /\ Doing(t).do = "close" =>
               todo[t] = <<Job("close", None)>>
               /\ pc[t] \in {"start", "drain", "work", "unlock", "free"}
<1>1. CASE todo[t] = <<>> /\ pc[t] = "start"
  BY <1>1 DEF Doing, NoJob, Job, Uses
<1>2. CASE todo[t] = <<Job("aggregate", None)>>
           /\ pc[t] \in {"start", "lock", "drain", "work", "deliver"}
  BY <1>2, OneJob DEF Doing, Job
<1>3. CASE todo[t] = <<Job("close", None)>>
           /\ pc[t] \in {"start", "drain", "work", "unlock", "free"}
  BY <1>3, OneJob DEF Doing, Job
<1>4. CASE \E s \in Stats : OneStat(t, s)
  <2>1. PICK s \in Stats : OneStat(t, s) BY <1>4
  <2>2. CASE todo[t] = <<Job("link", s)>> /\ LinkOK(t, s)
    BY <2>2, OneJob, RegistryAssumption DEF Job, Doing
  <2>3. CASE todo[t] = <<Job("export", s)>> /\ pc[t] \in {"start", "drain", "work"}
             /\ life[s] = "linked"
    BY OneJob, <2>3 DEF Job, Doing
  <2>4. CASE todo[t] = DestroyJobs(s) /\ UnlinkOK(t, s)
    <3>1. /\ todo[t] # <<>> /\ Len(todo[t]) = 2 /\ Head(todo[t]) = Job("unlink", s)
          /\ Uses(todo[t]) = {s} /\ Uses(Tail(todo[t])) = {s}
      BY <2>4, DestroyList
    <3> QED BY <2>4, <3>1 DEF Job, Doing
  <2>5. CASE todo[t] = <<Job("drop", s)>> /\ pc[t] = "start" /\ life[s] = "unlinked"
    BY OneJob, <2>5 DEF Job, Doing
  <2> QED BY <2>1, <2>2, <2>3, <2>4, <2>5 DEF OneStat
<1>5. CASE \E d, s \in Stats : TwoStats(t, d, s)
  <2>1. PICK d \in Stats, s \in Stats : TwoStats(t, d, s) BY <1>5
  <2>2. CASE todo[t] = AssignJobs(d, s) /\ UnlinkOK(t, d)
    <3>1. /\ todo[t] # <<>> /\ Len(todo[t]) = 4 /\ Head(todo[t]) = Job("unlink", d)
          /\ Uses(todo[t]) = {d, s} /\ Uses(Tail(todo[t])) = {d, s}
      BY <2>2, AssignList
    <3> QED BY <2>2, <3>1 DEF Job, Doing
  <2>3. CASE todo[t] = MoveJobs(d, s) /\ UnlinkOK(t, s)
    <3>1. /\ todo[t] # <<>> /\ Len(todo[t]) = 3 /\ Head(todo[t]) = Job("unlink", s)
          /\ Uses(todo[t]) = {d, s} /\ Uses(Tail(todo[t])) = {d, s}
      BY <2>3, MoveList
    <3> QED BY <2>3, <3>1 DEF Job, Doing
  <2>4. CASE /\ todo[t] = TakeJobs(d, s) /\ pc[t] = "start"
             /\ life[d] = "unlinked" /\ life[s] = "unlinked"
    <3>1. todo[t] # <<>> /\ Head(todo[t]) = TakeJob(d, s)
      BY <2>4, TakeList
    <3>2. Doing(t) = TakeJob(d, s) BY <3>1 DEF Doing
    <3> QED BY <2>1, <2>4, <3>1, <3>2 DEF TakeJob, TwoStats
  <2> QED BY <2>1, <2>2, <2>3, <2>4 DEF TwoStats
<1> QED BY <1>1, <1>2, <1>3, <1>4, <1>5 DEF ThreadOK

-----------------------------------------------------------------------------
(***************************************************************************)
(* Frames: what a step of t leaves alone.                                  *)
(***************************************************************************)
Others(t) == \A u \in Threads \ {t} : todo'[u] = todo[u] /\ pc'[u] = pc[u]
Same(s) == life'[s] = life[s] /\ name'[s] = name[s] /\ local'[s] \subseteq local[s]

\* The stats of an operation, and what is left of it after an unlink().
LEMMA OneStatUses ==
  ASSUME NEW t \in Threads, NEW s \in Stats, OneStat(t, s)
  PROVE  Uses(todo[t]) = {s}
<1>1. s # None BY RegistryAssumption
<1>2. \A w : Uses(<<Job(w, s)>>) = {s} BY <1>1, OneJob
<1>3. Uses(DestroyJobs(s)) = {s} BY DestroyList
<1> QED BY <1>2, <1>3 DEF OneStat

\* The same for the operations that move.
LEMMA TwoStatsUses ==
  ASSUME NEW t \in Threads, NEW d \in Stats, NEW s \in Stats, TwoStats(t, d, s)
  PROVE  /\ Uses(todo[t]) = {d, s}
         /\ \A x \in Stats : Head(todo[t]) = Job("unlink", x) =>
                   \/ /\ todo[t] = AssignJobs(d, s) /\ Tail(todo[t]) = MoveJobs(d, s)
                      /\ x = d /\ life[s] # "none"
                   \/ /\ todo[t] = MoveJobs(d, s) /\ Tail(todo[t]) = TakeJobs(d, s)
                      /\ x = s /\ life[d] = "unlinked"
<1>1. CASE todo[t] = AssignJobs(d, s) /\ life[s] # "none"
  <2>1. Uses(todo[t]) = {d, s} /\ Tail(todo[t]) = MoveJobs(d, s)
        /\ Head(todo[t]) = Job("unlink", d)
    BY <1>1, AssignList
  <2> QED BY <1>1, <2>1 DEF Job
<1>2. CASE todo[t] = MoveJobs(d, s) /\ life[d] = "unlinked"
  <2>1. Uses(todo[t]) = {d, s} /\ Tail(todo[t]) = TakeJobs(d, s)
        /\ Head(todo[t]) = Job("unlink", s)
    BY <1>2, MoveList
  <2> QED BY <1>2, <2>1 DEF Job
<1>3. CASE todo[t] = TakeJobs(d, s)
  <2>1. Uses(todo[t]) = {d, s} /\ Head(todo[t]) = TakeJob(d, s)
    BY <1>3, TakeList
  <2>2. \A x : TakeJob(d, s) # Job("unlink", x) BY DEF Job, TakeJob
  <2> QED BY <2>1, <2>2
<1> QED BY <1>1, <1>2, <1>3 DEF TwoStats

\* A thread stays where it is, with its stats as they were.
LEMMA ThreadFrame ==
  ASSUME NEW u \in Threads, ThreadOK(u), todo'[u] = todo[u], pc'[u] = pc[u],
         \A s \in Uses(todo[u]) : Same(s)
  PROVE  ThreadOK(u)'
<1>1. CASE \E s \in Stats : OneStat(u, s)
  <2>1. PICK s \in Stats : OneStat(u, s) BY <1>1
  <2>2. Same(s) BY <2>1, OneStatUses
  <2>3. OneStat(u, s)' BY <2>1, <2>2 DEF OneStat, LinkOK, UnlinkOK, Same
  <2> QED BY <2>3 DEF ThreadOK
<1>2. CASE \E d, s \in Stats : TwoStats(u, d, s)
  <2>1. PICK d \in Stats, s \in Stats : TwoStats(u, d, s) BY <1>2
  <2>2. Uses(todo[u]) = {d, s} BY <2>1, TwoStatsUses
  <2>3. Same(d) /\ Same(s) BY <2>2
  <2>4. TwoStats(u, d, s)' BY <2>1, <2>3 DEF TwoStats, UnlinkOK, Same
  <2> QED BY <2>4 DEF ThreadOK
<1> QED BY <1>1, <1>2 DEF ThreadOK

\* A thread goes on in the same job, or is done with unlinking s.
LEMMA UnlinkGoesOn ==
  ASSUME NEW t \in Threads, ThreadOK(t), NEW s \in Stats, Doing(t) = Job("unlink", s),
         todo'[t] = todo[t], UnlinkOK(t, s)', name'[s] = name[s],
         \A x \in Uses(todo[t]) \ {s} : Same(x)
  PROVE  ThreadOK(t)'
<1>0. todo[t] # <<>> /\ Head(todo[t]) = Job("unlink", s)
  BY Places DEF Job, NoJob
<1>1. CASE \E x \in Stats : OneStat(t, x)
  <2>1. PICK x \in Stats : OneStat(t, x) BY <1>1
  <2>2. todo[t] = DestroyJobs(x) /\ Head(todo[t]) = Job("unlink", x)
    BY <1>0, <2>1, OneJob, DestroyList DEF OneStat, Job
  <2>3. x = s BY <1>0, <2>2 DEF Job
  <2>4. OneStat(t, s)' BY <2>2, <2>3 DEF OneStat
  <2> QED BY <2>4 DEF ThreadOK
<1>2. CASE \E d, x \in Stats : TwoStats(t, d, x)
  <2>1. PICK d \in Stats, x \in Stats : TwoStats(t, d, x) BY <1>2
  <2>2. Uses(todo[t]) = {d, x} /\ d # x /\ name[x] # None BY <2>1, TwoStatsUses DEF TwoStats
  <2>3. \/ todo[t] = AssignJobs(d, x) /\ d = s /\ life[x] # "none" /\ x # s
        \/ todo[t] = MoveJobs(d, x) /\ x = s /\ life[d] = "unlinked" /\ d # s
    BY <1>0, <2>1, <2>2, TwoStatsUses
  <2>4. TwoStats(t, d, x)' BY <2>1, <2>2, <2>3 DEF TwoStats, Same
  <2> QED BY <2>4 DEF ThreadOK
<1>3. CASE todo[t] \in {<<Job("aggregate", None)>>, <<Job("close", None)>>}
  BY <1>0, <1>3, OneJob DEF Job
<1> QED BY <1>0, <1>1, <1>2, <1>3 DEF ThreadOK

\* The same for the end of the job: the stat is unlinked.
LEMMA UnlinkEnds ==
  ASSUME NEW t \in Threads, ThreadOK(t), NEW s \in Stats, Doing(t) = Job("unlink", s),
         todo'[t] = Tail(todo[t]), pc'[t] = "start", life'[s] = "unlinked",
         name'[s] = name[s], \A x \in Uses(todo[t]) \ {s} : Same(x)
  PROVE  ThreadOK(t)'
<1>0. todo[t] # <<>> /\ Head(todo[t]) = Job("unlink", s)
  BY Places DEF Job, NoJob
<1>1. CASE \E x \in Stats : OneStat(t, x)
  <2>1. PICK x \in Stats : OneStat(t, x) BY <1>1
  <2>2. todo[t] = DestroyJobs(x) /\ Head(todo[t]) = Job("unlink", x)
    BY <1>0, <2>1, OneJob, DestroyList DEF OneStat, Job
  <2>3. x = s BY <1>0, <2>2 DEF Job
  <2>4. todo'[t] = <<Job("drop", s)>> BY <2>2, <2>3, DestroyList
  <2>5. OneStat(t, s)' BY <2>4 DEF OneStat
  <2> QED BY <2>5 DEF ThreadOK
<1>2. CASE \E d, x \in Stats : TwoStats(t, d, x)
  <2>1. PICK d \in Stats, x \in Stats : TwoStats(t, d, x) BY <1>2
  <2>2. Uses(todo[t]) = {d, x} /\ d # x /\ name[x] # None BY <2>1, TwoStatsUses DEF TwoStats
  <2>4. \/ todo'[t] = MoveJobs(d, x) /\ d = s /\ life[x] # "none" /\ x # s
        \/ todo'[t] = TakeJobs(d, x) /\ x = s /\ life[d] = "unlinked" /\ d # s
    BY <1>0, <2>1, <2>2, TwoStatsUses
  <2>5. TwoStats(t, d, x)' BY <2>1, <2>2, <2>4 DEF TwoStats, Same, UnlinkOK
  <2> QED BY <2>5 DEF ThreadOK
<1>3. CASE todo[t] \in {<<Job("aggregate", None)>>, <<Job("close", None)>>}
  BY <1>0, <1>3, OneJob DEF Job
<1> QED BY <1>0, <1>1, <1>2, <1>3 DEF ThreadOK

\* A thread whose jobs are about a stat is not aggregating or closing.
LEMMA UsesNone ==
  ASSUME NEW t \in Threads, ThreadOK(t)', Uses(todo'[t]) # {}
  PROVE  Doing(t)'.do \notin {"close", "aggregate"}
<1>1. \A w : Uses(<<Job(w, None)>>) = {} BY OneJob
<1>2. ThreadOK(t)' => (Doing(t)'.do \in {"close", "aggregate"} =>
                          \E w : todo'[t] = <<Job(w, None)>>)
  <2>1. CASE (\E s \in Stats : OneStat(t, s))'
    <3>1. PICK s \in Stats : OneStat(t, s)' BY <2>1
    <3>2. Head(todo'[t]).do \notin {"close", "aggregate"} /\ todo'[t] # <<>>
      BY <3>1, OneJob, DestroyList DEF OneStat, Job
    <3> QED BY <3>2 DEF Doing
  <2>2. CASE (\E d, s \in Stats : TwoStats(t, d, s))'
    <3>1. PICK d \in Stats, s \in Stats : TwoStats(t, d, s)' BY <2>2
    <3>2. Head(todo'[t]).do \notin {"close", "aggregate"} /\ todo'[t] # <<>>
      BY <3>1, TakeList, MoveList, AssignList DEF TwoStats, Job, TakeJob
    <3> QED BY <3>2 DEF Doing
  <2>3. CASE todo'[t] = <<>> BY <2>3 DEF Doing, NoJob, Job
  <2> QED BY <2>1, <2>2, <2>3 DEF ThreadOK
<1> QED BY <1>1, <1>2

\* Jobs are about stats.
LEMMA UsesStats ==
  ASSUME IInv, NEW t \in Threads
  PROVE  Uses(todo[t]) \subseteq Stats
<1>1. todo[t] \in Seq(JobType) BY DEF IInv, TypeOK
<1>2. \A i \in DOMAIN todo[t] : todo[t][i] \in JobType BY <1>1
<1> QED BY <1>2 DEF Uses, JobType

\* Every other thread stays where it is, and shares no stat with t.
LEMMA JobFrame ==
  ASSUME IInv, NEW t \in Threads, Others(t), ThreadOK(t)',
         \A s \in Uses(todo'[t]) : s \in Uses(todo[t]) \/ (s \in Stats /\ ~Busy(s)),
         \A s \in Stats : Same(s) \/ s \in Uses(todo[t]) \/ ~Busy(s)
  PROVE  JobInv' /\ OneUser'
<1>1. \A u \in Threads : ThreadOK(u) BY DEF IInv, JobInv
<1>2. \A u \in Threads : Uses(todo[u]) \subseteq Stats BY UsesStats
<1>3. ASSUME NEW u \in Threads \ {t} PROVE ThreadOK(u)'
  <2>1. \A s \in Uses(todo[u]) : Same(s)
    BY <1>2, <1>3, BusyIs DEF IInv, OneUser
  <2> QED BY <1>1, <2>1, ThreadFrame DEF Others
<1>4. JobInv' BY <1>3 DEF JobInv
<1>5. OneUser'
  <2>1. ASSUME NEW u \in Threads \ {t} PROVE Uses(todo'[t]) \cap Uses(todo[u]) = {}
    BY <1>2, <2>1, BusyIs DEF IInv, OneUser
  <2> QED BY <2>1 DEF IInv, OneUser, Others
<1> QED BY <1>4, <1>5

\* The mutex is taken, kept or given back by the thread that steps.
LEMMA LockFrame ==
  ASSUME IInv, NEW t \in Threads, Others(t),
         \/ mutex' = mutex /\ (Holds(t)' <=> Holds(t))
         \/ mutex = None /\ mutex' = t /\ Holds(t)'
         \/ mutex = t /\ mutex' = None /\ ~Holds(t)'
  PROVE  LockInv'
<1>1. \A u \in Threads \ {t} : Holds(u)' <=> Holds(u) BY DEF Others, Holds, Doing
<1>2. None \notin Threads BY RegistryAssumption
<1> QED BY <1>1, <1>2 DEF IInv, LockInv

\* The other threads' jobs are what they were.
LEMMA DoingFrame ==
  ASSUME NEW t \in Threads, Others(t), NEW u \in Threads \ {t}
  PROVE  Doing(u)' = Doing(u) /\ pc'[u] = pc[u] /\ todo'[u] = todo[u]
  BY DEF Others, Doing

\* The registry itself does not change.
LEMMA RegFrame ==
  ASSUME IInv, NEW t \in Threads, Others(t), ~At(t, {"unlink"}, "work")',
         UNCHANGED <<container, regVars, Linked>>
  PROVE  RegInv'
<1>1. \A u \in Threads : At(u, {"unlink"}, "work")' =>
          At(u, {"unlink"}, "work") /\ Doing(u)' = Doing(u)
  BY DoingFrame DEF At
<1>2. tlStats' = tlStats /\ Pending' = Pending /\ Linked' = Linked
      /\ linkPending' = linkPending /\ tlStatsEmpty' = tlStatsEmpty /\ container' = container
  BY DEF regVars, Pending
<1> QED BY <1>1, <1>2 DEF IInv, RegInv

\* Nobody starts to use or to close the container.
LEMMA CloseFrame ==
  ASSUME IInv, NEW t \in Threads, Others(t), UNCHANGED container,
         users' \subseteq users, users \ {t} \subseteq users',
         Doing(t)'.do = "aggregate" => t \in users',
         Doing(t)'.do = "close" =>
             /\ Doing(t).do = "close"
             /\ pc'[t] \in {"start", "drain", "work"} => container = "alive"
             /\ pc'[t] \in {"unlock", "free"} => container = "detached"
  PROVE  CloseInv'
<1>1. \A u \in Threads \ {t} : Doing(u)' = Doing(u) /\ pc'[u] = pc[u] BY DoingFrame
<1>2. container # "alive" => users = {} BY DEF IInv, CloseInv
<1>3. \A u \in Threads : Doing(u)'.do = "aggregate" => u \in users'
  BY <1>1 DEF IInv, CloseInv
<1>4. \A u \in Threads : Doing(u)'.do = "close" => Doing(u).do = "close" BY <1>1
<1>5. \A u \in Threads : Doing(u)'.do = "close" =>
          /\ users' = {}
          /\ pc'[u] \in {"start", "drain", "work"} => container' = "alive"
          /\ pc'[u] \in {"unlock", "free"} => container' = "detached"
          /\ \A v \in Threads : Doing(v)'.do = "close" => u = v
  BY <1>1, <1>4 DEF IInv, CloseInv
<1> QED BY <1>2, <1>3, <1>5 DEF CloseInv

\* The stat whose updates a thread has in hand.
MeantStat(t) == IF Doing(t).do = "aggregate" THEN at[t] ELSE Doing(t).stat

\* Updates in hand are meant for the name of a linked stat.
LEMMA MeantIs ==
  ASSUME IInv, NEW t \in Threads, pc[t] = "deliver"
  PROVE  /\ MeantStat(t) \in Stats /\ life[MeantStat(t)] = "linked"
         /\ Doing(t).do \in {"aggregate", "unlink"}
         /\ Doing(t).do = "unlink" => MeantStat(t) \in Uses(todo[t])
         /\ Meant(t) = name[MeantStat(t)] /\ Meant(t) \in Names
<1>1. ThreadOK(t) BY DEF IInv, JobInv
<1>2. Doing(t).do \in {"aggregate", "unlink"}
  <2>1. Doing(t).do # "link" BY <1>1, Places DEF LinkOK
  <2>2. Doing(t).do # "take" BY <1>1, Places
  <2>3. Doing(t).do \notin {"none", "drop", "export", "close"} BY <1>1, Places
  <2>4. Doing(t).do \in {"none", "link", "unlink", "take", "drop", "export",
                         "aggregate", "close"}
    BY <1>1, Places
  <2> QED BY <2>1, <2>2, <2>3, <2>4
<1>3. CASE Doing(t).do = "aggregate"
  <2>1. at[t] \in tlStats BY <1>3 DEF IInv, HandInv, At
  <2>2. container = "alive" BY <1>3 DEF IInv, CloseInv
  <2>3. at[t] \in Linked BY <2>1, <2>2 DEF IInv, RegInv
  <2> QED BY <1>3, <2>3 DEF Linked, MeantStat, Meant, IInv, StatInv, TypeOK
<1>4. CASE Doing(t).do = "unlink"
  <2>1. PICK s \in Stats : Doing(t).stat = s /\ UnlinkOK(t, s) /\ s \in Uses(todo[t])
    BY <1>1, <1>4, Places
  <2> QED BY <1>4, <2>1 DEF MeantStat, Meant, UnlinkOK, IInv, StatInv, TypeOK
<1> QED BY <1>2, <1>3, <1>4

\* Nothing is taken or delivered, and only stats without updates, which are not
\* linked, are renamed.
LEMMA DataFrame ==
  ASSUME IInv, NEW t \in Threads, Others(t), inHand[t] = {},
         \A s \in Stats : name'[s] = name[s] \/ (local[s] = {} /\ life[s] # "linked"),
         UNCHANGED <<dataVars, inHand, at>>
  PROVE  PlaceInv' /\ OnceInv'
<1>1. ASSUME NEW u \in Threads \ {t}, inHand[u] # {} PROVE Meant(u)' = Meant(u)
  <2>1. pc[u] = "deliver" BY <1>1 DEF IInv, HandInv
  <2>2. MeantStat(u) \in Stats /\ life[MeantStat(u)] = "linked" BY <2>1, MeantIs
  <2>3. name'[MeantStat(u)] = name[MeantStat(u)] BY <2>2
  <2>4. Doing(u)' = Doing(u) BY DoingFrame
  <2> QED BY <2>3, <2>4 DEF Meant, MeantStat
<1>2. \A u \in Threads : \A n \in Names, x \in Updates :
          InHand(u, n, x)' <=> InHand(u, n, x)
  BY <1>1 DEF InHand
<1>3. \A s \in Stats : \A n \in Names, x \in Updates :
          InStat(s, n, x)' <=> InStat(s, n, x)
  BY DEF InStat, dataVars
<1>4. PlaceInv' BY <1>2, <1>3 DEF IInv, PlaceInv, dataVars
<1>5. OnceInv' BY DEF IInv, OnceInv, dataVars
<1> QED BY <1>4, <1>5

\* Updates stay in hand as they are.
LEMMA HandFrame ==
  ASSUME IInv, NEW t \in Threads, Others(t), inHand'[t] = {}, pc'[t] # "deliver",
         UNCHANGED <<tlStats, inHand, at>>
  PROVE  HandInv'
  BY DoingFrame DEF IInv, HandInv, At

\* A stat that changes is fit to be left, or t still has to do with it.
StatKept(t, s) ==
    /\ Same(s)
    /\ s \in Uses(todo[t]) => \/ s \in Uses(todo'[t])
                              \/ life[s] # "unlinked" \/ name[s] = None
StatFit(t, s) ==
    /\ life'[s] = "none" => name'[s] = None
    /\ life'[s] = "linked" => name'[s] # None
    /\ life'[s] = "unlinked" /\ name'[s] # None => s \in Uses(todo'[t])
    /\ life'[s] # "linked" => local'[s] = {}

\* Then the stats are in order.
LEMMA StatFrame ==
  ASSUME IInv, NEW t \in Threads, Others(t),
         \A s \in Stats : StatKept(t, s) \/ StatFit(t, s)
  PROVE  StatInv'
<1>1. \A u \in Threads \ {t} : Uses(todo[u])' = Uses(todo[u]) BY DEF Others, Uses
<1>2. ASSUME NEW s \in Stats, NEW u \in Threads, s \in Uses(todo'[u]) PROVE Busy(s)'
  BY <1>2, RegistryAssumption DEF Busy, Uses
<1>3. ASSUME NEW s \in Stats, StatKept(t, s), life'[s] = "unlinked", name'[s] # None
      PROVE  Busy(s)'
  <2>1. Busy(s) /\ life[s] = "unlinked" /\ name[s] # None
    BY <1>3 DEF StatKept, Same, IInv, StatInv
  <2>2. PICK u \in Threads : s \in Uses(todo[u]) BY <2>1, BusyIs
  <2>3. s \in Uses(todo'[u]) BY <1>1, <1>3, <2>1, <2>2 DEF StatKept, Uses
  <2> QED BY <1>2, <2>3
<1>4. ASSUME NEW s \in Stats, StatKept(t, s)
      PROVE  /\ life'[s] = "none" => name'[s] = None
             /\ life'[s] = "linked" => name'[s] # None
             /\ life'[s] # "linked" => local'[s] = {}
  BY <1>4 DEF StatKept, Same, IInv, StatInv
<1> QED BY <1>2, <1>3, <1>4 DEF StatFit, StatInv

\* A step that moves t, takes or gives back the mutex, and nothing else.
LEMMA QuietStep ==
  ASSUME IInv, NEW t \in Threads, TypeOK', CloseInv', Others(t), ThreadOK(t)',
         \A s \in Uses(todo'[t]) : s \in Uses(todo[t]) \/ (s \in Stats /\ ~Busy(s)),
         \A s \in Uses(todo[t]) : \/ s \in Uses(todo'[t])
                                  \/ life[s] # "unlinked" \/ name[s] = None,
         \/ mutex' = mutex /\ (Holds(t)' <=> Holds(t))
         \/ mutex = None /\ mutex' = t /\ Holds(t)'
         \/ mutex = t /\ mutex' = None /\ ~Holds(t)',
         pc[t] # "deliver", pc'[t] # "deliver", ~At(t, {"unlink"}, "work")',
         UNCHANGED <<container, regVars, refCount, life, name, dataVars, inHand, at>>
  PROVE  IInv'
<1>1. inHand[t] = {} BY DEF IInv, HandInv
<1>2. \A s \in Stats : Same(s) BY DEF Same, dataVars
<1>3. JobInv' /\ OneUser' BY <1>2, JobFrame
<1>4. LockInv' BY LockFrame
<1>5. StatInv' BY <1>2, StatFrame DEF StatKept
<1>6. RegInv' BY RegFrame DEF Linked
<1>7. HandInv' BY <1>1, HandFrame DEF regVars
<1>8. RefInv' BY DEF IInv, RefInv, Existing
<1>9. PlaceInv' /\ OnceInv' BY <1>1, DataFrame
<1> QED BY <1>3, <1>4, <1>5, <1>6, <1>7, <1>8, <1>9 DEF IInv

-----------------------------------------------------------------------------
(***************************************************************************)
(* The calls.                                                              *)
(***************************************************************************)
\* A thread that is idle begins an operation.
LEMMA BeginFacts ==
  ASSUME IInv, NEW t \in Threads, NEW q \in Seq(JobType), q # <<>>, Begin(t, q)
  PROVE  /\ Others(t) /\ todo'[t] = q /\ pc'[t] = "start" /\ pc[t] = "start"
         /\ Doing(t).do = "none" /\ Doing(t)' = Head(q) /\ Uses(todo[t]) = {}
         /\ todo' \in [Threads -> Seq(JobType)] /\ calls' \in Nat /\ inHand[t] = {}
         /\ Holds(t)' <=> Holds(t)
         /\ ~At(t, {"unlink"}, "work")'
<1>1. todo[t] = <<>> /\ ThreadOK(t) BY DEF IInv, JobInv, Begin, Idle
<1>2. pc[t] = "start" /\ Doing(t).do = "none" /\ Uses(todo[t]) = {} BY <1>1, Places
<1>3. /\ Others(t) /\ todo'[t] = q /\ pc' = pc
      /\ todo' \in [Threads -> Seq(JobType)] /\ calls' \in Nat
  BY DEF Begin, IInv, TypeOK, Others
<1>4. Doing(t)' = Head(q) BY <1>3 DEF Doing
<1>5. inHand[t] = {} BY <1>2 DEF IInv, HandInv
<1> QED BY <1>2, <1>3, <1>4, <1>5 DEF Holds, At

\* Operations on stats that exist: a destructor, an assignment, an export.
LEMMA ExportStatIInv ==
  ASSUME IInv, NEW t \in Threads, NEW s \in Stats, ExportStat(t, s)
  PROVE  IInv'
<1> DEFINE q == <<Job("export", s)>>
<1>1. /\ q \in Seq(JobType) /\ q # <<>> /\ Begin(t, q) /\ Uses(q) = {s}
      /\ Head(q) = Job("export", s)
  BY JobTypes, OneJob, RegistryAssumption DEF ExportStat
<1> HIDE DEF q
<1>2. /\ Others(t) /\ todo'[t] = q /\ pc'[t] = "start" /\ pc[t] = "start"
      /\ Doing(t)' = Job("export", s) /\ Uses(todo[t]) = {} /\ ~At(t, {"unlink"}, "work")'
      /\ todo' \in [Threads -> Seq(JobType)] /\ calls' \in Nat /\ (Holds(t)' <=> Holds(t))
  BY <1>1, BeginFacts
<1>3. /\ UNCHANGED <<container, regVars, refCount, life, name, dataVars, inHand, at>>
      /\ UNCHANGED <<mutex, users, pc, visited>> /\ life[s] = "linked" /\ ~Busy(s)
  BY DEF ExportStat, Begin, walkVars, IInv, StatInv, TypeOK
<1>4. TypeOK' BY <1>2, <1>3 DEF IInv, TypeOK, regVars, dataVars
<1>5. CloseInv' BY <1>2, <1>3, CloseFrame DEF Job
<1>6. ThreadOK(t)'
  <2>1. OneStat(t, s)' BY <1>2, <1>3 DEF OneStat, q
  <2> QED BY <2>1 DEF ThreadOK
<1> QED BY <1>1, <1>2, <1>3, <1>4, <1>5, <1>6, QuietStep

\* ~TLTimeseriesT()
LEMMA DestroyIInv ==
  ASSUME IInv, NEW t \in Threads, NEW s \in Stats, Destroy(t, s)
  PROVE  IInv'
<1> DEFINE q == DestroyJobs(s)
<1>1. /\ q \in Seq(JobType) /\ q # <<>> /\ Begin(t, q) /\ Uses(q) = {s}
      /\ Head(q) = Job("unlink", s)
  <2>1. Begin(t, q) BY DEF Destroy, DestroyJobs
  <2> QED BY <2>1, ListTypes, DestroyList
<1> HIDE DEF q
<1>2. /\ Others(t) /\ todo'[t] = q /\ pc'[t] = "start" /\ pc[t] = "start"
      /\ Doing(t)' = Job("unlink", s) /\ Uses(todo[t]) = {} /\ ~At(t, {"unlink"}, "work")'
      /\ todo' \in [Threads -> Seq(JobType)] /\ calls' \in Nat /\ (Holds(t)' <=> Holds(t))
  BY <1>1, BeginFacts
<1>3. /\ UNCHANGED <<container, regVars, refCount, life, name, dataVars, inHand, at>>
      /\ UNCHANGED <<mutex, users, pc, visited>> /\ life[s] # "none" /\ ~Busy(s)
  BY DEF Destroy, Begin, walkVars
<1>4. TypeOK' BY <1>2, <1>3 DEF IInv, TypeOK, regVars, dataVars
<1>5. CloseInv' BY <1>2, <1>3, CloseFrame DEF Job
<1>6. ThreadOK(t)'
  <2>1. OneStat(t, s)' BY <1>2, <1>3 DEF OneStat, UnlinkOK, q
  <2> QED BY <2>1 DEF ThreadOK
<1> QED BY <1>1, <1>2, <1>3, <1>4, <1>5, <1>6, QuietStep

\* operator=(TLTimeseriesT&&)
LEMMA MoveAssignIInv ==
  ASSUME IInv, NEW t \in Threads, NEW d \in Stats, NEW s \in Stats, MoveAssign(t, d, s)
  PROVE  IInv'
<1> DEFINE q == AssignJobs(d, s)
<1>1. /\ q \in Seq(JobType) /\ q # <<>> /\ Uses(q) = {d, s} /\ Head(q) = Job("unlink", d)
  BY ListTypes, AssignList
<1>2. Begin(t, q)
  <2>1. /\ Job("unlink", d) \in JobType /\ Job("unlink", s) \in JobType
        /\ TakeJob(d, s) \in JobType /\ Job("link", d) \in JobType
    BY JobTypes
  <2>2. <<Job("unlink", d)>> \o <<Job("unlink", s), TakeJob(d, s), Job("link", d)>> = q
    BY <2>1, FourJobs DEF AssignJobs
  <2> QED BY <2>2 DEF MoveAssign, MoveJobs, TakeJob
<1> HIDE DEF q
<1>3. /\ Others(t) /\ todo'[t] = q /\ pc'[t] = "start" /\ pc[t] = "start"
      /\ Doing(t)' = Job("unlink", d) /\ Uses(todo[t]) = {} /\ ~At(t, {"unlink"}, "work")'
      /\ todo' \in [Threads -> Seq(JobType)] /\ calls' \in Nat /\ (Holds(t)' <=> Holds(t))
  BY <1>1, <1>2, BeginFacts
<1>4. /\ UNCHANGED <<container, regVars, refCount, life, name, dataVars, inHand, at>>
      /\ UNCHANGED <<mutex, users, pc, visited>> /\ ~Busy(d) /\ ~Busy(s)
      /\ life[s] # "none" /\ life[d] # "none" /\ name[s] # None /\ d # s
  BY DEF MoveAssign, Begin, walkVars
<1>5. TypeOK' BY <1>3, <1>4 DEF IInv, TypeOK, regVars, dataVars
<1>6. CloseInv' BY <1>3, <1>4, CloseFrame DEF Job
<1>7. ThreadOK(t)'
  <2>1. TwoStats(t, d, s)' BY <1>3, <1>4 DEF TwoStats, UnlinkOK, q
  <2> QED BY <2>1 DEF ThreadOK
<1> QED BY <1>1, <1>3, <1>4, <1>5, <1>6, <1>7, QuietStep

\* aggregate() begins: its caller keeps the container alive.
LEMMA AggregateIInv ==
  ASSUME IInv, NEW t \in Threads, Aggregate(t)
  PROVE  IInv'
<1> DEFINE q == <<Job("aggregate", None)>>
<1>1. /\ q \in Seq(JobType) /\ q # <<>> /\ Begin(t, q) /\ Uses(q) = {}
      /\ Head(q) = Job("aggregate", None)
  <2>1. Job("aggregate", None) \in JobType BY DEF Job, JobType
  <2> QED BY <2>1, OneJob DEF Aggregate
<1> HIDE DEF q
<1>2. /\ Others(t) /\ todo'[t] = q /\ pc'[t] = "start" /\ pc[t] = "start"
      /\ Doing(t)' = Job("aggregate", None) /\ Uses(todo[t]) = {}
      /\ ~At(t, {"unlink"}, "work")' /\ (Holds(t)' <=> Holds(t))
      /\ todo' \in [Threads -> Seq(JobType)] /\ calls' \in Nat
  BY <1>1, BeginFacts
<1>3. /\ UNCHANGED <<container, regVars, refCount, life, name, dataVars, inHand, at>>
      /\ UNCHANGED <<mutex, pc, visited>> /\ users' = users \cup {t} /\ Usable
  BY DEF Aggregate, Begin, walkVars
<1>4. TypeOK' BY <1>2, <1>3 DEF IInv, TypeOK, regVars, dataVars
<1>5. CloseInv'
  <2>1. \A u \in Threads : Doing(u)'.do # "close" BY <1>2, <1>3, DoingFrame DEF Usable, Job
  <2>2. \A u \in Threads \ {t} : Doing(u)' = Doing(u) BY <1>2, DoingFrame
  <2> QED BY <1>3, <2>1, <2>2 DEF IInv, CloseInv, Usable
<1>6. ThreadOK(t)' BY <1>2 DEF ThreadOK, q
<1> QED BY <1>1, <1>2, <1>3, <1>4, <1>5, <1>6, QuietStep

\* ~ThreadLocalStatsT() begins: nobody uses the container.
LEMMA CloseIInv ==
  ASSUME IInv, NEW t \in Threads, Close(t)
  PROVE  IInv'
<1> DEFINE q == <<Job("close", None)>>
<1>1. /\ q \in Seq(JobType) /\ q # <<>> /\ Begin(t, q) /\ Uses(q) = {}
      /\ Head(q) = Job("close", None)
  <2>1. Job("close", None) \in JobType BY DEF Job, JobType
  <2> QED BY <2>1, OneJob DEF Close
<1> HIDE DEF q
<1>2. /\ Others(t) /\ todo'[t] = q /\ pc'[t] = "start" /\ pc[t] = "start"
      /\ Doing(t)' = Job("close", None) /\ Uses(todo[t]) = {}
      /\ ~At(t, {"unlink"}, "work")' /\ (Holds(t)' <=> Holds(t))
      /\ todo' \in [Threads -> Seq(JobType)] /\ calls' \in Nat
  BY <1>1, BeginFacts
<1>3. /\ UNCHANGED <<container, regVars, refCount, life, name, dataVars, inHand, at>>
      /\ UNCHANGED <<mutex, pc, visited>> /\ users' = users /\ Usable /\ users = {}
  BY DEF Close, Begin, walkVars
<1>4. TypeOK' BY <1>2, <1>3 DEF IInv, TypeOK, regVars, dataVars
<1>5. CloseInv'
  <2>1. \A u \in Threads \ {t} : Doing(u)' = Doing(u) /\ Doing(u).do # "close"
    BY <1>2, <1>3, DoingFrame DEF Usable
  <2>2. Doing(t)'.do = "close" /\ container = "alive" BY <1>2, <1>3 DEF Job, Usable
  <2> QED BY <1>2, <1>3, <2>1, <2>2 DEF IInv, CloseInv
<1>6. ThreadOK(t)' BY <1>2 DEF ThreadOK, q
<1> QED BY <1>1, <1>2, <1>3, <1>4, <1>5, <1>6, QuietStep

\* The number of existing stats, when one is constructed or destroyed.
LEMMA ExistingCount ==
  ASSUME IInv, NEW s \in Stats
  PROVE  /\ IsFiniteSet(Existing) /\ Cardinality(Existing) \in Nat
         /\ s \notin Existing => Cardinality(Existing \cup {s}) = Cardinality(Existing) + 1
         /\ s \in Existing => Cardinality(Existing \ {s}) = Cardinality(Existing) - 1
<1>1. IsFiniteSet(Existing) BY RegistryAssumption, FS_Subset DEF Existing
<1> QED BY <1>1, FS_AddElement, FS_RemoveElement, FS_CardinalityType

\* A constructor of TLTimeseriesT, up to postInit().
LEMMA ConstructIInv ==
  ASSUME IInv, NEW t \in Threads, NEW s \in Stats, NEW n \in Names, Construct(t, s, n)
  PROVE  IInv'
<1> DEFINE q == <<Job("link", s)>>
<1>1. /\ q \in Seq(JobType) /\ q # <<>> /\ Begin(t, q) /\ Uses(q) = {s}
      /\ Head(q) = Job("link", s)
  BY JobTypes, OneJob, RegistryAssumption DEF Construct
<1> HIDE DEF q
<1>2. /\ Others(t) /\ todo'[t] = q /\ pc'[t] = "start" /\ pc[t] = "start"
      /\ Doing(t)' = Job("link", s) /\ Uses(todo[t]) = {} /\ ~At(t, {"unlink"}, "work")'
      /\ todo' \in [Threads -> Seq(JobType)] /\ calls' \in Nat /\ (Holds(t)' <=> Holds(t))
      /\ inHand[t] = {}
  BY <1>1, BeginFacts
<1>3. /\ UNCHANGED <<container, regVars, dataVars, inHand, at, mutex, pc, visited>>
      /\ life[s] = "none" /\ ~Busy(s) /\ Usable /\ refCount' = refCount + 1
      /\ life' = [life EXCEPT ![s] = "unlinked"] /\ name' = [name EXCEPT ![s] = n]
      /\ users' = users \cup {t}
  BY DEF Construct, Begin, walkVars
<1>4. /\ life'[s] = "unlinked" /\ name'[s] = n /\ n # None
      /\ \A x \in Stats \ {s} : Same(x) /\ life'[x] = life[x] /\ name'[x] = name[x]
  BY <1>3, RegistryAssumption DEF IInv, TypeOK, Same, dataVars
<1>5. name[s] = None /\ local[s] = {} BY <1>3 DEF IInv, StatInv
<1>6. TypeOK' BY <1>2, <1>3 DEF IInv, TypeOK, regVars, dataVars
<1>7. ThreadOK(t)'
  <2>1. OneStat(t, s)' BY <1>2, <1>4 DEF OneStat, LinkOK, q
  <2> QED BY <2>1 DEF ThreadOK
<1>8. JobInv' /\ OneUser' BY <1>1, <1>2, <1>3, <1>4, <1>7, JobFrame
<1>9. LockInv' BY <1>2, <1>3, LockFrame
<1>10. StatInv'
  <2>1. StatFit(t, s) BY <1>1, <1>2, <1>3, <1>4, <1>5 DEF StatFit, dataVars
  <2>2. \A x \in Stats \ {s} : StatKept(t, x) BY <1>2, <1>4 DEF StatKept
  <2> QED BY <1>2, <2>1, <2>2, StatFrame
<1>11. RegInv'
  <2>1. Linked' = Linked BY <1>3, <1>4 DEF Linked
  <2> QED BY <1>2, <1>3, <2>1, RegFrame
<1>12. CloseInv'
  <2>1. \A u \in Threads : Doing(u)'.do # "close" BY <1>2, <1>3, DoingFrame DEF Usable, Job
  <2>2. \A u \in Threads \ {t} : Doing(u)' = Doing(u) BY <1>2, DoingFrame
  <2>3. Doing(t)'.do = "link" BY <1>2 DEF Job
  <2> QED BY <1>3, <2>1, <2>2, <2>3 DEF IInv, CloseInv, Usable
<1>13. HandInv' BY <1>2, <1>3, HandFrame DEF regVars
<1>14. RefInv'
  <2>1. Existing' = Existing \cup {s} /\ s \notin Existing BY <1>3, <1>4 DEF Existing
  <2>2. /\ Cardinality(Existing') = Cardinality(Existing) + 1
        /\ Cardinality(Existing) \in Nat
    BY <2>1, ExistingCount
  <2> QED BY <1>3, <2>2 DEF IInv, RefInv
<1>15. PlaceInv' /\ OnceInv'
  <2>1. \A x \in Stats : name'[x] = name[x] \/ (local[x] = {} /\ life[x] # "linked")
    BY <1>3, <1>4, <1>5
  <2> QED BY <1>2, <1>3, <2>1, DataFrame
<1> QED
  BY <1>6, <1>8, <1>9, <1>10, <1>11, <1>12, <1>13, <1>14, <1>15 DEF IInv

\* TLTimeseriesT(TLTimeseriesT&& other): d shares the link from the start.
LEMMA MoveConstructIInv ==
  ASSUME IInv, NEW t \in Threads, NEW d \in Stats, NEW s \in Stats, MoveConstruct(t, d, s)
  PROVE  IInv'
<1> DEFINE q == MoveJobs(d, s)
<1>1. /\ q \in Seq(JobType) /\ q # <<>> /\ Begin(t, q) /\ Uses(q) = {d, s}
      /\ Head(q) = Job("unlink", s)
  <2>1. Begin(t, q) BY DEF MoveConstruct
  <2> QED BY <2>1, ListTypes, MoveList
<1> HIDE DEF q
<1>2. /\ Others(t) /\ todo'[t] = q /\ pc'[t] = "start" /\ pc[t] = "start"
      /\ Doing(t)' = Job("unlink", s) /\ Uses(todo[t]) = {} /\ ~At(t, {"unlink"}, "work")'
      /\ todo' \in [Threads -> Seq(JobType)] /\ calls' \in Nat /\ (Holds(t)' <=> Holds(t))
      /\ inHand[t] = {}
  BY <1>1, BeginFacts
<1>3. /\ UNCHANGED <<container, regVars, dataVars, inHand, at, mutex, pc, visited, name, users>>
      /\ life[d] = "none" /\ ~Busy(d) /\ ~Busy(s) /\ refCount' = refCount + 1
      /\ life' = [life EXCEPT ![d] = "unlinked"] /\ life[s] # "none" /\ name[s] # None
  BY DEF MoveConstruct, Begin, walkVars
<1>4. /\ life'[d] = "unlinked" /\ d # s
      /\ \A x \in Stats \ {d} : Same(x) /\ life'[x] = life[x] /\ name'[x] = name[x]
  BY <1>3 DEF IInv, TypeOK, Same, dataVars
<1>5. name[d] = None /\ local[d] = {} BY <1>3 DEF IInv, StatInv
<1>6. TypeOK' BY <1>2, <1>3 DEF IInv, TypeOK, regVars, dataVars
<1>7. ThreadOK(t)'
  <2>1. TwoStats(t, d, s)' BY <1>2, <1>3, <1>4 DEF TwoStats, UnlinkOK, q
  <2> QED BY <2>1 DEF ThreadOK
<1>8. JobInv' /\ OneUser' BY <1>1, <1>2, <1>3, <1>4, <1>7, JobFrame
<1>9. LockInv' BY <1>2, <1>3, LockFrame
<1>10. StatInv'
  <2>1. StatFit(t, d) BY <1>3, <1>4, <1>5 DEF StatFit, dataVars
  <2>2. \A x \in Stats \ {d} : StatKept(t, x) BY <1>2, <1>4 DEF StatKept
  <2> QED BY <1>2, <2>1, <2>2, StatFrame
<1>11. RegInv'
  <2>1. Linked' = Linked BY <1>3, <1>4 DEF Linked
  <2> QED BY <1>2, <1>3, <2>1, RegFrame
<1>12. CloseInv' BY <1>2, <1>3, CloseFrame DEF Job
<1>13. HandInv' BY <1>2, <1>3, HandFrame DEF regVars
<1>14. RefInv'
  <2>1. Existing' = Existing \cup {d} /\ d \notin Existing BY <1>3, <1>4 DEF Existing
  <2>2. /\ Cardinality(Existing') = Cardinality(Existing) + 1
        /\ Cardinality(Existing) \in Nat
    BY <2>1, ExistingCount
  <2> QED BY <1>3, <2>2 DEF IInv, RefInv
<1>15. PlaceInv' /\ OnceInv' BY <1>2, <1>3, DataFrame
<1> QED
  BY <1>6, <1>8, <1>9, <1>10, <1>11, <1>12, <1>13, <1>14, <1>15 DEF IInv

\* addValue(): an update nobody has made yet, to a stat nobody operates on.
LEMMA AddValueIInv ==
  ASSUME IInv, NEW t \in Threads, NEW s \in Stats, NEW u \in Updates, AddValue(t, s, u)
  PROVE  IInv'
<1> DEFINE n == name[s]
<1>1. /\ UNCHANGED <<container, mutex, regVars, refCount, life, name, total,
                     todo, pc, inHand, at, visited, users, calls>>
      /\ ~Busy(s) /\ life[s] # "none" /\ n \in Names /\ n # None
      /\ \A m \in Names : u \notin added[m]
      /\ local' = [local EXCEPT ![s] = @ \cup {u}]
      /\ added' = [added EXCEPT ![n] = @ \cup {u}]
  BY DEF AddValue, walkVars, IInv, TypeOK
<1>2. life[s] = "linked" BY <1>1 DEF IInv, StatInv, TypeOK
<1>3. /\ local'[s] = local[s] \cup {u} /\ \A x \in Stats \ {s} : local'[x] = local[x]
      /\ added'[n] = added[n] \cup {u} /\ \A m \in Names \ {n} : added'[m] = added[m]
  BY <1>1 DEF IInv, TypeOK
<1>4. TypeOK' BY <1>1 DEF IInv, TypeOK, regVars
<1>5. Others(t) BY <1>1 DEF Others
<1>6. JobInv' /\ OneUser'
  <2>1. \A v \in Threads : ThreadOK(v)'
    <3> SUFFICES ASSUME NEW v \in Threads PROVE ThreadOK(v)'
      OBVIOUS
    <3>1. todo[v] \in Seq(JobType) /\ ThreadOK(v) BY DEF IInv, TypeOK, JobInv
    <3>2. Uses(todo[v]) \subseteq Stats \ {s}
      BY <1>1, UsesStats, BusyIs
    <3>3. \A x \in Uses(todo[v]) : Same(x) BY <1>1, <1>3, <3>2 DEF Same
    <3> QED BY <1>1, <3>1, <3>3, ThreadFrame
  <2> QED BY <1>1, <2>1 DEF JobInv, IInv, OneUser
<1>7. LockInv' BY <1>1 DEF IInv, LockInv, Holds, Doing
<1>8. StatInv'
  <2>1. \A x \in Stats : Busy(x)' <=> Busy(x) BY <1>1 DEF Busy
  <2> QED BY <1>1, <1>2, <1>3, <2>1 DEF IInv, StatInv
<1>9. RegInv' BY <1>1 DEF IInv, RegInv, Linked, Pending, At, Doing, regVars
<1>10. CloseInv' BY <1>1 DEF IInv, CloseInv, Doing
<1>11. HandInv' BY <1>1 DEF IInv, HandInv, At, Doing, regVars
<1>12. RefInv' BY <1>1 DEF IInv, RefInv, Existing
<1>13. /\ \A x \in Stats : u \notin local[x]
       /\ \A v \in Threads : u \notin inHand[v]
       /\ \A m \in Names : u \notin total[m]
  <2>1. \A x \in Stats : local[x] # {} => name[x] \in Names
    BY DEF IInv, StatInv, TypeOK
  <2>2. \A x \in Stats : u \notin local[x] BY <1>1, <2>1 DEF IInv, PlaceInv, InStat
  <2>3. \A v \in Threads : inHand[v] # {} => Meant(v) \in Names
    BY MeantIs DEF IInv, HandInv
  <2>4. \A v \in Threads : u \notin inHand[v] BY <1>1, <2>3 DEF IInv, PlaceInv, InHand
  <2> QED BY <1>1, <2>2, <2>4 DEF IInv, PlaceInv
<1>14. PlaceInv'
  <2> SUFFICES ASSUME NEW m \in Names, NEW w \in Updates
               PROVE  w \in added'[m] <=> \/ w \in total'[m]
                                          \/ \E x \in Stats : InStat(x, m, w)'
                                          \/ \E v \in Threads : InHand(v, m, w)'
    BY DEF PlaceInv
  <2>1. \A v \in Threads : InHand(v, m, w)' <=> InHand(v, m, w)
    BY <1>1 DEF InHand, Meant, Doing
  <2>2. \A x \in Stats \ {s} : InStat(x, m, w)' <=> InStat(x, m, w)
    BY <1>1, <1>3 DEF InStat
  <2>3. InStat(s, m, w)' <=> InStat(s, m, w) \/ (m = n /\ w = u)
    BY <1>1, <1>3 DEF InStat
  <2>4. w \in added[m] <=> \/ w \in total[m]
                           \/ \E x \in Stats : InStat(x, m, w)
                           \/ \E v \in Threads : InHand(v, m, w)
    BY DEF IInv, PlaceInv
  <2>5. w \in added'[m] <=> w \in added[m] \/ (m = n /\ w = u) BY <1>3
  <2>6. (\E x \in Stats : InStat(x, m, w)') <=>
           (\E x \in Stats : InStat(x, m, w)) \/ (m = n /\ w = u)
    BY <2>2, <2>3
  <2>7. (\E v \in Threads : InHand(v, m, w)') <=> (\E v \in Threads : InHand(v, m, w))
    BY <2>1
  <2> QED BY <1>1, <2>4, <2>5, <2>6, <2>7
<1>15. OnceInv' BY <1>1, <1>3, <1>13 DEF IInv, OnceInv
<1> QED
  BY <1>4, <1>6, <1>7, <1>8, <1>9, <1>10, <1>11, <1>12, <1>14, <1>15 DEF IInv

-----------------------------------------------------------------------------
(***************************************************************************)
(* Steps that only move their thread.                                      *)
(***************************************************************************)
Labels == {"start", "lock", "drain", "work", "deliver", "deferred", "push", "unlock", "free"}

\* The thread goes on in its job.
LEMMA GotoFacts ==
  ASSUME IInv, NEW t \in Threads, NEW label \in Labels, Goto(t, label)
  PROVE  /\ Others(t) /\ todo'[t] = todo[t] /\ Doing(t)' = Doing(t) /\ pc'[t] = label
         /\ todo' \in [Threads -> Seq(JobType)] /\ pc' \in [Threads -> Labels]
         /\ todo' = todo
  BY DEF Goto, IInv, TypeOK, Others, Labels, Doing

\* The thread is done with its job.
LEMMA ReturnFacts ==
  ASSUME IInv, NEW t \in Threads, todo[t] # <<>>, Return(t)
  PROVE  /\ Others(t) /\ todo'[t] = Tail(todo[t]) /\ pc'[t] = "start"
         /\ todo' \in [Threads -> Seq(JobType)] /\ pc' \in [Threads -> Labels]
         /\ users' \subseteq users /\ users \ {t} \subseteq users'
         /\ Len(todo[t]) # 1 => users' = users
         /\ ~Holds(t)' /\ ~At(t, {"unlink"}, "work")'
<1>1. Tail(todo[t]) \in Seq(JobType) BY DEF IInv, TypeOK
<1> QED BY <1>1 DEF Return, IInv, TypeOK, Others, Labels, Holds, At

\* The same for the last job of an operation.
LEMMA ReturnLast ==
  ASSUME IInv, NEW t \in Threads, Return(t),
         Doing(t).do \in {"link", "drop", "export", "aggregate", "close"}
  PROVE  /\ todo[t] # <<>> /\ todo'[t] = <<>> /\ ThreadOK(t)' /\ Uses(todo'[t]) = {}
         /\ Doing(t)' = NoJob
<1>1. ThreadOK(t) BY DEF IInv, JobInv
<1>2. todo[t] # <<>> BY <1>1, Places
<1>3. \E s \in Stats \cup {None} : todo[t] = <<Job(Doing(t).do, s)>>
  <2>1. CASE Doing(t).do = "link" BY <1>1, <2>1, Places
  <2>2. CASE Doing(t).do = "drop" BY <1>1, <2>2, Places
  <2>3. CASE Doing(t).do = "export" BY <1>1, <2>3, Places
  <2>4. CASE Doing(t).do \in {"aggregate", "close"} BY <1>1, <2>4, Places
  <2> QED BY <2>1, <2>2, <2>3, <2>4
<1>4. Tail(todo[t]) = <<>> BY <1>3, OneJob
<1>5. todo'[t] = <<>> /\ pc'[t] = "start" BY <1>2, <1>4, ReturnFacts
<1> QED BY <1>2, <1>5, OneJob DEF ThreadOK, Doing

\* The places of a job where its stat is in one state.
LEMMA StaysOK ==
  ASSUME IInv, NEW t \in Threads, todo'[t] = todo[t],
         \A s \in Uses(todo[t]) : life'[s] = life[s] /\ name'[s] = name[s]
                                  /\ local'[s] \subseteq local[s],
         \/ /\ Doing(t).do = "link"
            /\ {pc[t], pc'[t]} \subseteq {"start", "drain", "work", "deferred", "push"}
         \/ /\ Doing(t).do = "unlink"
            /\ {pc[t], pc'[t]} \subseteq {"deliver", "lock", "drain", "work"}
         \/ /\ Doing(t).do = "export" /\ pc'[t] \in {"start", "drain", "work"}
         \/ /\ Doing(t).do = "aggregate"
            /\ pc'[t] \in {"start", "lock", "drain", "work", "deliver"}
         \/ /\ Doing(t).do = "close"
            /\ pc'[t] \in {"start", "drain", "work", "unlock", "free"}
  PROVE  ThreadOK(t)'
<1>1. ThreadOK(t) BY DEF IInv, JobInv
<1>2. \A s \in Uses(todo[t]) : Same(s) BY DEF Same
<1>3. CASE Doing(t).do = "link"
  <2>1. PICK s \in Stats : todo[t] = <<Job("link", s)>> /\ LinkOK(t, s) /\ s \in Uses(todo[t])
    BY <1>1, <1>3, Places
  <2>2. OneStat(t, s)' BY <1>3, <2>1 DEF OneStat, LinkOK
  <2> QED BY <2>2 DEF ThreadOK
<1>4. CASE Doing(t).do = "unlink"
  <2>1. PICK s \in Stats : Doing(t) = Job("unlink", s) /\ UnlinkOK(t, s) /\ s \in Uses(todo[t])
    BY <1>1, <1>4, Places
  <2>2. UnlinkOK(t, s)' BY <1>4, <2>1 DEF UnlinkOK
  <2> QED BY <1>1, <1>2, <2>1, <2>2, UnlinkGoesOn
<1>5. CASE Doing(t).do = "export"
  <2>1. PICK s \in Stats : todo[t] = <<Job("export", s)>> /\ life[s] = "linked"
    BY <1>1, <1>5, Places
  <2>2. s \in Uses(todo[t]) BY <2>1, OneJob, RegistryAssumption
  <2>3. OneStat(t, s)' BY <1>5, <2>1, <2>2 DEF OneStat
  <2> QED BY <2>3 DEF ThreadOK
<1>6. CASE Doing(t).do \in {"aggregate", "close"}
  BY <1>1, <1>6, Places DEF ThreadOK
<1> QED BY <1>3, <1>4, <1>5, <1>6

\* TLStatLink::lock()
LEMMA LockIInv ==
  ASSUME IInv, NEW t \in Threads, Lock(t)
  PROVE  IInv'
<1>1. /\ UNCHANGED <<container, regVars, refCount, life, name, dataVars, inHand, at>>
      /\ UNCHANGED <<visited, users, calls>> /\ mutex = None /\ mutex' = t
      /\ Goto(t, "drain") /\ pc[t] \in {"start", "lock"}
      /\ Doing(t).do \in {"unlink", "aggregate"} => pc[t] = "lock"
      /\ Doing(t).do \in {"unlink", "aggregate", "export", "close"}
  BY DEF Lock, walkVars, At
<1>2. /\ Others(t) /\ todo'[t] = todo[t] /\ Doing(t)' = Doing(t) /\ pc'[t] = "drain"
      /\ todo' \in [Threads -> Seq(JobType)] /\ pc' \in [Threads -> Labels]
  BY <1>1, GotoFacts DEF Labels
<1>3. TypeOK' BY <1>1, <1>2 DEF IInv, TypeOK, regVars, dataVars, Labels
<1>4. ThreadOK(t)' BY <1>1, <1>2, StaysOK DEF dataVars
<1>5. CloseInv'
  <2>1. Doing(t).do = "close" => container = "alive"
    BY <1>1, Places DEF IInv, CloseInv, JobInv
  <2>2. Doing(t).do = "aggregate" => t \in users BY DEF IInv, CloseInv
  <2> QED BY <1>1, <1>2, <2>1, <2>2, CloseFrame
<1>6. Holds(t)' BY <1>2 DEF Holds
<1> QED BY <1>1, <1>2, <1>3, <1>4, <1>5, <1>6, QuietStep DEF At

\* TLStatLink::try_lock()
LEMMA TryLockIInv ==
  ASSUME IInv, NEW t \in Threads, TryLock(t)
  PROVE  IInv'
<1>1. /\ UNCHANGED <<container, regVars, refCount, life, name, dataVars, inHand, at>>
      /\ UNCHANGED <<visited, users, calls>> /\ pc[t] = "start" /\ Doing(t).do = "link"
      /\ \/ mutex = None /\ mutex' = t /\ Goto(t, "drain")
         \/ mutex' = mutex /\ Goto(t, "deferred")
  BY DEF TryLock, walkVars, At
<1>2. /\ Others(t) /\ todo'[t] = todo[t] /\ Doing(t)' = Doing(t)
      /\ \/ mutex = None /\ mutex' = t /\ pc'[t] = "drain"
         \/ mutex' = mutex /\ pc'[t] = "deferred"
      /\ todo' \in [Threads -> Seq(JobType)] /\ pc' \in [Threads -> Labels]
  BY <1>1, GotoFacts DEF Labels
<1>3. TypeOK' BY <1>1, <1>2 DEF IInv, TypeOK, regVars, dataVars, Labels
<1>4. ThreadOK(t)' BY <1>1, <1>2, StaysOK DEF dataVars
<1>5. CloseInv' BY <1>1, <1>2, CloseFrame
<1>6. \/ mutex' = mutex /\ (Holds(t)' <=> Holds(t))
      \/ mutex = None /\ mutex' = t /\ Holds(t)'
  BY <1>1, <1>2 DEF Holds
<1> QED BY <1>1, <1>2, <1>3, <1>4, <1>5, <1>6, QuietStep DEF At

\* link() sees the container: it will leave the stat on the pending list.
LEMMA DeferredPushIInv ==
  ASSUME IInv, NEW t \in Threads, Deferred(t), container = "alive"
  PROVE  IInv'
<1>1. /\ UNCHANGED <<container, regVars, refCount, life, name, dataVars, inHand, at>>
      /\ UNCHANGED <<visited, users, calls, mutex>>
      /\ pc[t] = "deferred" /\ Doing(t).do = "link" /\ Goto(t, "push")
  BY DEF Deferred, walkVars, At
<1>2. /\ Others(t) /\ todo'[t] = todo[t] /\ Doing(t)' = Doing(t) /\ pc'[t] = "push"
      /\ todo' \in [Threads -> Seq(JobType)] /\ pc' \in [Threads -> Labels]
  BY <1>1, GotoFacts DEF Labels
<1>3. TypeOK' BY <1>1, <1>2 DEF IInv, TypeOK, regVars, dataVars, Labels
<1>4. ThreadOK(t)' BY <1>1, <1>2, StaysOK DEF dataVars
<1>5. CloseInv' BY <1>1, <1>2, CloseFrame
<1>6. Holds(t)' <=> Holds(t) BY <1>1, <1>2 DEF Holds
<1> QED BY <1>1, <1>2, <1>3, <1>4, <1>5, <1>6, QuietStep DEF At

\* aggregate() looks at the flag, outside of the lock.
LEMMA ReadEmptyIInv ==
  ASSUME IInv, NEW t \in Threads, ReadEmpty(t)
  PROVE  IInv'
<1>1. /\ UNCHANGED <<container, regVars, refCount, life, name, dataVars, inHand, at>>
      /\ UNCHANGED <<visited, calls, mutex>>
      /\ pc[t] = "start" /\ Doing(t).do = "aggregate"
      /\ Return(t) \/ (Goto(t, "lock") /\ UNCHANGED users)
  BY DEF ReadEmpty, walkVars, At
<1>2. Uses(todo[t]) = {} /\ t \in users
  <2>1. todo[t] = <<Job("aggregate", None)>> BY <1>1, Places DEF IInv, JobInv
  <2> QED BY <1>1, <2>1, OneJob DEF IInv, CloseInv
<1>3. CASE Return(t)
  <2>1. /\ todo[t] # <<>> /\ todo'[t] = <<>> /\ ThreadOK(t)' /\ Uses(todo'[t]) = {}
        /\ Doing(t)' = NoJob
    BY <1>1, <1>3, ReturnLast
  <2>2. /\ Others(t) /\ pc'[t] = "start" /\ users' \subseteq users
        /\ users \ {t} \subseteq users' /\ ~Holds(t)' /\ ~At(t, {"unlink"}, "work")'
        /\ todo' \in [Threads -> Seq(JobType)] /\ pc' \in [Threads -> Labels]
    BY <1>3, <2>1, ReturnFacts
  <2>3. TypeOK' BY <1>1, <2>2 DEF IInv, TypeOK, regVars, dataVars, Labels
  <2>4. CloseInv' BY <1>1, <2>1, <2>2, CloseFrame DEF NoJob, Job
  <2>5. ~Holds(t) BY <1>1 DEF Holds
  <2> QED BY <1>1, <1>2, <2>1, <2>2, <2>3, <2>4, <2>5, QuietStep
<1>4. CASE Goto(t, "lock") /\ UNCHANGED users
  <2>1. /\ Others(t) /\ todo'[t] = todo[t] /\ Doing(t)' = Doing(t) /\ pc'[t] = "lock"
        /\ todo' \in [Threads -> Seq(JobType)] /\ pc' \in [Threads -> Labels]
    BY <1>4, GotoFacts DEF Labels
  <2>2. TypeOK' BY <1>1, <1>4, <2>1 DEF IInv, TypeOK, regVars, dataVars, Labels
  <2>3. ThreadOK(t)' BY <1>1, <2>1, StaysOK DEF dataVars
  <2>4. CloseInv' BY <1>1, <1>2, <1>4, <2>1, CloseFrame
  <2>5. Holds(t)' <=> Holds(t) BY <1>1, <2>1 DEF Holds
  <2> QED BY <1>1, <1>4, <2>1, <2>2, <2>3, <2>4, <2>5, QuietStep DEF At
<1> QED BY <1>1, <1>3, <1>4

\* The guard goes out of scope, at the end of whatever was done with the lock.
LEMMA UnlockIInv ==
  ASSUME IInv, NEW t \in Threads, Unlock(t)
  PROVE  IInv'
<1>1. /\ UNCHANGED <<container, regVars, refCount, life, name, dataVars, inHand, at>>
      /\ UNCHANGED calls /\ mutex' = None /\ visited' = [visited EXCEPT ![t] = {}]
      /\ \/ Doing(t).do \in {"link", "unlink", "close"} /\ pc[t] = "unlock"
         \/ Doing(t).do \in {"export", "aggregate"} /\ pc[t] = "work"
      /\ IF Doing(t).do = "close" THEN Goto(t, "free") /\ UNCHANGED users
                                  ELSE Return(t)
  BY DEF Unlock, At
<1>2. ThreadOK(t) /\ todo[t] # <<>> BY <1>1, Places DEF IInv, JobInv
<1>3. Holds(t) /\ mutex = t BY <1>1 DEF Holds, IInv, LockInv
<1>4. \A s \in Stats : Same(s) BY <1>1 DEF Same, dataVars
<1>5. visited' \in [Threads -> SUBSET Stats] BY <1>1 DEF IInv, TypeOK
<1>6. CASE Doing(t).do = "close"
  <2>1. /\ Others(t) /\ todo'[t] = todo[t] /\ Doing(t)' = Doing(t) /\ pc'[t] = "free"
        /\ todo' \in [Threads -> Seq(JobType)] /\ pc' \in [Threads -> Labels]
    BY <1>1, <1>6, GotoFacts DEF Labels
  <2>2. TypeOK' BY <1>1, <1>5, <1>6, <2>1 DEF IInv, TypeOK, regVars, dataVars, Labels
  <2>3. ThreadOK(t)' BY <1>1, <1>6, <2>1, StaysOK DEF dataVars
  <2>4. container = "detached" BY <1>1, <1>6 DEF IInv, CloseInv
  <2>5. CloseInv' BY <1>1, <1>6, <2>1, <2>4, CloseFrame
  <2>6. ~Holds(t)' BY <1>6, <2>1 DEF Holds
  <2> QED BY <1>1, <1>3, <1>6, <2>1, <2>2, <2>3, <2>5, <2>6, QuietStep DEF At
<1>7. CASE Doing(t).do # "close"
  <2>1. /\ Others(t) /\ todo'[t] = Tail(todo[t]) /\ pc'[t] = "start"
        /\ todo' \in [Threads -> Seq(JobType)] /\ pc' \in [Threads -> Labels]
        /\ users' \subseteq users /\ users \ {t} \subseteq users'
        /\ ~Holds(t)' /\ ~At(t, {"unlink"}, "work")'
    BY <1>1, <1>2, <1>7, ReturnFacts
  <2>2. TypeOK' BY <1>1, <1>5, <2>1 DEF IInv, TypeOK, regVars, dataVars, Labels
  <2>3. CASE Doing(t).do = "unlink"
    <3>1. PICK s \in Stats : /\ Doing(t) = Job("unlink", s) /\ UnlinkOK(t, s)
                             /\ s \in Uses(todo[t])
                             /\ Uses(Tail(todo[t])) = Uses(todo[t])
      BY <1>2, <2>3, Places
    <3>2. life[s] = "unlinked" BY <1>1, <2>3, <3>1 DEF UnlinkOK
    <3>3. Uses(todo[t]) \subseteq Stats BY UsesStats
    <3>4. ThreadOK(t)' BY <1>1, <1>2, <1>4, <2>1, <3>1, <3>2, <3>3, UnlinkEnds
    <3>5. Doing(t)'.do \notin {"close", "aggregate"}
      BY <3>1, <3>4, <2>1, UsesNone
    <3>6. CloseInv' BY <1>1, <2>1, <3>5, CloseFrame
    <3> QED BY <1>1, <1>3, <2>1, <2>2, <3>1, <3>4, <3>6, QuietStep
  <2>4. CASE Doing(t).do # "unlink"
    <3>1. /\ todo'[t] = <<>> /\ ThreadOK(t)' /\ Uses(todo'[t]) = {} /\ Doing(t)' = NoJob
      BY <1>1, <1>7, <2>4, ReturnLast
    <3>2. CloseInv' BY <1>1, <2>1, <3>1, CloseFrame DEF NoJob, Job
    <3>3. \A s \in Uses(todo[t]) : life[s] # "unlinked"
      <4>1. CASE Doing(t).do = "link"
        BY <1>1, <1>2, <4>1, Places DEF LinkOK
      <4>2. CASE Doing(t).do = "export"
        <5>1. PICK s \in Stats : todo[t] = <<Job("export", s)>> /\ life[s] = "linked"
          BY <1>2, <4>2, Places
        <5> QED BY <5>1, OneJob
      <4>3. CASE Doing(t).do = "aggregate"
        <5>1. todo[t] = <<Job("aggregate", None)>> BY <1>2, <4>3, Places
        <5> QED BY <5>1, OneJob
      <4> QED BY <1>1, <1>7, <2>4, <4>1, <4>2, <4>3
    <3> QED BY <1>1, <1>3, <2>1, <2>2, <3>1, <3>2, <3>3, QuietStep
  <2> QED BY <2>3, <2>4
<1> QED BY <1>6, <1>7

\* unlink() of a stat that is not linked has nothing to do.
LEMMA UnlinkNothingIInv ==
  ASSUME IInv, NEW t \in Threads, TakeLocal(t), life[Doing(t).stat] # "linked"
  PROVE  IInv'
<1>1. /\ UNCHANGED <<container, regVars, refCount, life, name, dataVars, inHand, at>>
      /\ UNCHANGED <<mutex, visited, calls>>
      /\ Doing(t).do = "unlink" /\ pc[t] = "start" /\ Return(t)
  BY DEF TakeLocal, At, dataVars
<1>2. ThreadOK(t) /\ todo[t] # <<>> BY <1>1, Places DEF IInv, JobInv
<1>3. \A s \in Stats : Same(s) BY <1>1 DEF Same, dataVars
<1>4. /\ Others(t) /\ todo'[t] = Tail(todo[t]) /\ pc'[t] = "start"
      /\ todo' \in [Threads -> Seq(JobType)] /\ pc' \in [Threads -> Labels]
      /\ users' \subseteq users /\ users \ {t} \subseteq users'
      /\ ~Holds(t)' /\ ~At(t, {"unlink"}, "work")'
  BY <1>1, <1>2, ReturnFacts
<1>5. TypeOK' BY <1>1, <1>4 DEF IInv, TypeOK, regVars, dataVars, Labels
<1>6. PICK s \in Stats : /\ Doing(t) = Job("unlink", s) /\ UnlinkOK(t, s)
                         /\ s \in Uses(todo[t]) /\ Doing(t).stat = s
                         /\ Uses(Tail(todo[t])) = Uses(todo[t])
  BY <1>1, <1>2, Places
<1>7. life[s] = "unlinked" BY <1>1, <1>6 DEF UnlinkOK, IInv, TypeOK
<1>8. Uses(todo[t]) \subseteq Stats BY UsesStats
<1>9. ThreadOK(t)' BY <1>1, <1>2, <1>3, <1>4, <1>6, <1>7, <1>8, UnlinkEnds
<1>10. Doing(t)'.do \notin {"close", "aggregate"} BY <1>4, <1>6, <1>9, UsesNone
<1>11. CloseInv' BY <1>1, <1>4, <1>10, CloseFrame
<1>12. ~Holds(t) BY <1>1 DEF Holds
<1> QED BY <1>1, <1>4, <1>5, <1>6, <1>9, <1>11, <1>12, QuietStep

-----------------------------------------------------------------------------
(***************************************************************************)
(* Updates on their way: reset() takes them, addValueAggregated() delivers *)
(* them.                                                                   *)
(***************************************************************************)
\* The names others deliver to do not change.
LEMMA MeantFrame ==
  ASSUME IInv, NEW t \in Threads, Others(t), name' = name, NEW u \in Threads \ {t},
         at'[u] = at[u]
  PROVE  Meant(u)' = Meant(u)
  BY DoingFrame DEF Meant

\* Taken from stat s by t, which will deliver to the name of s.
LEMMA TakeFrame ==
  ASSUME IInv, NEW t \in Threads, Others(t), NEW s \in Stats, inHand[t] = {},
         UNCHANGED <<name, total, added>>, \A u \in Threads \ {t} : at'[u] = at[u],
         local' = [local EXCEPT ![s] = {}], inHand' = [inHand EXCEPT ![t] = local[s]],
         Meant(t)' = name[s]
  PROVE  PlaceInv' /\ OnceInv'
<1>1. /\ local'[s] = {} /\ \A x \in Stats \ {s} : local'[x] = local[x]
      /\ inHand'[t] = local[s] /\ \A u \in Threads \ {t} : inHand'[u] = inHand[u]
  BY DEF IInv, TypeOK
<1>2. PlaceInv'
  <2> SUFFICES ASSUME NEW m \in Names, NEW w \in Updates
               PROVE  w \in added'[m] <=> \/ w \in total'[m]
                                          \/ \E x \in Stats : InStat(x, m, w)'
                                          \/ \E v \in Threads : InHand(v, m, w)'
    BY DEF PlaceInv
  <2>1. \A v \in Threads \ {t} : InHand(v, m, w)' <=> InHand(v, m, w)
    BY <1>1, MeantFrame DEF InHand
  <2>2. InHand(t, m, w)' <=> InStat(s, m, w) BY <1>1 DEF InHand, InStat
  <2>3. ~InHand(t, m, w) /\ ~InStat(s, m, w)' BY <1>1 DEF InHand, InStat
  <2>4. \A x \in Stats \ {s} : InStat(x, m, w)' <=> InStat(x, m, w)
    BY <1>1 DEF InStat
  <2>5. w \in added[m] <=> \/ w \in total[m]
                           \/ \E x \in Stats : InStat(x, m, w)
                           \/ \E v \in Threads : InHand(v, m, w)
    BY DEF IInv, PlaceInv
  <2> QED BY <2>1, <2>2, <2>3, <2>4, <2>5
<1>3. OnceInv' BY <1>1 DEF IInv, OnceInv
<1> QED BY <1>2, <1>3

\* Delivered by t to the name they are meant for.
LEMMA DeliverFrame ==
  ASSUME IInv, NEW t \in Threads, Others(t), NEW k \in Names, Meant(t) = k,
         UNCHANGED <<name, local, added>>, \A u \in Threads \ {t} : at'[u] = at[u],
         total' = [total EXCEPT ![k] = @ \cup inHand[t]],
         inHand' = [inHand EXCEPT ![t] = {}]
  PROVE  PlaceInv' /\ OnceInv'
<1>1. /\ inHand'[t] = {} /\ \A u \in Threads \ {t} : inHand'[u] = inHand[u]
      /\ total'[k] = total[k] \cup inHand[t] /\ \A m \in Names \ {k} : total'[m] = total[m]
  BY DEF IInv, TypeOK
<1>2. PlaceInv'
  <2> SUFFICES ASSUME NEW m \in Names, NEW w \in Updates
               PROVE  w \in added'[m] <=> \/ w \in total'[m]
                                          \/ \E x \in Stats : InStat(x, m, w)'
                                          \/ \E v \in Threads : InHand(v, m, w)'
    BY DEF PlaceInv
  <2>1. \A v \in Threads \ {t} : InHand(v, m, w)' <=> InHand(v, m, w)
    BY <1>1, MeantFrame DEF InHand
  <2>2. ~InHand(t, m, w)' BY <1>1 DEF InHand
  <2>3. w \in total'[m] <=> w \in total[m] \/ InHand(t, m, w) BY <1>1 DEF InHand
  <2>4. \A x \in Stats : InStat(x, m, w)' <=> InStat(x, m, w) BY DEF InStat
  <2>5. w \in added[m] <=> \/ w \in total[m]
                           \/ \E x \in Stats : InStat(x, m, w)
                           \/ \E v \in Threads : InHand(v, m, w)
    BY DEF IInv, PlaceInv
  <2> QED BY <2>1, <2>2, <2>3, <2>4, <2>5
<1>3. OnceInv' BY <1>1 DEF IInv, OnceInv
<1> QED BY <1>2, <1>3

\* unlink() takes what its stat holds.
LEMMA TakeLocalIInv ==
  ASSUME IInv, NEW t \in Threads, TakeLocal(t), life[Doing(t).stat] = "linked"
  PROVE  IInv'
<1>1. ThreadOK(t) /\ Doing(t).do = "unlink" /\ pc[t] = "start"
  BY DEF TakeLocal, At, IInv, JobInv
<1>2. PICK s \in Stats : /\ Doing(t) = Job("unlink", s) /\ Doing(t).stat = s
                         /\ s \in Uses(todo[t])
  BY <1>1, Places
<1>3. /\ UNCHANGED <<container, mutex, regVars, refCount, life, name, total, added,
                     at, visited, users, calls>>
      /\ Goto(t, "deliver") /\ life[s] = "linked"
      /\ inHand' = [inHand EXCEPT ![t] = local[s]] /\ local' = [local EXCEPT ![s] = {}]
  BY <1>2 DEF TakeLocal
<1>4. /\ Others(t) /\ todo'[t] = todo[t] /\ Doing(t)' = Doing(t) /\ pc'[t] = "deliver"
      /\ todo' \in [Threads -> Seq(JobType)] /\ pc' \in [Threads -> Labels]
  BY <1>3, GotoFacts DEF Labels
<1>5. inHand[t] = {} BY <1>1 DEF IInv, HandInv
<1>6. \A x \in Stats : Same(x) /\ local'[s] = {} BY <1>3 DEF Same, IInv, TypeOK
<1>7. TypeOK' BY <1>3, <1>4 DEF IInv, TypeOK, regVars, Labels
<1>8. ThreadOK(t)'
  <2>1. UnlinkOK(t, s)' BY <1>3, <1>4, <1>6 DEF UnlinkOK
  <2> QED BY <1>1, <1>2, <1>3, <1>4, <1>6, <2>1, UnlinkGoesOn, UsesStats
<1>9. JobInv' /\ OneUser' BY <1>4, <1>6, <1>8, JobFrame
<1>10. LockInv'
  <2>1. ~Holds(t) /\ ~Holds(t)' BY <1>1, <1>4 DEF Holds
  <2> QED BY <1>3, <1>4, <2>1, LockFrame
<1>11. StatInv' BY <1>4, <1>6, StatFrame DEF StatKept
<1>12. RegInv' BY <1>3, <1>4, RegFrame DEF At, Linked
<1>13. CloseInv' BY <1>1, <1>3, <1>4, CloseFrame
<1>14. HandInv'
  <2>1. \A u \in Threads \ {t} : inHand'[u] = inHand[u] BY <1>3 DEF IInv, TypeOK
  <2> QED BY <1>1, <1>3, <1>4, <2>1, DoingFrame DEF IInv, HandInv, At, regVars
<1>15. RefInv' BY <1>3 DEF IInv, RefInv, Existing
<1>16. PlaceInv' /\ OnceInv'
  <2>1. Meant(t)' = name[s] BY <1>1, <1>2, <1>3, <1>4 DEF Meant
  <2> QED BY <1>3, <1>4, <1>5, <2>1, TakeFrame
<1> QED
  BY <1>7, <1>9, <1>10, <1>11, <1>12, <1>13, <1>14, <1>15, <1>16 DEF IInv

\* ... and delivers it.
LEMMA DeliverLocalIInv ==
  ASSUME IInv, NEW t \in Threads, DeliverLocal(t)
  PROVE  IInv'
<1>1. ThreadOK(t) /\ Doing(t).do = "unlink" /\ pc[t] = "deliver"
  BY DEF DeliverLocal, At, IInv, JobInv
<1>2. Meant(t) = name[Doing(t).stat] /\ Meant(t) \in Names
  BY <1>1, MeantIs DEF Meant
<1>3. /\ UNCHANGED <<container, mutex, regVars, refCount, life, name, local, added,
                     at, visited, users, calls>>
      /\ Goto(t, "lock") /\ inHand' = [inHand EXCEPT ![t] = {}]
      /\ total' = [total EXCEPT ![Meant(t)] = @ \cup inHand[t]]
  BY <1>2 DEF DeliverLocal
<1>4. /\ Others(t) /\ todo'[t] = todo[t] /\ Doing(t)' = Doing(t) /\ pc'[t] = "lock"
      /\ todo' \in [Threads -> Seq(JobType)] /\ pc' \in [Threads -> Labels]
  BY <1>3, GotoFacts DEF Labels
<1>5. \A x \in Stats : Same(x) BY <1>3 DEF Same
<1>6. TypeOK' BY <1>2, <1>3, <1>4 DEF IInv, TypeOK, regVars, Labels
<1>7. ThreadOK(t)' BY <1>1, <1>3, <1>4, StaysOK
<1>8. JobInv' /\ OneUser' BY <1>4, <1>5, <1>7, JobFrame
<1>9. LockInv'
  <2>1. ~Holds(t) /\ ~Holds(t)' BY <1>1, <1>4 DEF Holds
  <2> QED BY <1>3, <1>4, <2>1, LockFrame
<1>10. StatInv' BY <1>4, <1>5, StatFrame DEF StatKept
<1>11. RegInv' BY <1>3, <1>4, RegFrame DEF At, Linked
<1>12. CloseInv' BY <1>1, <1>3, <1>4, CloseFrame
<1>13. HandInv'
  <2>1. inHand'[t] = {} /\ \A u \in Threads \ {t} : inHand'[u] = inHand[u]
    BY <1>3 DEF IInv, TypeOK
  <2> QED BY <1>1, <1>3, <1>4, <2>1, DoingFrame DEF IInv, HandInv, At, regVars
<1>14. RefInv' BY <1>3 DEF IInv, RefInv, Existing
<1>15. PlaceInv' /\ OnceInv' BY <1>2, <1>3, <1>4, DeliverFrame
<1> QED
  BY <1>6, <1>8, <1>9, <1>10, <1>11, <1>12, <1>13, <1>14, <1>15 DEF IInv

\* aggregate() takes what the next stat holds.
LEMMA TakeStatIInv ==
  ASSUME IInv, NEW t \in Threads, NEW s \in Stats, TakeStat(t, s)
  PROVE  IInv'
<1>1. ThreadOK(t) /\ Doing(t).do = "aggregate" /\ pc[t] = "work" /\ s \in tlStats
  BY DEF TakeStat, At, IInv, JobInv
<1>2. /\ UNCHANGED <<container, mutex, regVars, refCount, life, name, total, added,
                     users, calls>>
      /\ Goto(t, "deliver") /\ at' = [at EXCEPT ![t] = s]
      /\ visited' = [visited EXCEPT ![t] = @ \cup {s}]
      /\ inHand' = [inHand EXCEPT ![t] = local[s]] /\ local' = [local EXCEPT ![s] = {}]
  BY DEF TakeStat
<1>3. /\ Others(t) /\ todo'[t] = todo[t] /\ Doing(t)' = Doing(t) /\ pc'[t] = "deliver"
      /\ todo' \in [Threads -> Seq(JobType)] /\ pc' \in [Threads -> Labels]
  BY <1>2, GotoFacts DEF Labels
<1>4. inHand[t] = {} BY <1>1 DEF IInv, HandInv
<1>5. \A x \in Stats : Same(x) BY <1>2 DEF Same, IInv, TypeOK
<1>6. at'[t] = s /\ \A u \in Threads \ {t} : at'[u] = at[u] /\ inHand'[u] = inHand[u]
  BY <1>2 DEF IInv, TypeOK
<1>7. TypeOK' BY <1>2, <1>3 DEF IInv, TypeOK, regVars, Labels
<1>8. ThreadOK(t)'
  <2>1. \A x \in Uses(todo[t]) : Same(x) BY <1>5, UsesStats
  <2> QED BY <1>1, <1>3, <2>1, StaysOK DEF Same
<1>9. JobInv' /\ OneUser' BY <1>3, <1>5, <1>8, JobFrame
<1>10. LockInv'
  <2>1. Holds(t) /\ Holds(t)' BY <1>1, <1>3 DEF Holds
  <2> QED BY <1>2, <1>3, <2>1, LockFrame
<1>11. StatInv' BY <1>3, <1>5, StatFrame DEF StatKept
<1>12. RegInv' BY <1>2, <1>3, RegFrame DEF At, Linked
<1>13. CloseInv'
  <2>1. t \in users BY <1>1 DEF IInv, CloseInv
  <2> QED BY <1>1, <1>2, <1>3, <2>1, CloseFrame
<1>14. HandInv'
  <2>1. ASSUME NEW u \in Threads \ {t}
        PROVE  /\ inHand'[u] # {} => pc'[u] = "deliver"
               /\ At(u, {"aggregate"}, "deliver")' => at'[u] \in tlStats'
    <3>1. Doing(u)' = Doing(u) /\ pc'[u] = pc[u] BY <1>3, DoingFrame
    <3> QED BY <1>2, <1>6, <3>1 DEF IInv, HandInv, At, regVars
  <2>2. pc'[t] = "deliver" /\ at'[t] \in tlStats' BY <1>1, <1>2, <1>3, <1>6 DEF regVars
  <2> QED BY <2>1, <2>2 DEF HandInv
<1>15. RefInv' BY <1>2 DEF IInv, RefInv, Existing
<1>16. PlaceInv' /\ OnceInv'
  <2>1. Meant(t)' = name[s] BY <1>1, <1>2, <1>3, <1>6 DEF Meant
  <2> QED BY <1>2, <1>3, <1>4, <1>6, <2>1, TakeFrame
<1> QED
  BY <1>7, <1>9, <1>10, <1>11, <1>12, <1>13, <1>14, <1>15, <1>16 DEF IInv

\* ... and delivers it.
LEMMA DeliverStatIInv ==
  ASSUME IInv, NEW t \in Threads, DeliverStat(t)
  PROVE  IInv'
<1>1. ThreadOK(t) /\ Doing(t).do = "aggregate" /\ pc[t] = "deliver"
  BY DEF DeliverStat, At, IInv, JobInv
<1>2. Meant(t) = name[at[t]] /\ Meant(t) \in Names
  BY <1>1, MeantIs DEF Meant
<1>3. /\ UNCHANGED <<container, mutex, regVars, refCount, life, name, local, added,
                     visited, users, calls>>
      /\ Goto(t, "work") /\ inHand' = [inHand EXCEPT ![t] = {}]
      /\ at' = [at EXCEPT ![t] = None]
      /\ total' = [total EXCEPT ![Meant(t)] = @ \cup inHand[t]]
  BY <1>2 DEF DeliverStat
<1>4. /\ Others(t) /\ todo'[t] = todo[t] /\ Doing(t)' = Doing(t) /\ pc'[t] = "work"
      /\ todo' \in [Threads -> Seq(JobType)] /\ pc' \in [Threads -> Labels]
  BY <1>3, GotoFacts DEF Labels
<1>5. \A x \in Stats : Same(x) BY <1>3 DEF Same
<1>6. /\ inHand'[t] = {}
      /\ \A u \in Threads \ {t} : inHand'[u] = inHand[u] /\ at'[u] = at[u]
  BY <1>3 DEF IInv, TypeOK
<1>7. TypeOK' BY <1>2, <1>3, <1>4 DEF IInv, TypeOK, regVars, Labels
<1>8. ThreadOK(t)' BY <1>1, <1>3, <1>4, StaysOK
<1>9. JobInv' /\ OneUser' BY <1>4, <1>5, <1>8, JobFrame
<1>10. LockInv'
  <2>1. Holds(t) /\ Holds(t)' BY <1>1, <1>4 DEF Holds
  <2> QED BY <1>3, <1>4, <2>1, LockFrame
<1>11. StatInv' BY <1>4, <1>5, StatFrame DEF StatKept
<1>12. RegInv' BY <1>1, <1>3, <1>4, RegFrame DEF At, Linked
<1>13. CloseInv'
  <2>1. t \in users BY <1>1 DEF IInv, CloseInv
  <2> QED BY <1>1, <1>3, <1>4, <2>1, CloseFrame
<1>14. HandInv'
  BY <1>3, <1>4, <1>6, DoingFrame DEF IInv, HandInv, At, regVars
<1>15. RefInv' BY <1>3 DEF IInv, RefInv, Existing
<1>16. PlaceInv' /\ OnceInv' BY <1>2, <1>3, <1>4, <1>6, DeliverFrame
<1> QED
  BY <1>7, <1>9, <1>10, <1>11, <1>12, <1>13, <1>14, <1>15, <1>16 DEF IInv

-----------------------------------------------------------------------------
(***************************************************************************)
(* Steps that change the registry or a stat.                               *)
(***************************************************************************)
\* A thread in link() has nothing else to do.
LEMMA LinkPlace ==
  ASSUME NEW t \in Threads, ThreadOK(t), Doing(t).do = "link"
  PROVE  \E s \in Stats : /\ Doing(t).stat = s /\ todo[t] = <<Job("link", s)>>
                          /\ LinkOK(t, s) /\ Uses(todo[t]) = {s}
  BY Places

\* A thread inside the lock is alone there.
LEMMA Alone ==
  ASSUME IInv, NEW t \in Threads, Holds(t), NEW u \in Threads \ {t}
  PROVE  ~Holds(u)
  BY DEF IInv, LockInv

\* A stat that t has to do with, or the registry, changes; the data does not.
LEMMA StatStep ==
  ASSUME IInv, NEW t \in Threads, TypeOK', RegInv', CloseInv', RefInv', Others(t),
         ThreadOK(t)', Uses(todo'[t]) \subseteq Uses(todo[t]),
         \A s \in Stats : Same(s) \/ s \in Uses(todo[t]),
         \A s \in Stats : StatKept(t, s) \/ StatFit(t, s),
         \A s \in Stats : name'[s] = name[s] \/ (local[s] = {} /\ life[s] # "linked"),
         \A u \in Threads \ {t} : At(u, {"aggregate"}, "deliver") /\ at[u] \in tlStats
                                      => at[u] \in tlStats',
         mutex' = mutex, Holds(t)' <=> Holds(t), pc[t] # "deliver", pc'[t] # "deliver",
         UNCHANGED <<dataVars, inHand, at>>
  PROVE  IInv'
<1>1. inHand[t] = {} BY DEF IInv, HandInv
<1>2. JobInv' /\ OneUser' BY JobFrame
<1>3. LockInv' BY LockFrame
<1>4. StatInv' BY StatFrame
<1>5. HandInv'
  <2>1. ASSUME NEW u \in Threads \ {t}
        PROVE  /\ inHand'[u] # {} => pc'[u] = "deliver"
               /\ At(u, {"aggregate"}, "deliver")' => at'[u] \in tlStats'
    <3>1. Doing(u)' = Doing(u) /\ pc'[u] = pc[u] BY DoingFrame
    <3> QED BY <3>1 DEF IInv, HandInv, At
  <2> QED BY <1>1, <2>1 DEF HandInv, At
<1>6. PlaceInv' /\ OnceInv' BY <1>1, DataFrame
<1> QED BY <1>2, <1>3, <1>4, <1>5, <1>6 DEF IInv

\* completePendingLink()
LEMMA DrainIInv ==
  ASSUME IInv, NEW t \in Threads, Drain(t)
  PROVE  IInv'
<1>1. /\ UNCHANGED <<container, mutex, refCount, life, name, dataVars, inHand, at>>
      /\ UNCHANGED <<visited, users, calls>> /\ Goto(t, "work")
      /\ Doing(t).do \in {"link", "unlink", "aggregate", "export", "close"}
      /\ pc[t] = "drain"
  BY DEF Drain, walkVars, At
<1>2. \/ /\ container = "alive" /\ tlStats' = tlStats \cup Pending /\ linkPending' = <<>>
         /\ tlStatsEmpty' = IF tlStats = {} /\ linkPending # <<>> THEN FALSE ELSE tlStatsEmpty
      \/ container # "alive" /\ UNCHANGED regVars
  BY DEF Drain, Pending
<1>3. /\ Others(t) /\ todo'[t] = todo[t] /\ Doing(t)' = Doing(t) /\ pc'[t] = "work"
      /\ todo' \in [Threads -> Seq(JobType)] /\ pc' \in [Threads -> Labels]
  BY <1>1, GotoFacts DEF Labels
<1>4. ThreadOK(t) /\ Holds(t) /\ Holds(t)' BY <1>1, <1>3 DEF IInv, JobInv, Holds
<1>5. Pending \subseteq Stats BY DEF IInv, TypeOK, Pending
<1>6. TypeOK'
  <2>1. <<>> \in Seq(Stats) OBVIOUS
  <2>2. tlStats' \subseteq Stats BY <1>2, <1>5 DEF IInv, TypeOK, regVars
  <2>3. linkPending' \in Seq(Stats) BY <1>2, <2>1 DEF IInv, TypeOK, regVars
  <2>4. tlStatsEmpty' \in BOOLEAN BY <1>2 DEF IInv, TypeOK, regVars
  <2> QED BY <1>1, <1>3, <2>2, <2>3, <2>4 DEF IInv, TypeOK, dataVars, Labels
<1>7. \A s \in Stats : Same(s) BY <1>1 DEF Same, dataVars
<1>8. ThreadOK(t)' BY <1>1, <1>3, StaysOK DEF dataVars
<1>9. CloseInv'
  <2>1. Doing(t).do = "close" => container = "alive" BY <1>1 DEF IInv, CloseInv
  <2>2. Doing(t).do = "aggregate" => t \in users BY DEF IInv, CloseInv
  <2> QED BY <1>1, <1>3, <2>1, <2>2, CloseFrame
<1>10. RegInv'
  <2> SUFFICES ASSUME container = "alive" PROVE RegInv'
    BY <1>1 DEF RegInv
  <2>1. Linked' = Linked /\ Pending' = {} BY <1>1, <1>2 DEF Linked, Pending
  <2>2. tlStats' = Linked BY <1>2 DEF IInv, RegInv
  <2>3. tlStats' # {} => ~tlStatsEmpty'
    <3>1. Pending # {} => linkPending # <<>> BY DEF Pending
    <3> QED BY <1>2, <3>1 DEF IInv, RegInv
  <2>4. Doing(t).do = "unlink" => Doing(t).stat \in Linked
    BY <1>1, <1>4, Places DEF UnlinkOK, Linked
  <2>5. ASSUME NEW u \in Threads, At(u, {"unlink"}, "work")' PROVE u = t
    BY <1>3, <1>4, <2>5, Alone, DoingFrame DEF At, Holds
  <2>6. \A u \in Threads : At(u, {"unlink"}, "work")' => Doing(u)'.stat \in tlStats'
    BY <1>3, <2>2, <2>4, <2>5 DEF At
  <2> QED BY <1>2, <2>1, <2>2, <2>3, <2>6 DEF RegInv
<1>11. RefInv' BY <1>1 DEF IInv, RefInv, Existing
<1>12. tlStats \subseteq tlStats' BY <1>2 DEF regVars
<1> QED
  BY <1>1, <1>3, <1>4, <1>6, <1>7, <1>8, <1>9, <1>10, <1>11, <1>12, StatStep DEF StatKept

\* link() inserts its stat into tlStats_.
LEMMA InsertIInv ==
  ASSUME IInv, NEW t \in Threads, Insert(t)
  PROVE  IInv'
<1>1. ThreadOK(t) /\ Doing(t).do = "link" /\ pc[t] = "work"
  BY DEF Insert, At, IInv, JobInv
<1>2. PICK s \in Stats : /\ Doing(t).stat = s /\ todo[t] = <<Job("link", s)>>
                         /\ LinkOK(t, s) /\ Uses(todo[t]) = {s}
  BY <1>1, LinkPlace
<1>3. /\ UNCHANGED <<container, mutex, linkPending, refCount, name, dataVars, inHand, at>>
      /\ UNCHANGED <<visited, users, calls>> /\ Goto(t, "unlock")
      /\ life' = [life EXCEPT ![s] = "linked"]
      /\ container = "alive" => /\ tlStats' = tlStats \cup {s}
                                /\ Cardinality(tlStats') = 1 => ~tlStatsEmpty'
                                /\ tlStatsEmpty' => tlStatsEmpty
      /\ tlStats' \subseteq tlStats \cup {s} /\ tlStats \subseteq tlStats'
      /\ tlStatsEmpty' \in {tlStatsEmpty, FALSE}
  BY <1>2 DEF Insert, walkVars
<1>4. /\ Others(t) /\ todo'[t] = todo[t] /\ Doing(t)' = Doing(t) /\ pc'[t] = "unlock"
      /\ todo' \in [Threads -> Seq(JobType)] /\ pc' \in [Threads -> Labels]
  BY <1>3, GotoFacts DEF Labels
<1>5. /\ life[s] = "unlinked" /\ life'[s] = "linked" /\ name'[s] = name[s] /\ name[s] # None
      /\ \A x \in Stats \ {s} : Same(x) /\ life'[x] = life[x]
  BY <1>1, <1>2, <1>3 DEF LinkOK, Same, dataVars, IInv, TypeOK
<1>6. TypeOK' BY <1>3, <1>4 DEF IInv, TypeOK, dataVars, Labels
<1>7. ThreadOK(t)'
  <2>1. OneStat(t, s)' BY <1>2, <1>4, <1>5 DEF OneStat, LinkOK
  <2> QED BY <2>1 DEF ThreadOK
<1>8. Holds(t) /\ Holds(t)' BY <1>1, <1>4 DEF Holds
<1>9. CloseInv' BY <1>1, <1>3, <1>4, CloseFrame
<1>10. RegInv'
  <2> SUFFICES ASSUME container = "alive" PROVE RegInv'
    BY <1>3 DEF RegInv
  <2>1. Linked' = Linked \cup {s} /\ s \notin Linked BY <1>5 DEF Linked
  <2>2. Pending' = Pending BY <1>3 DEF Pending
  <2>3. tlStats' # {} => ~tlStatsEmpty'
    <3>1. CASE tlStats = {}
      <4>1. tlStats' = {s} BY <1>3, <3>1
      <4>2. Cardinality(tlStats') = 1 BY <4>1, FS_Singleton
      <4> QED BY <1>3, <4>2
    <3>2. CASE tlStats # {} BY <1>3, <3>2 DEF IInv, RegInv, TypeOK
    <3> QED BY <3>1, <3>2
  <2>4. ASSUME NEW u \in Threads PROVE ~At(u, {"unlink"}, "work")'
    BY <1>4, <1>8, Alone, DoingFrame DEF At, Holds
  <2> QED BY <1>3, <2>1, <2>2, <2>3, <2>4 DEF RegInv, IInv
<1>11. RefInv'
  <2>1. Existing' = Existing BY <1>5 DEF Existing
  <2> QED BY <1>3, <2>1 DEF IInv, RefInv
<1>12. StatFit(t, s) BY <1>5 DEF StatFit
<1>13. \A x \in Stats : StatKept(t, x) \/ StatFit(t, x)
  BY <1>2, <1>4, <1>5, <1>12 DEF StatKept
<1> QED
  BY <1>1, <1>2, <1>3, <1>4, <1>5, <1>6, <1>7, <1>8, <1>9, <1>10, <1>11, <1>13, StatStep

\* link() found the container gone: the stat counts as linked.
LEMMA DeferredDeadIInv ==
  ASSUME IInv, NEW t \in Threads, Deferred(t), container # "alive"
  PROVE  IInv'
<1>1. ThreadOK(t) /\ Doing(t).do = "link" /\ pc[t] = "deferred"
  BY DEF Deferred, At, IInv, JobInv
<1>2. PICK s \in Stats : /\ Doing(t).stat = s /\ todo[t] = <<Job("link", s)>>
                         /\ LinkOK(t, s) /\ Uses(todo[t]) = {s}
  BY <1>1, LinkPlace
<1>3. /\ UNCHANGED <<container, mutex, regVars, refCount, name, dataVars, inHand, at>>
      /\ UNCHANGED <<visited, calls>> /\ Return(t) /\ life' = [life EXCEPT ![s] = "linked"]
  BY <1>2 DEF Deferred, walkVars
<1>4. todo[t] # <<>> /\ todo'[t] = <<>> /\ ThreadOK(t)' /\ Uses(todo'[t]) = {}
      /\ Doing(t)' = NoJob
  BY <1>1, <1>3, ReturnLast
<1>5. /\ Others(t) /\ pc'[t] = "start" /\ users' \subseteq users
      /\ users \ {t} \subseteq users' /\ ~Holds(t)'
      /\ todo' \in [Threads -> Seq(JobType)] /\ pc' \in [Threads -> Labels]
  BY <1>3, <1>4, ReturnFacts
<1>6. /\ life[s] = "unlinked" /\ life'[s] = "linked" /\ name'[s] = name[s] /\ name[s] # None
      /\ \A x \in Stats \ {s} : Same(x) /\ life'[x] = life[x]
  BY <1>1, <1>2, <1>3 DEF LinkOK, Same, dataVars, IInv, TypeOK
<1>7. TypeOK' BY <1>3, <1>5 DEF IInv, TypeOK, regVars, dataVars, Labels
<1>8. ~Holds(t) BY <1>1 DEF Holds
<1>9. CloseInv' BY <1>3, <1>4, <1>5, CloseFrame DEF NoJob, Job
<1>10. RegInv' BY <1>3 DEF RegInv
<1>11. RefInv'
  <2>1. Existing' = Existing BY <1>6 DEF Existing
  <2> QED BY <1>3, <2>1 DEF IInv, RefInv
<1>12. StatFit(t, s) BY <1>6 DEF StatFit
<1>13. \A x \in Stats : StatKept(t, x) \/ StatFit(t, x)
  BY <1>2, <1>6, <1>12 DEF StatKept
<1> QED
  BY <1>1, <1>2, <1>3, <1>4, <1>5, <1>6, <1>7, <1>8, <1>9, <1>10, <1>11, <1>13, StatStep
     DEF regVars

\* link() leaves its stat on the pending list.
LEMMA PushPendingIInv ==
  ASSUME IInv, NEW t \in Threads, PushPending(t)
  PROVE  IInv'
<1>1. ThreadOK(t) /\ Doing(t).do = "link" /\ pc[t] = "push"
  BY DEF PushPending, At, IInv, JobInv
<1>2. PICK s \in Stats : /\ Doing(t).stat = s /\ todo[t] = <<Job("link", s)>>
                         /\ LinkOK(t, s) /\ Uses(todo[t]) = {s}
  BY <1>1, LinkPlace
<1>3. /\ UNCHANGED <<container, mutex, tlStats, refCount, name, dataVars, inHand, at>>
      /\ UNCHANGED <<visited, calls>> /\ Return(t) /\ life' = [life EXCEPT ![s] = "linked"]
      /\ container # "freed" => linkPending' = Append(linkPending, s)
      /\ linkPending' \in {linkPending, Append(linkPending, s)}
      /\ tlStatsEmpty' \in {tlStatsEmpty, FALSE}
  BY <1>2 DEF PushPending, walkVars
<1>4. todo[t] # <<>> /\ todo'[t] = <<>> /\ ThreadOK(t)' /\ Uses(todo'[t]) = {}
      /\ Doing(t)' = NoJob
  BY <1>1, <1>3, ReturnLast
<1>5. /\ Others(t) /\ pc'[t] = "start" /\ users' \subseteq users
      /\ users \ {t} \subseteq users' /\ ~Holds(t)'
      /\ todo' \in [Threads -> Seq(JobType)] /\ pc' \in [Threads -> Labels]
  BY <1>3, <1>4, ReturnFacts
<1>6. /\ life[s] = "unlinked" /\ life'[s] = "linked" /\ name'[s] = name[s] /\ name[s] # None
      /\ \A x \in Stats \ {s} : Same(x) /\ life'[x] = life[x]
  BY <1>1, <1>2, <1>3 DEF LinkOK, Same, dataVars, IInv, TypeOK
<1>7. linkPending' \in Seq(Stats)
  <2>1. linkPending \in Seq(Stats) BY DEF IInv, TypeOK
  <2>2. Append(linkPending, s) \in Seq(Stats) BY <2>1
  <2> QED BY <1>3, <2>1, <2>2
<1>8. TypeOK' BY <1>3, <1>5, <1>7 DEF IInv, TypeOK, dataVars, Labels
<1>9. ~Holds(t) BY <1>1 DEF Holds
<1>10. CloseInv' BY <1>3, <1>4, <1>5, CloseFrame DEF NoJob, Job
<1>11. RegInv'
  <2> SUFFICES ASSUME container = "alive" PROVE RegInv'
    BY <1>3 DEF RegInv
  <2>1. Linked' = Linked \cup {s} /\ s \notin Linked BY <1>6 DEF Linked
  <2>2. /\ linkPending \in Seq(Stats) /\ linkPending' = Append(linkPending, s)
        /\ s \notin Pending /\ s \notin tlStats
    BY <1>3, <2>1 DEF IInv, TypeOK, RegInv
  <2>3. /\ DOMAIN linkPending' = DOMAIN linkPending \cup {Len(linkPending) + 1}
        /\ linkPending'[Len(linkPending) + 1] = s
        /\ \A i \in DOMAIN linkPending : linkPending'[i] = linkPending[i]
        /\ Len(linkPending) + 1 \notin DOMAIN linkPending
    BY <2>2
  <2>4. Pending' = Pending \cup {s} BY <2>3 DEF Pending
  <2>5. \A i, j \in DOMAIN linkPending' : i # j => linkPending'[i] # linkPending'[j]
    BY <2>2, <2>3 DEF IInv, RegInv, Pending
  <2>6. tlStats' # {} => ~tlStatsEmpty' BY <1>3 DEF IInv, RegInv
  <2>7. ASSUME NEW u \in Threads, At(u, {"unlink"}, "work")'
        PROVE  Doing(u)'.stat \in tlStats'
    <3>1. u # t BY <1>5, <2>7 DEF At
    <3>2. Doing(u)' = Doing(u) /\ pc'[u] = pc[u] BY <1>5, <3>1, DoingFrame
    <3> QED BY <1>3, <2>7, <3>2 DEF IInv, RegInv, At
  <2> QED BY <1>3, <2>1, <2>2, <2>4, <2>5, <2>6, <2>7 DEF RegInv, IInv
<1>12. RefInv'
  <2>1. Existing' = Existing BY <1>6 DEF Existing
  <2> QED BY <1>3, <2>1 DEF IInv, RefInv
<1>13. StatFit(t, s) BY <1>6 DEF StatFit
<1>14. \A x \in Stats : StatKept(t, x) \/ StatFit(t, x)
  BY <1>2, <1>6, <1>13 DEF StatKept
<1> QED
  BY <1>1, <1>2, <1>3, <1>4, <1>5, <1>6, <1>8, <1>9, <1>10, <1>11, <1>12, <1>14, StatStep

\* unlink() erases its stat from tlStats_.
LEMMA EraseIInv ==
  ASSUME IInv, NEW t \in Threads, Erase(t)
  PROVE  IInv'
<1>1. ThreadOK(t) /\ Doing(t).do = "unlink" /\ pc[t] = "work" /\ At(t, {"unlink"}, "work")
  BY DEF Erase, At, IInv, JobInv
<1>2. PICK s \in Stats : /\ Doing(t) = Job("unlink", s) /\ Doing(t).stat = s
                         /\ UnlinkOK(t, s) /\ s \in Uses(todo[t])
  BY <1>1, Places
<1>3. /\ UNCHANGED <<container, mutex, linkPending, refCount, name, dataVars, inHand, at>>
      /\ UNCHANGED <<visited, users, calls>> /\ Goto(t, "unlock")
      /\ life' = [life EXCEPT ![s] = "unlinked"]
      /\ container = "alive" => /\ tlStats' = tlStats \ {s}
                                /\ tlStats' # {} => tlStatsEmpty' = tlStatsEmpty
      /\ tlStats' \subseteq tlStats /\ tlStatsEmpty' \in {tlStatsEmpty, TRUE}
  BY <1>2 DEF Erase, walkVars
<1>4. /\ Others(t) /\ todo'[t] = todo[t] /\ Doing(t)' = Doing(t) /\ pc'[t] = "unlock"
      /\ todo' \in [Threads -> Seq(JobType)] /\ pc' \in [Threads -> Labels]
  BY <1>3, GotoFacts DEF Labels
<1>5. /\ life[s] = "linked" /\ local[s] = {} /\ life'[s] = "unlinked"
      /\ name'[s] = name[s] /\ local'[s] = local[s]
      /\ \A x \in Stats \ {s} : Same(x) /\ life'[x] = life[x]
  BY <1>1, <1>2, <1>3 DEF UnlinkOK, Same, dataVars, IInv, TypeOK
<1>6. TypeOK' BY <1>3, <1>4 DEF IInv, TypeOK, dataVars, Labels
<1>7. ThreadOK(t)'
  <2>1. UnlinkOK(t, s)' BY <1>4, <1>5 DEF UnlinkOK
  <2> QED BY <1>1, <1>2, <1>4, <1>5, <2>1, UnlinkGoesOn, UsesStats
<1>8. Holds(t) /\ Holds(t)' BY <1>1, <1>4 DEF Holds
<1>9. CloseInv' BY <1>1, <1>3, <1>4, CloseFrame
<1>10. RegInv'
  <2> SUFFICES ASSUME container = "alive" PROVE RegInv'
    BY <1>3 DEF RegInv
  <2>1. Linked' = Linked \ {s} BY <1>5 DEF Linked
  <2>2. Pending' = Pending BY <1>3 DEF Pending
  <2>3. s \in tlStats /\ s \notin Pending BY <1>1, <1>2 DEF IInv, RegInv
  <2>4. tlStats' # {} => ~tlStatsEmpty' BY <1>3 DEF IInv, RegInv
  <2>5. ASSUME NEW u \in Threads PROVE ~At(u, {"unlink"}, "work")'
    BY <1>4, <1>8, Alone, DoingFrame DEF At, Holds
  <2> QED BY <1>3, <2>1, <2>2, <2>3, <2>4, <2>5 DEF RegInv, IInv
<1>11. RefInv'
  <2>1. Existing' = Existing BY <1>5 DEF Existing
  <2> QED BY <1>3, <2>1 DEF IInv, RefInv
<1>12. StatFit(t, s) BY <1>2, <1>4, <1>5 DEF StatFit
<1>13. \A x \in Stats : StatKept(t, x) \/ StatFit(t, x)
  BY <1>4, <1>5, <1>12 DEF StatKept
<1>14. \A u \in Threads \ {t} : ~At(u, {"aggregate"}, "deliver")
  BY <1>8, Alone DEF At, Holds
<1> QED
  BY <1>1, <1>2, <1>3, <1>4, <1>5, <1>6, <1>7, <1>8, <1>9, <1>10, <1>11, <1>13, <1>14,
     StatStep

\* The moved-to stat takes the name and the global stat of the other.
LEMMA TakeOtherIInv ==
  ASSUME IInv, NEW t \in Threads, TakeOther(t)
  PROVE  IInv'
<1>1. ThreadOK(t) /\ Doing(t).do = "take" /\ pc[t] = "start"
  BY DEF TakeOther, At, IInv, JobInv
<1>2. PICK d \in Stats, s \in Stats :
          /\ Doing(t) = TakeJob(d, s) /\ todo[t] = TakeJobs(d, s) /\ d # s
          /\ life[d] = "unlinked" /\ life[s] = "unlinked" /\ name[s] # None
  BY <1>1, Places
<1>3. /\ todo[t] # <<>> /\ Tail(todo[t]) = <<Job("link", d)>> /\ Len(todo[t]) = 2
      /\ Uses(todo[t]) = {d, s} /\ Uses(Tail(todo[t])) = {d}
  BY <1>2, TakeList
<1>4. /\ UNCHANGED <<container, mutex, regVars, refCount, life, dataVars, inHand, at>>
      /\ UNCHANGED <<visited, calls>> /\ Return(t)
      /\ name' = [name EXCEPT ![d] = name[s], ![s] = None]
  BY <1>2 DEF TakeOther, TakeJob, walkVars
<1>5. /\ Others(t) /\ todo'[t] = Tail(todo[t]) /\ pc'[t] = "start" /\ users' = users
      /\ todo' \in [Threads -> Seq(JobType)] /\ pc' \in [Threads -> Labels] /\ ~Holds(t)'
      /\ ~At(t, {"unlink"}, "work")'
  <2>1. Len(todo[t]) # 1 /\ todo[t] # <<>> BY <1>3
  <2> HIDE DEF Return
  <2> QED BY <1>4, <2>1, ReturnFacts
<1>6. /\ name'[d] = name[s] /\ name'[s] = None /\ local[d] = {} /\ local[s] = {}
      /\ \A x \in Stats \ {d, s} : Same(x) /\ name'[x] = name[x]
  BY <1>2, <1>4 DEF Same, dataVars, IInv, TypeOK, StatInv
<1>7. TypeOK' BY <1>4, <1>5 DEF IInv, TypeOK, regVars, dataVars, Labels
<1>8. ThreadOK(t)'
  <2>1. OneStat(t, d)' BY <1>2, <1>3, <1>4, <1>5, <1>6 DEF OneStat, LinkOK
  <2> QED BY <2>1 DEF ThreadOK
<1>9. ~Holds(t) BY <1>1 DEF Holds
<1>10. CloseInv'
  <2>1. Uses(todo'[t]) # {} BY <1>3, <1>5
  <2>2. Doing(t)'.do \notin {"close", "aggregate"} BY <1>8, <2>1, UsesNone
  <2> QED BY <1>4, <1>5, <2>2, CloseFrame
<1>11. RegInv'
  <2>1. Linked' = Linked BY <1>4 DEF Linked
  <2> QED BY <1>4, <1>5, <2>1, RegFrame
<1>12. RefInv' BY <1>4 DEF IInv, RefInv, Existing
<1>13. StatFit(t, d) BY <1>2, <1>3, <1>4, <1>5, <1>6 DEF StatFit, dataVars
<1>14. StatFit(t, s) BY <1>2, <1>4, <1>6 DEF StatFit, dataVars
<1>15. \A x \in Stats : StatKept(t, x) \/ StatFit(t, x)
  BY <1>3, <1>6, <1>13, <1>14 DEF StatKept
<1>16. \A x \in Stats : name'[x] = name[x] \/ (local[x] = {} /\ life[x] # "linked")
  BY <1>2, <1>6
<1>17. Uses(todo'[t]) \subseteq Uses(todo[t]) BY <1>3, <1>5
<1> QED
  BY <1>1, <1>3, <1>4, <1>5, <1>6, <1>7, <1>8, <1>9, <1>10, <1>11, <1>12, <1>15, <1>16,
     <1>17, StatStep DEF regVars

\* ~TLStatT() gives back its reference to the link.
LEMMA DropIInv ==
  ASSUME IInv, NEW t \in Threads, Drop(t)
  PROVE  IInv'
<1>1. ThreadOK(t) /\ Doing(t).do = "drop" /\ pc[t] = "start"
  BY DEF Drop, At, IInv, JobInv
<1>2. PICK s \in Stats : /\ Doing(t).stat = s /\ todo[t] = <<Job("drop", s)>>
                         /\ life[s] = "unlinked"
  BY <1>1, Places
<1>3. Uses(todo[t]) = {s} BY <1>2, OneJob, RegistryAssumption
<1>4. /\ UNCHANGED <<container, mutex, regVars, dataVars, inHand, at, visited, calls>>
      /\ Return(t) /\ refCount' = refCount - 1
      /\ life' = [life EXCEPT ![s] = "none"] /\ name' = [name EXCEPT ![s] = None]
  BY <1>2 DEF Drop, walkVars
<1>5. todo[t] # <<>> /\ todo'[t] = <<>> /\ ThreadOK(t)' /\ Uses(todo'[t]) = {}
      /\ Doing(t)' = NoJob
  BY <1>1, <1>4, ReturnLast
<1>6. /\ Others(t) /\ pc'[t] = "start" /\ users' \subseteq users
      /\ users \ {t} \subseteq users' /\ ~Holds(t)' /\ ~At(t, {"unlink"}, "work")'
      /\ todo' \in [Threads -> Seq(JobType)] /\ pc' \in [Threads -> Labels]
  BY <1>4, <1>5, ReturnFacts
<1>7. /\ life'[s] = "none" /\ name'[s] = None /\ local[s] = {}
      /\ \A x \in Stats \ {s} : Same(x) /\ life'[x] = life[x] /\ name'[x] = name[x]
  BY <1>2, <1>4 DEF Same, dataVars, IInv, TypeOK, StatInv
<1>8. /\ Existing' = Existing \ {s} /\ s \in Existing
      /\ Cardinality(Existing') = Cardinality(Existing) - 1 /\ Cardinality(Existing) \in Nat
      /\ Cardinality(Existing') \in Nat
  <2>1. Existing' = Existing \ {s} /\ s \in Existing BY <1>2, <1>7 DEF Existing
  <2>2. IsFiniteSet(Existing) BY ExistingCount
  <2>3. IsFiniteSet(Existing') BY <2>1, <2>2, FS_Subset
  <2> QED BY <2>1, <2>2, <2>3, ExistingCount, FS_CardinalityType
<1>9. RefInv' BY <1>4, <1>8 DEF IInv, RefInv
<1>10. refCount' \in Nat BY <1>8, <1>9 DEF RefInv
<1>11. TypeOK' BY <1>4, <1>6, <1>10 DEF IInv, TypeOK, regVars, dataVars, Labels
<1>12. ~Holds(t) BY <1>1 DEF Holds
<1>13. CloseInv'
  <2>1. Doing(t)'.do = "none" BY <1>5 DEF NoJob, Job
  <2>2. UNCHANGED container BY <1>4
  <2> QED BY <1>6, <2>1, <2>2, CloseFrame
<1>14. RegInv'
  <2>1. Linked' = Linked BY <1>2, <1>7 DEF Linked
  <2> QED BY <1>4, <1>6, <2>1, RegFrame
<1>15. StatFit(t, s) BY <1>4, <1>7 DEF StatFit, dataVars
<1>16. \A x \in Stats : StatKept(t, x) \/ StatFit(t, x)
  BY <1>3, <1>7, <1>15 DEF StatKept
<1>17. \A x \in Stats : name'[x] = name[x] \/ (local[x] = {} /\ life[x] # "linked")
  BY <1>2, <1>7
<1> QED
  BY <1>1, <1>3, <1>4, <1>5, <1>6, <1>7, <1>9, <1>11, <1>12, <1>13, <1>14, <1>16, <1>17,
     StatStep DEF regVars

\* ~ThreadLocalStatsT() leaves the link.
LEMMA DetachIInv ==
  ASSUME IInv, NEW t \in Threads, Detach(t)
  PROVE  IInv'
<1>1. ThreadOK(t) /\ Doing(t).do = "close" /\ pc[t] = "work"
  BY DEF Detach, At, IInv, JobInv
<1>2. /\ UNCHANGED <<mutex, linkPending, refCount, life, name, dataVars, inHand, at>>
      /\ UNCHANGED <<visited, users, calls>> /\ Goto(t, "unlock")
      /\ container' = "detached" /\ tlStats' = {} /\ tlStatsEmpty' = TRUE
  BY DEF Detach, walkVars
<1>3. /\ Others(t) /\ todo'[t] = todo[t] /\ Doing(t)' = Doing(t) /\ pc'[t] = "unlock"
      /\ todo' \in [Threads -> Seq(JobType)] /\ pc' \in [Threads -> Labels]
  BY <1>2, GotoFacts DEF Labels
<1>4. /\ users = {} /\ container = "alive"
      /\ \A u \in Threads : Doing(u).do = "close" => u = t
      /\ \A u \in Threads : Doing(u).do # "aggregate"
  BY <1>1 DEF IInv, CloseInv
<1>5. TypeOK' BY <1>2, <1>3 DEF IInv, TypeOK, dataVars, Labels
<1>6. \A s \in Stats : Same(s) BY <1>2 DEF Same, dataVars
<1>7. ThreadOK(t)' BY <1>1, <1>2, <1>3, StaysOK DEF dataVars
<1>8. Holds(t) /\ Holds(t)' BY <1>1, <1>3 DEF Holds
<1>9. CloseInv'
  <2>1. \A u \in Threads : Doing(u)' = Doing(u) BY <1>3, DoingFrame
  <2>2. \A u \in Threads : Doing(u)'.do = "close" => u = t BY <1>4, <2>1
  <2> QED BY <1>2, <1>3, <1>4, <2>1, <2>2 DEF CloseInv
<1>10. RegInv' BY <1>2 DEF RegInv
<1>11. RefInv' BY <1>2, <1>4 DEF IInv, RefInv, Existing
<1>12. \A u \in Threads : ~At(u, {"aggregate"}, "deliver") BY <1>4 DEF At
<1> QED
  BY <1>1, <1>2, <1>3, <1>5, <1>6, <1>7, <1>8, <1>9, <1>10, <1>11, <1>12, StatStep
     DEF StatKept

\* The container is freed, and its reference to the link with it.
LEMMA FreeIInv ==
  ASSUME IInv, NEW t \in Threads, Free(t)
  PROVE  IInv'
<1>1. ThreadOK(t) /\ Doing(t).do = "close" /\ pc[t] = "free"
  BY DEF Free, At, IInv, JobInv
<1>2. Uses(todo[t]) = {}
  <2>1. todo[t] = <<Job("close", None)>> BY <1>1, Places
  <2> QED BY <2>1, OneJob
<1>3. /\ UNCHANGED <<mutex, tlStats, tlStatsEmpty, life, name, dataVars, inHand, at>>
      /\ UNCHANGED <<visited, calls>> /\ Return(t)
      /\ container' = "freed" /\ linkPending' = <<>> /\ refCount' = refCount - 1
  BY DEF Free, walkVars
<1>4. todo[t] # <<>> /\ todo'[t] = <<>> /\ ThreadOK(t)' /\ Uses(todo'[t]) = {}
      /\ Doing(t)' = NoJob
  BY <1>1, <1>3, ReturnLast
<1>5. /\ Others(t) /\ pc'[t] = "start" /\ users' \subseteq users /\ ~Holds(t)'
      /\ todo' \in [Threads -> Seq(JobType)] /\ pc' \in [Threads -> Labels]
  BY <1>3, <1>4, ReturnFacts
<1>6. /\ users = {} /\ container = "detached"
      /\ \A u \in Threads : Doing(u).do = "close" => u = t
      /\ \A u \in Threads : Doing(u).do # "aggregate"
  BY <1>1 DEF IInv, CloseInv
<1>7. RefInv' /\ refCount' \in Nat
  <2>1. IsFiniteSet(Existing) BY RegistryAssumption, FS_Subset DEF Existing
  <2>2. Existing' = Existing /\ Cardinality(Existing) \in Nat
    BY <1>3, <2>1, FS_CardinalityType DEF Existing
  <2> QED BY <1>3, <1>6, <2>2 DEF IInv, RefInv
<1>8. TypeOK'
  <2>1. <<>> \in Seq(Stats) OBVIOUS
  <2> QED BY <1>3, <1>5, <1>7, <2>1 DEF IInv, TypeOK, dataVars, Labels
<1>9. \A s \in Stats : Same(s) BY <1>3 DEF Same, dataVars
<1>10. ~Holds(t) BY <1>1 DEF Holds
<1>11. CloseInv'
  <2>1. \A u \in Threads \ {t} : Doing(u)' = Doing(u) BY <1>5, DoingFrame
  <2>2. \A u \in Threads : Doing(u)'.do \notin {"close", "aggregate"}
    BY <1>4, <1>6, <2>1 DEF NoJob, Job
  <2> QED BY <1>5, <1>6, <2>2 DEF CloseInv
<1>12. RegInv' BY <1>3 DEF RegInv
<1>13. \A u \in Threads : ~At(u, {"aggregate"}, "deliver") BY <1>6 DEF At
<1> QED
  BY <1>1, <1>2, <1>3, <1>4, <1>5, <1>7, <1>8, <1>9, <1>10, <1>11, <1>12, <1>13, StatStep
     DEF StatKept

-----------------------------------------------------------------------------
(***************************************************************************)
(* The invariant is inductive.                                             *)
(***************************************************************************)
\* ThreadLocalStatsT(): no stat, nobody at work, one reference.
LEMMA InitIInv == Init => IInv
<1> SUFFICES ASSUME Init PROVE IInv
  OBVIOUS
<1>1. /\ \A t \in Threads : todo[t] = <<>> /\ pc[t] = "start" /\ inHand[t] = {}
      /\ \A s \in Stats : life[s] = "none" /\ name[s] = None /\ local[s] = {}
      /\ \A n \in Names : total[n] = {} /\ added[n] = {}
  BY DEF Init
<1>2. \A t \in Threads : Doing(t) = NoJob BY <1>1 DEF Doing
<1>3. TypeOK
  <2>1. <<>> \in Seq(Stats) /\ <<>> \in Seq(JobType) OBVIOUS
  <2> QED BY <2>1 DEF Init, TypeOK
<1>4. JobInv BY <1>1 DEF JobInv, ThreadOK
<1>5. OneUser BY <1>1, OneJob DEF OneUser
<1>6. LockInv BY <1>1, RegistryAssumption DEF Init, LockInv, Holds
<1>7. StatInv BY <1>1 DEF StatInv
<1>8. RegInv
  <2>1. Pending = {} /\ Linked = {} BY <1>1 DEF Init, Pending, Linked
  <2> QED BY <1>1, <2>1 DEF Init, RegInv, At
<1>9. CloseInv BY <1>2 DEF Init, CloseInv, NoJob, Job
<1>10. HandInv BY <1>1 DEF HandInv, At
<1>11. RefInv
  <2>1. Existing = {} BY <1>1 DEF Existing
  <2> QED BY <2>1, FS_EmptySet DEF Init, RefInv
<1>12. PlaceInv BY <1>1 DEF PlaceInv, InStat, InHand
<1>13. OnceInv BY <1>1 DEF OnceInv
<1> QED
  BY <1>3, <1>4, <1>5, <1>6, <1>7, <1>8, <1>9, <1>10, <1>11, <1>12, <1>13 DEF IInv

\* Nothing changes.
LEMMA StutterIInv ==
  ASSUME IInv, UNCHANGED vars
  PROVE  IInv'
<1>1. UNCHANGED <<container, mutex, tlStats, linkPending, tlStatsEmpty, refCount, life, name,
                  local, total, added, todo, pc, inHand, at, visited, users, calls>>
  BY DEF vars, regVars, dataVars, walkVars
<1>2. TypeOK' BY <1>1 DEF IInv, TypeOK
<1>3. JobInv' /\ OneUser'
  <2>1. \A s : Same(s) BY <1>1 DEF Same
  <2>2. \A t \in Threads : ThreadOK(t)' BY <1>1, <2>1, ThreadFrame DEF IInv, JobInv
  <2> QED BY <1>1, <2>2 DEF IInv, JobInv, OneUser
<1>4. LockInv' /\ StatInv' BY <1>1 DEF IInv, LockInv, StatInv, Holds, Doing, Busy
<1>5. RegInv' BY <1>1 DEF IInv, RegInv, Pending, Linked, At, Doing
<1>6. CloseInv' /\ HandInv' BY <1>1 DEF IInv, CloseInv, HandInv, At, Doing
<1>7. RefInv' BY <1>1 DEF IInv, RefInv, Existing
<1>8. PlaceInv' BY <1>1 DEF IInv, PlaceInv, InStat, InHand, Meant, Doing
<1>9. OnceInv' BY <1>1 DEF IInv, OnceInv
<1> QED BY <1>2, <1>3, <1>4, <1>5, <1>6, <1>7, <1>8, <1>9 DEF IInv

\* Every step keeps the invariant.
LEMMA NextIInv == IInv /\ [Next]_vars => IInv'
<1> SUFFICES ASSUME IInv, [Next]_vars PROVE IInv'
  OBVIOUS
<1>1. CASE UNCHANGED vars BY <1>1, StutterIInv
<1>2. ASSUME NEW t \in Threads, Call(t) PROVE IInv'
  BY <1>2, ConstructIInv, DestroyIInv, ExportStatIInv, MoveConstructIInv, MoveAssignIInv,
     AddValueIInv, AggregateIInv, CloseIInv
     DEF Call
<1>3. ASSUME NEW t \in Threads, LinkStep(t) PROVE IInv'
  BY <1>3, TryLockIInv, InsertIInv, DeferredPushIInv, DeferredDeadIInv, PushPendingIInv
     DEF LinkStep
<1>4. ASSUME NEW t \in Threads, UnlinkStep(t) PROVE IInv'
  BY <1>4, TakeLocalIInv, UnlinkNothingIInv, DeliverLocalIInv, EraseIInv DEF UnlinkStep
<1>5. ASSUME NEW t \in Threads, WalkStep(t) PROVE IInv'
  BY <1>5, ReadEmptyIInv, TakeStatIInv, DeliverStatIInv DEF WalkStep
<1>6. ASSUME NEW t \in Threads, Step(t) PROVE IInv'
  BY <1>3, <1>4, <1>5, <1>6, LockIInv, DrainIInv, UnlockIInv, TakeOtherIInv, DropIInv,
     DetachIInv, FreeIInv
     DEF Step
<1> QED BY <1>1, <1>2, <1>6 DEF Next

\* The state of every operation, of the stats it is about and of the registry
\* fit together, whatever the threads do.
THEOREM RegistryInvariant == Spec => []IInv
  BY InitIInv, NextIInv, PTL DEF Spec

-----------------------------------------------------------------------------
(***************************************************************************)
(* What follows for the code.                                              *)
(***************************************************************************)
\* A list without repetitions has as many members as its length.
LEMMA DistinctCount ==
  ASSUME NEW S, NEW q \in Seq(S), \A i, j \in DOMAIN q : i # j => q[i] # q[j]
  PROVE  Cardinality({q[i] : i \in DOMAIN q}) = Len(q)
<1> DEFINE R == {q[i] : i \in 1 .. Len(q)}
           f == [i \in 1 .. Len(q) |-> q[i]]
<1>1. Len(q) \in Nat /\ DOMAIN q = 1 .. Len(q) OBVIOUS
<1>2. f \in Bijection(1 .. Len(q), R)
  BY <1>1 DEF Bijection, Injection, Surjection, IsInjective
<1>3. IsFiniteSet(1 .. Len(q)) /\ Cardinality(1 .. Len(q)) = Len(q)
  <2>1. Cardinality(1 .. Len(q)) = IF 1 > Len(q) THEN 0 ELSE Len(q) - 1 + 1
    BY <1>1, FS_Interval
  <2> QED BY <1>1, <2>1, FS_Interval
<1>4. Cardinality(1 .. Len(q)) = Cardinality(R)
  <2> HIDE DEF f, R
  <2>1. ExistsBijection(1 .. Len(q), R) BY <1>2 DEF ExistsBijection
  <2> QED BY <1>3, <2>1, FS_Bijection
<1> QED BY <1>1, <1>3, <1>4

\* The variables have their types.
THEOREM RegistryTypes == Spec => []TypeOK
<1>1. IInv => TypeOK BY DEF IInv
<1> QED BY <1>1, RegistryInvariant, PTL

\* The CHECKs of link(), unlink() and completePendingLink() never fire, and the
\* flag that aggregate() reads without the lock is not left TRUE with a stat in
\* tlStats_.
THEOREM ChecksHold == Spec => []RegistryChecks
<1>1. ASSUME IInv PROVE RegistryChecks
  <2> SUFFICES ASSUME container = "alive"
               PROVE  /\ tlStats # {} => ~tlStatsEmpty
                      /\ tlStats \cap Pending = {}
                      /\ Cardinality(Pending) = Len(linkPending)
                      /\ \A t \in Threads :
                            /\ At(t, {"unlink"}, "work") => Doing(t).stat \in tlStats
                            /\ At(t, {"link"}, "start") => life[Doing(t).stat] = "unlinked"
                            /\ At(t, {"link"}, "work") => Doing(t).stat \notin tlStats
    BY DEF RegistryChecks
  <2>1. Cardinality(Pending) = Len(linkPending)
    <3>1. linkPending \in Seq(Stats) BY <1>1 DEF IInv, TypeOK
    <3>2. \A i, j \in DOMAIN linkPending : i # j => linkPending[i] # linkPending[j]
      BY <1>1 DEF IInv, RegInv
    <3> QED BY <3>1, <3>2, DistinctCount DEF Pending
  <2>2. ASSUME NEW t \in Threads, At(t, {"link"}, "start") \/ At(t, {"link"}, "work")
        PROVE  life[Doing(t).stat] = "unlinked"
    <3>1. ThreadOK(t) /\ Doing(t).do = "link" /\ pc[t] \in {"start", "work"}
      BY <1>1, <2>2 DEF IInv, JobInv, At
    <3> QED BY <3>1, LinkPlace DEF LinkOK
  <2>3. \A s \in tlStats : life[s] = "linked" BY <1>1 DEF IInv, RegInv, Linked
  <2> QED BY <1>1, <2>1, <2>2, <2>3 DEF IInv, RegInv
<1> QED BY <1>1, RegistryInvariant, PTL

\* Whatever aggregate() can reach is constructed and not moved from.
THEOREM ReachedAreLive == Spec => []ReachableAreLive
<1>1. ASSUME IInv PROVE ReachableAreLive
  <2>1. \A s \in Linked : life[s] # "none" /\ name[s] # None
    BY <1>1 DEF IInv, StatInv, Linked
  <2>2. container = "alive" => tlStats \cup Pending = Linked BY <1>1 DEF IInv, RegInv
  <2>3. ASSUME NEW t \in Threads, At(t, {"aggregate"}, "deliver")
        PROVE  at[t] \in Linked
    BY <1>1, <2>3, MeantIs DEF At, MeantStat, Linked
  <2> QED BY <2>1, <2>2, <2>3 DEF ReachableAreLive
<1> QED BY <1>1, RegistryInvariant, PTL

\* No update is lost, counted twice or credited to another name.
THEOREM UpdatesAreConserved == Spec => []UpdatesConserved
<1>1. ASSUME IInv PROVE UpdatesConserved
  <2>1. ASSUME NEW n \in Names
        PROVE  added[n] = total[n]
                  \cup (UNION {local[s] : s \in {x \in Stats : name[x] = n}})
                  \cup (UNION {inHand[t] : t \in {v \in Threads :
                                                   inHand[v] # {} /\ Meant(v) = n}})
    <3> DEFINE L == UNION {local[s] : s \in {x \in Stats : name[x] = n}}
               H == UNION {inHand[t] : t \in {v \in Threads : inHand[v] # {} /\ Meant(v) = n}}
    <3>1. \A u \in Updates : u \in L <=> \E s \in Stats : InStat(s, n, u) BY DEF InStat
    <3>2. \A u \in Updates : u \in H <=> \E t \in Threads : InHand(t, n, u) BY DEF InHand
    <3>3. L \subseteq Updates /\ H \subseteq Updates BY <1>1 DEF IInv, TypeOK
    <3>4. total[n] \subseteq Updates /\ added[n] \subseteq Updates BY <1>1 DEF IInv, TypeOK
    <3>5. \A u \in Updates : u \in added[n] <=>
               u \in total[n] \/ (\E s \in Stats : InStat(s, n, u))
                \/ (\E t \in Threads : InHand(t, n, u))
      BY <1>1 DEF IInv, PlaceInv
    <3> HIDE DEF L, H
    <3>6. added[n] = total[n] \cup L \cup H BY <3>1, <3>2, <3>3, <3>4, <3>5
    <3> QED BY <3>6 DEF L, H
  <2>2. \A s \in Stats : local[s] # {} => name[s] # None BY <1>1 DEF IInv, StatInv, TypeOK
  <2> QED BY <1>1, <2>1, <2>2 DEF UpdatesConserved, IInv, OnceInv
<1> QED BY <1>1, RegistryInvariant, PTL

\* The link outlives every lock held on it and every operation in progress.
THEOREM LinkOutlives == Spec => []LinkOutlivesUse
<1>1. ASSUME IInv PROVE LinkOutlivesUse
  <2>1. refCount = Cardinality({s \in Stats : life[s] # "none"})
                   + (IF container = "freed" THEN 0 ELSE 1)
    BY <1>1 DEF IInv, RefInv, Existing
  <2>2. ASSUME NEW t \in Threads, todo[t] # <<>> PROVE refCount > 0
    <3>1. ThreadOK(t) BY <1>1 DEF IInv, JobInv
    <3>2. IsFiniteSet(Existing) /\ Cardinality(Existing) \in Nat
      <4>1. IsFiniteSet(Existing) BY RegistryAssumption, FS_Subset DEF Existing
      <4> QED BY <4>1, FS_CardinalityType
    <3>3. CASE container # "freed" BY <1>1, <3>2, <3>3 DEF IInv, RefInv
    <3>4. CASE container = "freed"
      <4>1. \E s \in Stats : life[s] # "none"
        <5>1. Doing(t).do \notin {"none", "close", "aggregate"}
          BY <1>1, <2>2, <3>1, <3>4, Places DEF IInv, CloseInv
        <5>2. CASE Doing(t).do = "link" BY <3>1, <5>2, LinkPlace DEF LinkOK
        <5>3. CASE Doing(t).do = "unlink" BY <3>1, <5>3, Places DEF UnlinkOK
        <5>4. CASE Doing(t).do \in {"take", "drop", "export"} BY <3>1, <5>4, Places
        <5> QED BY <3>1, <5>1, <5>2, <5>3, <5>4, Places
      <4>2. Existing # {} BY <4>1 DEF Existing
      <4>3. Cardinality(Existing) # 0 BY <3>2, <4>2, FS_EmptySet
      <4> QED BY <1>1, <3>2, <4>3 DEF IInv, RefInv
    <3> QED BY <3>3, <3>4
  <2>3. ASSUME mutex # None PROVE refCount > 0
    <3>1. PICK t \in Threads : mutex = t BY <1>1, <2>3 DEF IInv, TypeOK
    <3>2. Holds(t) BY <1>1, <3>1 DEF IInv, LockInv
    <3>3. ThreadOK(t) /\ pc[t] # "start" BY <1>1, <3>2 DEF IInv, JobInv, Holds
    <3>4. todo[t] # <<>> BY <3>3, Places
    <3> QED BY <2>2, <3>4
  <2> QED BY <2>1, <2>2, <2>3 DEF LinkOutlivesUse
<1> QED BY <1>1, RegistryInvariant, PTL

-----------------------------------------------------------------------------
(***************************************************************************)
(* TLStatNameSet: a string is dying in one thread only, and what the set   *)
(* refers to is shared or has its deleter still to run.                    *)
(***************************************************************************)
\* Nothing is allocated, entered or held at the start.
LEMMA InitNameSetInv == NameSetInit => NameSetInv
  BY NameSetAssumption
  DEF NameSetInit, NameSetInv, NameSetTypeOK, KeysReadable, EntriesInUse, DyingInv, WantInv,
      Lockable

\* get() begins: no string, entry or pointer changes.
LEMMA GetIInv ==
  ASSUME NameSetInv, NEW t \in Users, NEW n \in StatNames, Get(t, n)
  PROVE  NameSetInv'
  BY NameSetAssumption
  DEF Get, NameSetInv, NameSetTypeOK, KeysReadable, EntriesInUse, DyingInv, WantInv, Lockable

\* getFast(): sharing a lockable string adds a pointer to a string in use.
LEMMA GetFastIInv ==
  ASSUME NameSetInv, NEW t \in Users, GetFast(t)
  PROVE  NameSetInv'
<1>1. CASE Hit(want[t]) /\ Share(t, entry[want[t]])
  <2>1. NameSetTypeOK' /\ WantInv'
    BY <1>1, NameSetAssumption
    DEF GetFast, Hit, Share, NameSetInv, NameSetTypeOK, WantInv
  <2>2. \A a \in Addrs : Lockable(a)' <=> Lockable(a)
    BY <1>1 DEF GetFast, Hit, Share, Lockable, NameSetInv, NameSetTypeOK, WantInv
  <2>3. KeysReadable'
    BY <1>1 DEF GetFast, NameSetInv, KeysReadable
  <2>4. EntriesInUse'
    BY <1>1, <2>2 DEF GetFast, Share, NameSetInv, EntriesInUse, NameSetTypeOK
  <2>5. DyingInv'
    BY <1>1, <2>2 DEF GetFast, Share, NameSetInv, DyingInv, NameSetTypeOK
  <2> QED BY <2>1, <2>3, <2>4, <2>5 DEF NameSetInv
<1>2. CASE ~(Hit(want[t]) /\ Share(t, entry[want[t]]))
  BY <1>2, NameSetAssumption
  DEF GetFast, NameSetInv, NameSetTypeOK, KeysReadable, EntriesInUse, DyingInv, WantInv, Lockable
<1> QED BY <1>1, <1>2

\* getSlow(): a new string takes the place of an expired entry only.
LEMMA GetSlowIInv ==
  ASSUME NameSetInv, NEW t \in Users, NEW a \in Addrs, GetSlow(t, a)
  PROVE  NameSetInv'
<1>0. want[t] \in StatNames
  BY DEF GetSlow, NameSetInv, WantInv
<1>1. NameSetTypeOK' /\ WantInv'
  BY <1>0, NameSetAssumption DEF GetSlow, Share, NameSetInv, NameSetTypeOK, WantInv
<1>2. Lockable(a)' /\ \A b \in Addrs \ {a} : Lockable(b)' <=> Lockable(b)
  BY DEF GetSlow, Share, Lockable, NameSetInv, NameSetTypeOK
<1>3. CASE Hit(want[t])
  <2>1. nameAt' = nameAt /\ entry' = entry /\ a = entry[want[t]] /\ Lockable(a)
    BY <1>3 DEF GetSlow, Hit
  <2>2. \A b \in Addrs : Lockable(b)' <=> Lockable(b)
    BY <1>2, <2>1
  <2>3. KeysReadable'
    BY <2>1 DEF NameSetInv, KeysReadable
  <2>4. EntriesInUse'
    BY <2>1, <2>2 DEF GetSlow, Share, NameSetInv, EntriesInUse, NameSetTypeOK
  <2>5. DyingInv'
    BY <2>1, <2>2 DEF GetSlow, Share, NameSetInv, DyingInv, NameSetTypeOK
  <2> QED BY <1>1, <2>3, <2>4, <2>5 DEF NameSetInv
<1>4. CASE ~Hit(want[t])
  <2>1. /\ nameAt[a] = Null
        /\ nameAt' = [nameAt EXCEPT ![a] = want[t]]
        /\ entry' = [entry EXCEPT ![want[t]] = a]
    BY <1>4 DEF GetSlow
  <2>2. \A n \in StatNames : entry[n] # a
    BY <2>1, NameSetAssumption DEF NameSetInv, KeysReadable, NameSetTypeOK
  <2>3. KeysReadable'
    BY <1>0, <2>1, <2>2, NameSetAssumption DEF NameSetInv, KeysReadable, NameSetTypeOK
  <2>4. \A u \in Users : place[u] \in {"clean", "delete"} => dying[u] # a
    BY <2>1 DEF NameSetInv, DyingInv
  <2>5. EntriesInUse'
    <3>1. \A n \in StatNames : (entry'[n] # Null /\ ~Lockable(entry[n])') =>
             \E u \in Users : place'[u] = "clean" /\ dying'[u] = entry'[n]
      BY <1>0, <1>2, <2>1, <2>2
      DEF GetSlow, Share, NameSetInv, EntriesInUse, NameSetTypeOK
    <3>2. \A b \in Addrs : Lockable(b)' => nameAt'[b] # Null /\ entry'[nameAt'[b]] = b
      <4> SUFFICES ASSUME NEW b \in Addrs, Lockable(b)'
                   PROVE  nameAt'[b] # Null /\ entry'[nameAt'[b]] = b
        OBVIOUS
      <4>1. CASE b = a
        BY <4>1, <1>0, <2>1, NameSetAssumption DEF NameSetInv, NameSetTypeOK
      <4>2. CASE b # a
        <5>1. Lockable(b) BY <4>2, <1>2
        <5>2. nameAt[b] \in StatNames /\ entry[nameAt[b]] = b
          BY <5>1 DEF NameSetInv, EntriesInUse, NameSetTypeOK
        <5>3. nameAt[b] # want[t]
          BY <5>1, <5>2, <1>4, NameSetAssumption DEF Hit
        <5> QED BY <4>2, <5>2, <5>3, <2>1, NameSetAssumption DEF NameSetInv, NameSetTypeOK
      <4> QED BY <4>1, <4>2
    <3> QED BY <3>1, <3>2 DEF EntriesInUse
  <2>6. DyingInv'
    BY <1>0, <1>2, <2>1, <2>4 DEF GetSlow, Share, NameSetInv, DyingInv, NameSetTypeOK
  <2> QED BY <1>1, <2>3, <2>5, <2>6 DEF NameSetInv
<1> QED BY <1>3, <1>4

\* Dropping a pointer: the last one makes the string dying in this thread.
LEMMA ReleaseIInv ==
  ASSUME NameSetInv, NEW t \in Users, NEW a \in Addrs, Release(t, a)
  PROVE  NameSetInv'
<1>1. NameSetTypeOK' /\ WantInv' /\ KeysReadable'
  BY NameSetAssumption DEF Release, NameSetInv, NameSetTypeOK, WantInv, KeysReadable
<1>2. \A b \in Addrs \ {a} : Lockable(b)' <=> Lockable(b)
  BY DEF Release, Lockable, NameSetInv, NameSetTypeOK
<1>3. Lockable(a) BY DEF Release, Lockable
<1>4. CASE \E u \in Users \ {t} : a \in held[u]
  <2>1. Lockable(a)' BY <1>4 DEF Release, Lockable, NameSetInv, NameSetTypeOK
  <2> QED BY <1>1, <1>2, <1>3, <1>4, <2>1
          DEF Release, NameSetInv, EntriesInUse, DyingInv, NameSetTypeOK
<1>5. CASE \A u \in Users \ {t} : a \notin held[u]
  <2>1. /\ place' = [place EXCEPT ![t] = "clean"]
        /\ dying' = [dying EXCEPT ![t] = a]
        /\ place[t] = "idle" /\ nameAt' = nameAt /\ entry' = entry
    BY <1>5 DEF Release
  <2>2. ~Lockable(a)' BY <1>5 DEF Release, Lockable, NameSetInv, NameSetTypeOK
  <2>3. \A u \in Users : place[u] \in {"clean", "delete"} => dying[u] # a
    BY <1>3 DEF NameSetInv, DyingInv
  <2>4. nameAt[a] # Null BY <1>3 DEF NameSetInv, EntriesInUse
  <2>5. EntriesInUse'
    BY <1>2, <2>1, <2>2 DEF NameSetInv, EntriesInUse, NameSetTypeOK
  <2>6. DyingInv'
    BY <1>2, <2>1, <2>2, <2>3, <2>4 DEF NameSetInv, DyingInv, NameSetTypeOK
  <2> QED BY <1>1, <2>5, <2>6 DEF NameSetInv
<1> QED BY <1>4, <1>5

\* clean() takes out an entry only if it refers to the dying string.
LEMMA CleanIInv ==
  ASSUME NameSetInv, NEW t \in Users, Clean(t)
  PROVE  NameSetInv'
<1> DEFINE d == dying[t]
           n == nameAt[d]
<1>1. d \in Addrs /\ n \in StatNames /\ ~Lockable(d)
  BY DEF Clean, NameSetInv, DyingInv, NameSetTypeOK
<1>2. /\ place' = [place EXCEPT ![t] = "delete"]
      /\ nameAt' = nameAt /\ held' = held /\ want' = want /\ dying' = dying
      /\ \A m \in StatNames : entry'[m] = IF m = n /\ entry[n] = d THEN Null ELSE entry[m]
      /\ place[t] = "clean"
  BY <1>1 DEF Clean, NameSetInv, NameSetTypeOK
<1>3. NameSetTypeOK' /\ WantInv'
  BY <1>1, NameSetAssumption DEF Clean, NameSetInv, NameSetTypeOK, WantInv
<1>4. \A b \in Addrs : Lockable(b)' <=> Lockable(b)
  BY <1>2 DEF Lockable
<1>5. KeysReadable'
  BY <1>2 DEF NameSetInv, KeysReadable
<1>6. \A m \in StatNames : entry'[m] # d
  BY <1>1, <1>2, NameSetAssumption DEF NameSetInv, KeysReadable
<1>7. EntriesInUse'
  <2>1. \A m \in StatNames : (entry'[m] # Null /\ ~Lockable(entry[m])') =>
           \E u \in Users : place'[u] = "clean" /\ dying'[u] = entry'[m]
    <3> SUFFICES ASSUME NEW m \in StatNames, entry'[m] # Null, ~Lockable(entry[m])'
                 PROVE  \E u \in Users : place'[u] = "clean" /\ dying'[u] = entry'[m]
      OBVIOUS
    <3>1. entry'[m] = entry[m] /\ entry[m] \in Addrs
      BY <1>2 DEF NameSetInv, NameSetTypeOK
    <3>2. PICK u \in Users : place[u] = "clean" /\ dying[u] = entry[m]
      BY <3>1, <1>4 DEF NameSetInv, EntriesInUse
    <3>3. u # t BY <3>1, <3>2, <1>6
    <3> QED BY <3>1, <3>2, <3>3, <1>2 DEF NameSetInv, NameSetTypeOK
  <2>2. \A b \in Addrs : Lockable(b)' => nameAt'[b] # Null /\ entry'[nameAt'[b]] = b
    BY <1>1, <1>2, <1>4 DEF NameSetInv, EntriesInUse, NameSetTypeOK
  <2> QED BY <2>1, <2>2 DEF EntriesInUse
<1>8. DyingInv'
  <2>1. \A u \in Users : place'[u] \in {"clean", "delete"} => place[u] \in {"clean", "delete"}
    BY <1>2 DEF NameSetInv, NameSetTypeOK
  <2>2. \A u \in Users : place'[u] = "delete" => \A m \in StatNames : entry'[m] # dying'[u]
    <3> SUFFICES ASSUME NEW u \in Users, place'[u] = "delete", NEW m \in StatNames
                 PROVE  entry'[m] # dying'[u]
      OBVIOUS
    <3>1. CASE u = t BY <3>1, <1>2, <1>6
    <3>2. CASE u # t
      <4>1. place[u] = "delete" /\ dying[u] \in Addrs /\ entry[m] # dying[u]
        BY <3>2, <1>2 DEF NameSetInv, DyingInv, NameSetTypeOK
      <4> QED BY <4>1, <1>2, NameSetAssumption
    <3> QED BY <3>1, <3>2
  <2> QED BY <2>1, <2>2, <1>2, <1>4 DEF NameSetInv, DyingInv
<1> QED BY <1>3, <1>5, <1>7, <1>8 DEF NameSetInv

\* The string is freed when no pointer and no entry refers to it any more.
LEMMA DeleteIInv ==
  ASSUME NameSetInv, NEW t \in Users, Delete(t)
  PROVE  NameSetInv'
<1> DEFINE d == dying[t]
<1>1. /\ d \in Addrs /\ ~Lockable(d)
      /\ \A n \in StatNames : entry[n] # d
      /\ \A u \in Users \ {t} : place[u] \in {"clean", "delete"} => dying[u] # d
  BY DEF Delete, NameSetInv, DyingInv
<1>2. /\ nameAt' = [nameAt EXCEPT ![d] = Null]
      /\ place' = [place EXCEPT ![t] = "idle"]
      /\ dying' = [dying EXCEPT ![t] = Null]
      /\ entry' = entry /\ held' = held /\ want' = want /\ place[t] = "delete"
  BY DEF Delete
<1>3. NameSetTypeOK' /\ WantInv'
  BY <1>1, <1>2, NameSetAssumption DEF NameSetInv, NameSetTypeOK, WantInv
<1>4. \A b \in Addrs : Lockable(b)' <=> Lockable(b)
  BY <1>2 DEF Lockable
<1>5. KeysReadable'
  BY <1>1, <1>2 DEF NameSetInv, KeysReadable, NameSetTypeOK
<1>6. EntriesInUse'
  <2>1. \A m \in StatNames : (entry'[m] # Null /\ ~Lockable(entry[m])') =>
           \E u \in Users : place'[u] = "clean" /\ dying'[u] = entry'[m]
    <3> SUFFICES ASSUME NEW m \in StatNames, entry'[m] # Null, ~Lockable(entry[m])'
                 PROVE  \E u \in Users : place'[u] = "clean" /\ dying'[u] = entry'[m]
      OBVIOUS
    <3>1. entry[m] \in Addrs /\ ~Lockable(entry[m])
      BY <1>2, <1>4 DEF NameSetInv, NameSetTypeOK
    <3>2. PICK u \in Users : place[u] = "clean" /\ dying[u] = entry[m]
      BY <3>1, NameSetAssumption DEF NameSetInv, EntriesInUse
    <3>3. u # t BY <3>2, <1>2
    <3> QED BY <3>2, <3>3, <1>2 DEF NameSetInv, NameSetTypeOK
  <2>2. \A b \in Addrs : Lockable(b)' => nameAt'[b] # Null /\ entry'[nameAt'[b]] = b
    BY <1>1, <1>2, <1>4 DEF NameSetInv, EntriesInUse, NameSetTypeOK
  <2> QED BY <2>1, <2>2 DEF EntriesInUse
<1>7. DyingInv'
  BY <1>1, <1>2, <1>4 DEF NameSetInv, DyingInv, NameSetTypeOK
<1> QED BY <1>3, <1>5, <1>6, <1>7 DEF NameSetInv

\* Every step, and stuttering, keeps the invariant.
LEMMA NextNameSetInv == NameSetInv /\ [NameSetNext]_nameSetVars => NameSetInv'
<1> SUFFICES ASSUME NameSetInv, [NameSetNext]_nameSetVars PROVE NameSetInv'
  OBVIOUS
<1>1. CASE UNCHANGED nameSetVars
  BY <1>1
  DEF nameSetVars, NameSetInv, NameSetTypeOK, KeysReadable, EntriesInUse, DyingInv, WantInv,
      Lockable
<1>2. CASE NameSetNext
  BY <1>2, GetIInv, GetFastIInv, GetSlowIInv, ReleaseIInv, CleanIInv, DeleteIInv
  DEF NameSetNext, NameSetStep
<1> QED BY <1>1, <1>2

\* The inductive invariant holds in every reachable state.
THEOREM NameSetInvariant == NameSetSpec => []NameSetInv
  BY InitNameSetInv, NextNameSetInv, PTL DEF NameSetSpec

\* No key of the set refers to a freed string, and each is under its name.
THEOREM KeysAlwaysReadable == NameSetSpec => []KeysReadable
<1>1. NameSetInv => KeysReadable BY DEF NameSetInv
<1> QED BY <1>1, NameSetInvariant, PTL

\* Two live shared pointers to one name always point to one string: both
\* strings are the one that the name's entry refers to.
THEOREM AlwaysInterned == NameSetSpec => []Interned
<1>1. NameSetInv => Interned BY DEF NameSetInv, EntriesInUse, Interned
<1> QED BY <1>1, NameSetInvariant, PTL

\* Only strings whose deleter is about to run leave an expired entry behind.
THEOREM EntriesAlwaysInUse == NameSetSpec => []EntriesInUse
<1>1. NameSetInv => EntriesInUse BY DEF NameSetInv
<1> QED BY <1>1, NameSetInvariant, PTL
=============================================================================
