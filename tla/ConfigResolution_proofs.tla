----------------------- MODULE ConfigResolution_proofs -----------------------
(***************************************************************************)
(* Theorems about ProfileManager, and about ConfigResolution: its loads    *)
(* are those of ProfileManager, what it discovers is recent, however       *)
(* discoveries overlap, and what it answers is layered.                    *)
(***************************************************************************)
EXTENDS ConfigResolution, FiniteSetTheorems, SequenceTheorems, TLAPS

----------------------------------------------------------------------------
(* The profile cache: ProfileManager, for any tasks, ids and number of     *)
(* modifications of the file.                                              *)

USE MaxVersionAssumption, TasksAssumption

\* What the cache carries was true of the file, the mtime not after the content.
CacheIsPast == fileMtime <= profiles /\ profiles <= version

\* What a call knows was true of the file, and is not older than the call.
CallIsPast ==
    \A t \in Tasks :
        /\ begun[t] <= version /\ seen[t] <= version
        /\ pc[t] \in {"lock", "reading", "resolve"} => seen[t] = NoTime \/ seen[t] >= begun[t]
        /\ pc[t] # "done" => result[t] = Nothing

\* A call that is about to resolve has a cache it may answer from.
ResolveIsFresh ==
    \A t \in Tasks :
        pc[t] = "resolve" => op[t] = "load" /\ (profiles >= begun[t] \/ seen[t] = NoTime)

Fresh ==
    /\ TypeOK
    /\ CacheIsPast
    /\ CallIsPast
    /\ ResolveIsFresh
    /\ ResolvedIsCurrent
    /\ FreshUnlessMissing

\* The initial states satisfy the invariant.
LEMMA InitFresh == Init => Fresh
<1> SUFFICES ASSUME Init PROVE Fresh
  OBVIOUS
<1> USE DEF Init, NoTime, Nothing
<1>1. TypeOK
  <2>1. \A t \in Tasks : lock # t
    BY TasksAssumption
  <2>2. version \in 1 .. MaxVersion /\ profiles \in 0 .. MaxVersion
    BY MaxVersionAssumption
  <2> QED
    BY <2>1, <2>2 DEF TypeOK, Versions, Contents
<1>2. CacheIsPast /\ CallIsPast /\ ResolveIsFresh /\ ResolvedIsCurrent /\ FreshUnlessMissing
  BY DEF CacheIsPast, CallIsPast, ResolveIsFresh, ResolvedIsCurrent, FreshUnlessMissing
<1> QED
  BY <1>1, <1>2 DEF Fresh

\* Taking the present version of the file under an mtime seen before keeps it.
LEMMA CommitFresh ==
    ASSUME Fresh, NEW t \in Tasks, pc[t] \in {"lock", "reading"}, lock \in {"free", t},
           Commit(t, version), lock' = "free",
           UNCHANGED <<diskVars, op, begun, seen>>
    PROVE  Fresh'
<1> USE DEF Fresh, TypeOK, Versions, Commit, Proceed, Goto, diskVars
<1>1. TypeOK'
  BY DEF Contents, Cleared, Nothing
<1>2. CacheIsPast' /\ ResolvedIsCurrent'
  BY DEF CacheIsPast, CallIsPast, ResolvedIsCurrent, Cleared
<1>3. CallIsPast'
  BY DEF CallIsPast
<1>4. ResolveIsFresh'
  BY DEF CallIsPast, CacheIsPast, ResolveIsFresh
<1>5. FreshUnlessMissing'
  BY DEF CallIsPast, FreshUnlessMissing
<1> QED
  BY <1>1, <1>2, <1>3, <1>4, <1>5 DEF Fresh

\* A call that is over, and has given back the lock if it had it, leaves the
\* invariant as it was.
LEMMA LeaveFresh ==
    ASSUME Fresh, NEW t \in Tasks, Leave(t), lock' = IF lock = t THEN "free" ELSE lock,
           UNCHANGED <<diskVars, cacheVars>>
    PROVE  Fresh'
<1> USE DEF Fresh, TypeOK, Versions, Leave, Goto, diskVars, cacheVars, NoTime, Nothing
<1>1. TypeOK'
  BY TasksAssumption
<1>2. CacheIsPast' /\ ResolvedIsCurrent'
  BY DEF CacheIsPast, ResolvedIsCurrent
<1>3. CallIsPast'
  BY DEF CallIsPast
<1>4. ResolveIsFresh'
  BY DEF ResolveIsFresh
<1>5. FreshUnlessMissing'
  BY DEF FreshUnlessMissing
<1> QED
  BY <1>1, <1>2, <1>3, <1>4, <1>5

\* A step of a call that leaves the cache alone and goes no further than to
\* wait for the lock keeps the invariant.
LEMMA CallFresh ==
    ASSUME Fresh, NEW t \in Tasks,
           \/ \E o \in {"load", "reload"} : Begin(t, o)
           \/ Stat(t) \/ Metadata(t) \/ Return(t) \/ Cancel(t)
    PROVE  Fresh'
<1>1. CASE \/ \E o \in {"load", "reload"} : Begin(t, o)
           \/ Stat(t)
           \/ Metadata(t) /\ content # "missing"
  <2> USE <1>1 DEF Fresh, TypeOK, Versions, Goto, diskVars, cacheVars, Begin, Stat, Metadata,
                   Mtime, NoTime, Nothing
  <2>1. TypeOK'
    BY DEF Contents
  <2>2. CacheIsPast' /\ ResolvedIsCurrent'
    BY DEF CacheIsPast, ResolvedIsCurrent
  <2>3. CallIsPast'
    BY DEF CallIsPast
  <2>4. ResolveIsFresh'
    BY DEF ResolveIsFresh
  <2>5. FreshUnlessMissing'
    BY DEF CallIsPast, FreshUnlessMissing
  <2> QED
    BY <2>1, <2>2, <2>3, <2>4, <2>5
<1>2. CASE (Metadata(t) /\ content = "missing") \/ Return(t) \/ Cancel(t)
  <2>1. Leave(t) /\ UNCHANGED <<diskVars, cacheVars, lock>> /\ pc[t] # "reading"
    BY <1>2 DEF Metadata, Return, Cancel
  <2>2. lock # t
    BY <2>1 DEF Fresh, TypeOK
  <2> QED
    BY <2>1, <2>2, LeaveFresh
<1> QED
  BY <1>1, <1>2

\* Taking the lock keeps it: an up-to-date cache holds what the mtime says.
LEMMA LockFresh ==
    ASSUME Fresh, NEW t \in Tasks, LockCache(t)
    PROVE  Fresh'
<1> USE DEF LockCache
<1>1. CASE UpToDate(t) /\ Goto(t, "resolve") /\ UNCHANGED <<cacheVars, lock, result>>
  <2> USE DEF Fresh, TypeOK, Versions, Goto, diskVars, cacheVars
  <2>1. op[t] = "load" /\ fileMtime = seen[t]
    BY <1>1 DEF UpToDate
  <2>2. TypeOK'
    BY <1>1
  <2>3. CacheIsPast' /\ ResolvedIsCurrent' /\ FreshUnlessMissing'
    BY <1>1 DEF CacheIsPast, ResolvedIsCurrent, FreshUnlessMissing
  <2>4. CallIsPast'
    BY <1>1 DEF CallIsPast
  <2>5. ResolveIsFresh'
    BY <1>1, <2>1 DEF ResolveIsFresh, CallIsPast, CacheIsPast
  <2> QED
    BY <2>2, <2>3, <2>4, <2>5
<1>2. CASE Commit(t, version) /\ UNCHANGED lock
  BY <1>2, CommitFresh
<1>3. CASE lock' = LockFor(t) /\ Goto(t, "reading") /\ UNCHANGED <<cacheVars, result>>
  <2> USE DEF Fresh, TypeOK, Versions, Goto, LockFor, diskVars, cacheVars
  <2>1. TypeOK'
    BY <1>3
  <2>2. CacheIsPast' /\ ResolvedIsCurrent' /\ FreshUnlessMissing'
    BY <1>3 DEF CacheIsPast, ResolvedIsCurrent, FreshUnlessMissing
  <2>3. CallIsPast' /\ ResolveIsFresh'
    BY <1>3 DEF CallIsPast, ResolveIsFresh
  <2> QED
    BY <2>1, <2>2, <2>3
<1> QED
  BY <1>1, <1>2, <1>3

\* Reading the file keeps it, whether it is taken or refused.
LEMMA ReadFresh ==
    ASSUME Fresh, NEW t \in Tasks, ReadFile(t)
    PROVE  Fresh'
<1>1. lock = t /\ pc[t] = "reading"
  BY DEF ReadFile, Fresh, TypeOK
<1>2. CASE content = "good"
  BY <1>1, <1>2, CommitFresh DEF ReadFile, ReadVersion
<1>3. CASE content # "good"
  BY <1>1, <1>3, LeaveFresh DEF ReadFile, MtimeAfterError, cacheVars
<1> QED
  BY <1>2, <1>3

\* Resolving answers from the cache as it is by then.
LEMMA ResolveFresh ==
    ASSUME Fresh, NEW t \in Tasks, NEW i \in ProfileIds, Resolve(t, i)
    PROVE  Fresh'
<1> USE DEF Fresh, TypeOK, Versions, Resolve, Goto, diskVars, Nothing
<1>1. (IF resolved[i] # Nothing THEN resolved[i] ELSE profiles) = profiles
  BY DEF ResolvedIsCurrent
<1>2. TypeOK'
  BY <1>1
<1>3. CacheIsPast' /\ ResolvedIsCurrent'
  BY <1>1 DEF CacheIsPast, ResolvedIsCurrent
<1>4. CallIsPast' /\ ResolveIsFresh'
  BY DEF CallIsPast, ResolveIsFresh
<1>5. FreshUnlessMissing'
  BY <1>1 DEF FreshUnlessMissing, ResolveIsFresh
<1> QED
  BY <1>2, <1>3, <1>4, <1>5

\* A modification of the file only makes all of it older.
LEMMA ModifyFresh ==
    ASSUME Fresh, NEW c \in Contents, Modify(c)
    PROVE  Fresh'
BY DEF Fresh, TypeOK, Versions, Contents, Modify, cacheVars, callVars, CacheIsPast, CallIsPast,
       ResolveIsFresh, ResolvedIsCurrent, FreshUnlessMissing

\* Every step keeps the invariant.
LEMMA NextFresh == Fresh /\ [Next]_vars => Fresh'
<1> SUFFICES ASSUME Fresh, [Next]_vars PROVE Fresh'
  OBVIOUS
<1>1. ASSUME NEW t \in Tasks,
             \/ \E o \in {"load", "reload"} : Begin(t, o)
             \/ Stat(t) \/ Metadata(t) \/ Return(t) \/ Cancel(t)
      PROVE  Fresh'
  BY <1>1, CallFresh
<1>2. ASSUME NEW t \in Tasks, LockCache(t) PROVE Fresh'
  BY <1>2, LockFresh
<1>3. ASSUME NEW t \in Tasks, ReadFile(t) PROVE Fresh'
  BY <1>3, ReadFresh
<1>4. ASSUME NEW t \in Tasks, NEW i \in ProfileIds, Resolve(t, i) PROVE Fresh'
  BY <1>4, ResolveFresh
<1>5. ASSUME NEW c \in Contents, Modify(c) PROVE Fresh'
  BY <1>5, ModifyFresh
<1>6. CASE UNCHANGED vars
  BY <1>6 DEF vars, diskVars, cacheVars, callVars, Fresh, TypeOK, CacheIsPast, CallIsPast, ResolveIsFresh,
              ResolvedIsCurrent, FreshUnlessMissing
<1> QED
  BY <1>1, <1>2, <1>3, <1>4, <1>5, <1>6 DEF Next

\* What the theorems below rest on.
THEOREM FreshAlways == Spec => []Fresh
BY InitFresh, NextFresh, PTL DEF Spec

\* Every variable keeps its type, and the write lock its one holder.
THEOREM TypeCorrect == Spec => []TypeOK
<1>1. Fresh => TypeOK
  BY DEF Fresh
<1> QED
  BY FreshAlways, <1>1, PTL

\* load and reload never answer with profiles older than the call, but for a
\* load that found no file.
THEOREM NoStaleAnswer == Spec => []FreshUnlessMissing
<1>1. Fresh => FreshUnlessMissing
  BY DEF Fresh
<1> QED
  BY FreshAlways, <1>1, PTL

\* A cache that differs from an existing file is noticed by the next load.
THEOREM StaleNoticed == Spec => []StaleIsNoticed
<1>1. Fresh => StaleIsNoticed
  BY DEF Fresh, TypeOK, Versions, CacheIsPast, StaleIsNoticed, Mtime
<1> QED
  BY FreshAlways, <1>1, PTL

\* Resolved entries come from the profiles that are cached.
THEOREM ResolvedCurrent == Spec => []ResolvedIsCurrent
<1>1. Fresh => ResolvedIsCurrent
  BY DEF Fresh
<1> QED
  BY FreshAlways, <1>1, PTL

\* The cache never goes back to an older version.
THEOREM CacheAdvances == Spec => NeverGoesBack
<1>1. Fresh /\ [Next]_vars => [profiles' >= profiles]_vars
  <2> SUFFICES ASSUME Fresh, Next PROVE profiles' >= profiles
    OBVIOUS
  <2> USE DEF Fresh, TypeOK, Versions, CacheIsPast
  <2>1. ASSUME NEW t \in Tasks, LockCache(t) \/ ReadFile(t) PROVE profiles' >= profiles
    BY <2>1 DEF LockCache, ReadFile, ReadVersion, Commit, cacheVars
  <2>2. ASSUME NEW t \in Tasks,
               \/ \E o \in {"load", "reload"} : Begin(t, o)
               \/ Stat(t) \/ Metadata(t) \/ Return(t) \/ Cancel(t)
               \/ \E i \in ProfileIds : Resolve(t, i)
        PROVE  profiles' >= profiles
    BY <2>2 DEF Begin, Stat, Metadata, Return, Cancel, Resolve, cacheVars
  <2>3. ASSUME NEW c \in Contents, Modify(c) PROVE profiles' >= profiles
    BY <2>3 DEF Modify, cacheVars
  <2> QED
    BY <2>1, <2>2, <2>3 DEF Next
<1> QED
  BY FreshAlways, <1>1, PTL DEF Spec, NeverGoesBack

----------------------------------------------------------------------------
(* resolve and discover *)

USE CatalogueAssumption, CandidatesAssumption, RequestsAssumption

\* What resolve and discover do is, for the cache of profiles, a step of
\* ProfileManager or none.
LEMMA StepOfProfileManager == [AllNext]_allVars => [Next]_vars
<1> SUFFICES ASSUME [AllNext]_allVars PROVE [Next]_vars
  OBVIOUS
<1>1. ASSUME NEW t \in Tasks, CallReload(t) \/ CallResolve(t) PROVE Next
  BY <1>1 DEF CallReload, CallResolve, Next
<1>2. ASSUME NEW t \in Tasks, LoadStep(t) \/ Loaded(t) PROVE Next
  BY <1>2 DEF LoadStep, Loaded, Next
<1>3. ASSUME NEW t \in Tasks,
             \/ CallDiscover(t) \/ Merge(t) \/ CheckCache(t) \/ Listed(t) \/ NotListed(t)
             \/ Store(t) \/ CancelDiscovery(t)
      PROVE  UNCHANGED vars
  BY <1>3 DEF CallDiscover, Merge, CheckCache, Listed, NotListed, Store, CancelDiscovery
<1>4. ASSUME NEW c \in Contents, Edit(c) PROVE Next
  BY <1>4 DEF Edit, Next
<1>5. CASE Upgrade \/ Tick
  BY <1>5 DEF Upgrade, Tick
<1>6. CASE UNCHANGED allVars
  BY <1>6 DEF allVars
<1> QED
  BY <1>1, <1>2, <1>3, <1>4, <1>5, <1>6 DEF AllNext

\* resolve, with all it does beside, implements the specification of the
\* profile cache.
THEOREM Implements == AllSpec => Spec
<1>1. AllInit => Init
  BY DEF AllInit
<1> QED
  BY <1>1, StepOfProfileManager, PTL DEF AllSpec, Spec

\* So a load of a resolve is as fresh as any: it is not older than the call,
\* unless it found no file.
THEOREM ResolveIsNotStale == AllSpec => []FreshUnlessMissing
BY Implements, NoStaleAnswer, PTL

\* And a cache that differs from an existing file is noticed by the next.
THEOREM ResolveNoticesStale == AllSpec => []StaleIsNoticed
BY Implements, StaleNoticed, PTL

----------------------------------------------------------------------------
Lists == [models : 0 .. MaxCatalogue, levels : 0 .. MaxCatalogue]

DiscoveryTypeOK ==
    /\ catalogue \in Catalogues
    /\ ago \in [Catalogues -> 0 .. AgeBound]
    /\ discovered \in [lists : Lists, left : 0 .. Ttl]
    /\ stage \in [Tasks -> {"idle", "load", "discover", "probe", "store", "merge"}]
    /\ attempt \in [Tasks -> 1 .. 2 * Candidates]
    /\ late \in [Tasks -> BOOLEAN]
    /\ found \in [Tasks -> Lists]

\* The lists were printed n ticks ago or later.
Within(lists, n) == \A c \in {lists.models, lists.levels} \ {Nothing} : ago[c] <= n

Waited(t) == attempt[t] - 1 + IF late[t] THEN 1 ELSE 0

\* An entry of the cache ages as its life runs out.
EntryIsRecent == Within(discovered.lists, 2 * Candidates + Ttl - discovered.left)

\* A task has waited a tick at most for each command that it ran.
TaskIsRecent(t) ==
    /\ stage[t] = "probe" => Within(found[t], Waited(t))
    /\ stage[t] = "store" => Within(found[t], 2 * Candidates)
    /\ stage[t] = "merge" => Within(found[t], 2 * Candidates + Ttl - 1)
    /\ stage[t] \in {"idle", "load", "discover"} => found[t] = NoLists
    /\ stage[t] # "probe" => attempt[t] = 1 /\ late[t] = FALSE

Recent ==
    /\ DiscoveryTypeOK
    /\ EntryIsRecent
    /\ \A t \in Tasks : TaskIsRecent(t)

\* Lists that are empty are as recent as need be.
LEMMA EmptyIsRecent == NoLists \in Lists /\ \A n : Within(NoLists, n)
BY DEF NoLists, Lists, Within, Nothing

\* Lists within a time are within any longer one.
LEMMA WithinMore ==
    ASSUME DiscoveryTypeOK, NEW lists \in Lists, NEW m \in Nat, NEW n \in Nat, m <= n,
           Within(lists, m)
    PROVE  Within(lists, n)
<1> SUFFICES ASSUME NEW c \in {lists.models, lists.levels} \ {Nothing} PROVE ago[c] <= n
  BY DEF Within
<1>1. c \in Catalogues
  BY DEF Lists, Catalogues, Nothing
<1>2. ago[c] <= m /\ ago[c] \in Nat
  BY <1>1 DEF Within, DiscoveryTypeOK, AgeBound
<1> QED
  BY <1>2

\* The initial states satisfy the invariant.
LEMMA InitRecent == AllInit => Recent
<1> SUFFICES ASSUME AllInit PROVE Recent
  OBVIOUS
<1>1. DiscoveryTypeOK
  BY EmptyIsRecent DEF AllInit, DiscoveryTypeOK, NoEntry, Catalogues, AgeBound
<1>2. EntryIsRecent
  BY EmptyIsRecent DEF AllInit, NoEntry, EntryIsRecent
<1>3. \A t \in Tasks : TaskIsRecent(t)
  BY DEF AllInit, TaskIsRecent
<1> QED
  BY <1>1, <1>2, <1>3 DEF Recent

\* A step of one task that leaves the clock alone keeps the invariant if the
\* task, and the cache, come out of it recent.
LEMMA OneTask ==
    ASSUME Recent, NEW t \in Tasks, UNCHANGED cliVars,
           DiscoveryTypeOK', EntryIsRecent', TaskIsRecent(t)',
           \A u \in Tasks \ {t} : /\ stage'[u] = stage[u] /\ found'[u] = found[u]
                                  /\ attempt'[u] = attempt[u] /\ late'[u] = late[u]
    PROVE  Recent'
<1>1. ASSUME NEW u \in Tasks \ {t} PROVE TaskIsRecent(u)'
  BY <1>1 DEF Recent, TaskIsRecent, Within, Waited, cliVars
<1> QED
  BY <1>1 DEF Recent

\* A task that forgets what it found keeps it.
LEMMA ForgetRecent ==
    ASSUME Recent, NEW t \in Tasks, Forget(t), UNCHANGED <<cliVars, discovered>>,
           \/ stage[t] # "probe" /\ UNCHANGED probeVars
           \/ /\ attempt' = [attempt EXCEPT ![t] = 1]
              /\ late' = [late EXCEPT ![t] = FALSE]
    PROVE  Recent'
<1> USE DEF Recent, DiscoveryTypeOK, Forget, To, cliVars, probeVars
<1>1. DiscoveryTypeOK'
  <2>1. NoLists \in Lists /\ 1 \in 1 .. 2 * Candidates
    BY EmptyIsRecent
  <2>2. attempt' \in [Tasks -> 1 .. 2 * Candidates] /\ late' \in [Tasks -> BOOLEAN]
    BY <2>1
  <2> QED
    BY <2>1, <2>2
<1>2. EntryIsRecent'
  BY DEF EntryIsRecent, Within
<1>3. TaskIsRecent(t)'
  BY DEF TaskIsRecent
<1> QED
  BY <1>1, <1>2, <1>3, OneTask

\* Calls and loads keep it: nothing has been found yet.
LEMMA LoadRecent ==
    ASSUME Recent, NEW t \in Tasks,
           \/ CallReload(t) \/ CallResolve(t) \/ CallDiscover(t)
           \/ LoadStep(t) \/ Loaded(t)
    PROVE  Recent'
<1>1. CASE LoadStep(t) /\ stage[t] = "load" /\ Forget(t)
  BY <1>1, ForgetRecent DEF LoadStep
<1>2. CASE \/ CallReload(t) \/ CallResolve(t) \/ CallDiscover(t) \/ Loaded(t)
           \/ LoadStep(t) /\ UNCHANGED askVars
  <2>1. /\ UNCHANGED <<cliVars, discovered, found, probeVars>>
        /\ \/ UNCHANGED stage
           \/ /\ stage[t] \in {"idle", "load"}
              /\ \E s \in {"load", "discover", "merge"} : To(t, s)
    BY <1>2 DEF CallReload, CallResolve, CallDiscover, LoadStep, Loaded, askVars
  <2> USE <2>1 DEF Recent, DiscoveryTypeOK, To, cliVars, probeVars
  <2>2. DiscoveryTypeOK'
    OBVIOUS
  <2>3. EntryIsRecent'
    BY DEF EntryIsRecent, Within
  <2>4. TaskIsRecent(t)'
    BY EmptyIsRecent DEF TaskIsRecent, Within, Waited
  <2> QED
    BY <2>2, <2>3, <2>4, OneTask
<1> QED
  BY <1>1, <1>2 DEF LoadStep

\* A task that gets lists as recent as a live entry keeps it, once it is no
\* longer probing.
LEMMA FoundRecent ==
    ASSUME Recent, NEW t \in Tasks, NEW lists \in Lists, Found(t, lists), stage[t] # "probe",
           UNCHANGED <<cliVars, probeVars>>, Within(lists, 2 * Candidates + Ttl - 1),
           discovered' \in [lists : Lists, left : 0 .. Ttl], EntryIsRecent'
    PROVE  Recent'
<1> USE DEF Recent, DiscoveryTypeOK, Found, Forget, To, cliVars, probeVars
<1>1. DiscoveryTypeOK'
  BY EmptyIsRecent
<1>2. TaskIsRecent(t)'
  BY DEF TaskIsRecent, Within
<1> QED
  BY <1>1, <1>2, OneTask

\* The cache and the CLI are asked: a hit is of a live entry.
LEMMA CheckRecent ==
    ASSUME Recent, NEW t \in Tasks, CheckCache(t)
    PROVE  Recent'
<1> USE DEF Recent, DiscoveryTypeOK
<1>1. CASE discovered.left > 0
  <2>1. UNCHANGED <<cliVars, probeVars, discovered>> /\ Found(t, discovered.lists)
    BY <1>1 DEF CheckCache
  <2>2. EntryIsRecent'
    BY <2>1 DEF EntryIsRecent, Within, cliVars
  <2>3. Within(discovered.lists, 2 * Candidates + Ttl - 1)
    <3>1. discovered.left \in 1 .. Ttl /\ discovered.lists \in Lists
      BY <1>1
    <3>2. /\ 2 * Candidates + Ttl - discovered.left \in Nat
          /\ 2 * Candidates + Ttl - discovered.left <= 2 * Candidates + Ttl - 1
          /\ 2 * Candidates + Ttl - 1 \in Nat
      BY <3>1, CandidatesAssumption
    <3> QED
      BY <3>1, <3>2, WithinMore DEF EntryIsRecent
  <2> QED
    BY <2>1, <2>2, <2>3, FoundRecent DEF CheckCache
<1>2. CASE discovered.left = 0
  <2> USE <1>2 DEF CheckCache, To, cliVars, probeVars
  <2>1. DiscoveryTypeOK'
    OBVIOUS
  <2>2. EntryIsRecent'
    BY DEF EntryIsRecent, Within
  <2>3. TaskIsRecent(t)'
    BY EmptyIsRecent DEF TaskIsRecent, Within, Waited, NoLists, Nothing
  <2> QED
    BY <2>1, <2>2, <2>3, OneTask
<1> QED
  BY <1>1, <1>2

\* The end of a command, with a list or without, keeps it: the lists so far
\* are within the time waited, and the next command has a tick of its own.
LEMMA CommandRecent ==
    ASSUME Recent, NEW t \in Tasks, Listed(t) \/ NotListed(t)
    PROVE  Recent'
<1>0. PICK n \in 1 .. 2 * Candidates + 1 :
           /\ NextCommand(t, n) /\ n > attempt[t]
           /\ \/ UNCHANGED found
              \/ \E c \in Catalogues :
                   /\ ago[c] <= 1
                   /\ \/ found' = [found EXCEPT ![t].models = c]
                      \/ found' = [found EXCEPT ![t].levels = c]
  <2> USE DEF Recent, DiscoveryTypeOK
  <2>1. CASE NotListed(t)
    BY <2>1 DEF NotListed
  <2>2. CASE Listed(t)
    <3>1. PICK c \in 1 .. catalogue :
             /\ ago[c] <= IF late[t] THEN 1 ELSE 0
             /\ IF ForModels(t)
                THEN found' = [found EXCEPT ![t].models = c] /\ NextCommand(t, Candidates + 1)
                ELSE found' = [found EXCEPT ![t].levels = c] /\ NextCommand(t, 2 * Candidates + 1)
      BY <2>2 DEF Listed
    <3>2. c \in Catalogues /\ ago[c] <= 1
      BY <3>1 DEF Catalogues
    <3>3. attempt[t] \in 1 .. 2 * Candidates
      OBVIOUS
    <3> QED
      BY <3>1, <3>2, <3>3 DEF ForModels
  <2> QED
    BY <2>1, <2>2
<1>1. UNCHANGED <<cliVars, discovered>> /\ stage[t] = "probe"
  BY DEF Listed, NotListed
<1> USE <1>0, <1>1 DEF Recent, DiscoveryTypeOK, cliVars
<1>2. attempt[t] \in 1 .. 2 * Candidates /\ late[t] \in BOOLEAN /\ found[t] \in Lists
  OBVIOUS
<1>3. Waited(t) <= attempt[t] /\ Within(found[t], attempt[t])
  <2>1. Waited(t) <= attempt[t] /\ Waited(t) \in Nat /\ Within(found[t], Waited(t))
    BY <1>2 DEF Waited, TaskIsRecent
  <2> QED
    BY <1>2, <2>1, WithinMore
<1>4. found' \in [Tasks -> Lists] /\ Within(found[t], n - 1)
  <2>1. n - 1 \in Nat /\ attempt[t] \in Nat /\ attempt[t] <= n - 1
    BY <1>2
  <2>2. Within(found[t], n - 1)
    BY <1>2, <1>3, <2>1, WithinMore
  <2>3. found' \in [Tasks -> Lists]
    <3>1. ASSUME NEW c \in Catalogues,
                 \/ found' = [found EXCEPT ![t].models = c]
                 \/ found' = [found EXCEPT ![t].levels = c]
          PROVE  found' \in [Tasks -> Lists]
      <4>1. c \in 0 .. MaxCatalogue
        BY DEF Catalogues
      <4>2. /\ [found[t] EXCEPT !.models = c] \in Lists
            /\ [found[t] EXCEPT !.levels = c] \in Lists
        BY <1>2, <4>1 DEF Lists
      <4> QED
        BY <3>1, <4>2
    <3> QED
      BY <3>1
  <2> QED
    BY <2>2, <2>3
<1>5. Within(found'[t], n - 1)
  <2>1. CASE UNCHANGED found
    BY <1>4, <2>1
  <2>2. ASSUME NEW c \in Catalogues, ago[c] <= 1,
               \/ found' = [found EXCEPT ![t].models = c]
               \/ found' = [found EXCEPT ![t].levels = c]
        PROVE  Within(found'[t], n - 1)
    <3>1. n - 1 >= 1 /\ ago[c] <= n - 1
      BY <1>2, <2>2 DEF Catalogues, AgeBound
    <3>2. {found'[t].models, found'[t].levels} \subseteq {found[t].models, found[t].levels, c}
      BY <1>2, <2>2 DEF Lists
    <3> QED
      BY <1>4, <3>1, <3>2 DEF Within
  <2> QED
    BY <2>1, <2>2
<1>6. DiscoveryTypeOK'
  <2>1. late' \in [Tasks -> BOOLEAN]
    BY DEF NextCommand
  <2>2. stage' \in [Tasks -> {"idle", "load", "discover", "probe", "store", "merge"}]
    BY DEF NextCommand, To
  <2>3. attempt' \in [Tasks -> 1 .. 2 * Candidates]
    <3>1. 1 \in 1 .. 2 * Candidates
      OBVIOUS
    <3>2. n > 2 * Candidates \/ n \in 1 .. 2 * Candidates
      OBVIOUS
    <3> QED
      BY <3>1, <3>2 DEF NextCommand
  <2> QED
    BY <1>4, <2>1, <2>2, <2>3
<1>7. EntryIsRecent'
  BY DEF EntryIsRecent, Within
<1>8. TaskIsRecent(t)'
  <2>1. CASE n > 2 * Candidates
    <3>1. n - 1 = 2 * Candidates /\ stage'[t] = "store" /\ attempt'[t] = 1 /\ late'[t] = FALSE
      BY <2>1 DEF NextCommand, To
    <3>2. Within(found[t], 2 * Candidates)'
      BY <1>5, <3>1 DEF Within
    <3> QED
      BY <3>1, <3>2 DEF TaskIsRecent
  <2>2. CASE ~ (n > 2 * Candidates)
    <3>1. stage'[t] = "probe" /\ attempt'[t] = n /\ late'[t] = FALSE
      BY <2>2 DEF NextCommand
    <3>2. Waited(t)' = n - 1
      BY <3>1 DEF Waited
    <3>3. Within(found[t], Waited(t))'
      BY <1>5, <3>2 DEF Within
    <3> QED
      BY <3>1, <3>3 DEF TaskIsRecent
  <2> QED
    BY <2>1, <2>2
<1>9. \A u \in Tasks \ {t} : /\ stage'[u] = stage[u] /\ found'[u] = found[u]
                             /\ attempt'[u] = attempt[u] /\ late'[u] = late[u]
  BY DEF NextCommand, To
<1> QED
  BY <1>6, <1>7, <1>8, <1>9, OneTask

\* The entry is replaced by one that is as recent as a new one should be.
LEMMA StoreRecent ==
    ASSUME Recent, NEW t \in Tasks, Store(t)
    PROVE  Recent'
<1> USE DEF Recent, DiscoveryTypeOK, Store
<1>1. Within(found[t], 2 * Candidates) /\ found[t] \in Lists
  BY DEF TaskIsRecent
<1>2. EntryIsRecent'
  BY <1>1 DEF EntryIsRecent, Within, cliVars
<1>3. Within(found[t], 2 * Candidates + Ttl - 1)
  BY <1>1 DEF Within, Lists, Catalogues, AgeBound, Nothing
<1> QED
  BY <1>1, <1>2, <1>3, FoundRecent

\* A tick ages all lists by one, and the waits that are counted with them.
LEMMA TickRecent ==
    ASSUME Recent, Tick
    PROVE  Recent'
<1> USE DEF Recent, DiscoveryTypeOK, Tick, askVars
<1>1. \A c \in Catalogues : ago'[c] \in 0 .. AgeBound /\ ago'[c] <= ago[c] + 1
  BY DEF Older, AgeBound
<1>2. ASSUME NEW lists \in Lists, NEW n \in Nat, Within(lists, n),
             NEW c \in {lists.models, lists.levels} \ {Nothing}
      PROVE  ago'[c] <= n + 1
  <2>1. c \in Catalogues
    BY <1>2 DEF Lists, Catalogues, Nothing
  <2>2. ago[c] <= n /\ ago[c] \in Nat /\ ago'[c] \in Nat
    BY <1>1, <1>2, <2>1 DEF Within, AgeBound
  <2> QED
    BY <1>1, <1>2, <2>1, <2>2
<1>3. DiscoveryTypeOK'
  <2>1. ago' \in [Catalogues -> 0 .. AgeBound]
    BY <1>1
  <2>2. discovered' \in [lists : Lists, left : 0 .. Ttl]
    BY EmptyIsRecent DEF NoEntry
  <2> QED
    BY <2>1, <2>2
<1>4. EntryIsRecent'
  <2>1. CASE discovered.left > 1
    <3> DEFINE n == 2 * Candidates + Ttl - discovered.left
    <3>1. discovered'.lists = discovered.lists /\ discovered.lists \in Lists
      BY <2>1
    <3>2. n \in Nat /\ n + 1 = 2 * Candidates + Ttl - discovered'.left
      BY <2>1
    <3>3. Within(discovered.lists, n)
      BY DEF EntryIsRecent
    <3>4. \A c \in {discovered.lists.models, discovered.lists.levels} \ {Nothing} : ago'[c] <= n + 1
      <4> HIDE DEF n
      <4> QED
        BY <1>2, <3>1, <3>2, <3>3
    <3> QED
      BY <3>1, <3>2, <3>4 DEF EntryIsRecent, Within
  <2>2. CASE ~ (discovered.left > 1)
    BY <2>2 DEF NoEntry, NoLists, EntryIsRecent, Within, Nothing
  <2> QED
    BY <2>1, <2>2
<1>5. ASSUME NEW t \in Tasks PROVE TaskIsRecent(t)'
  <2>1. CASE stage[t] = "probe"
    <3>1. late[t] = FALSE /\ late'[t] = TRUE
      BY <2>1 DEF MayWait
    <3>2. Waited(t) \in Nat /\ Waited(t)' = Waited(t) + 1
      BY <3>1 DEF Waited
    <3>3. found[t] \in Lists /\ found'[t] = found[t] /\ Within(found[t], Waited(t))
      BY <2>1 DEF TaskIsRecent
    <3>4. \A c \in {found[t].models, found[t].levels} \ {Nothing} : ago'[c] <= Waited(t) + 1
      BY <1>2, <3>2, <3>3
    <3> QED
      BY <2>1, <3>2, <3>3, <3>4 DEF TaskIsRecent, Within
  <2>2. CASE stage[t] # "probe"
    BY <1>5, <2>2 DEF TaskIsRecent, MayWait
  <2> QED
    BY <2>1, <2>2
<1> QED
  BY <1>3, <1>4, <1>5

\* Every step keeps the invariant.
LEMMA NextRecent == Recent /\ [AllNext]_allVars => Recent'
<1> SUFFICES ASSUME Recent, [AllNext]_allVars PROVE Recent'
  OBVIOUS
<1>1. ASSUME NEW t \in Tasks,
             \/ CallReload(t) \/ CallResolve(t) \/ CallDiscover(t)
             \/ LoadStep(t) \/ Loaded(t)
      PROVE  Recent'
  BY <1>1, LoadRecent
<1>2. ASSUME NEW t \in Tasks, Merge(t) \/ CancelDiscovery(t) PROVE Recent'
  BY <1>2, ForgetRecent DEF Merge, CancelDiscovery
<1>3. ASSUME NEW t \in Tasks, CheckCache(t) PROVE Recent'
  BY <1>3, CheckRecent
<1>4. ASSUME NEW t \in Tasks, Listed(t) \/ NotListed(t) PROVE Recent'
  BY <1>4, CommandRecent
<1>5. ASSUME NEW t \in Tasks, Store(t) PROVE Recent'
  BY <1>5, StoreRecent
<1>6. CASE Tick
  BY <1>6, TickRecent
<1>7. CASE Upgrade \/ UNCHANGED allVars \/ \E c \in Contents : Edit(c)
  <2>1. UNCHANGED <<ago, discovered, askVars, probeVars>> /\ catalogue' \in Catalogues
    BY <1>7 DEF Upgrade, Edit, allVars, cliVars, Recent, DiscoveryTypeOK, Catalogues
  <2> QED
    BY <2>1 DEF Recent, DiscoveryTypeOK, askVars, probeVars, EntryIsRecent, TaskIsRecent,
                Within, Waited
<1> QED
  BY <1>1, <1>2, <1>3, <1>4, <1>5, <1>6, <1>7 DEF AllNext

\* What a resolve discovers was listed within the life of an entry and the
\* time of one discovery.
THEOREM DiscoveryIsRecent == AllSpec => []DiscoveredIsRecent
<1>1. Recent => DiscoveredIsRecent
  BY DEF Recent, DiscoveryTypeOK, TaskIsRecent, Within, DiscoveredIsRecent, AgeBound, Lists,
         Catalogues, Nothing
<1> QED
  BY <1>1, InitRecent, NextRecent, PTL DEF AllSpec


----------------------------------------------------------------------------
(* What the lists hold: induction over them *)

\* A set of numbers has a least one: their initial segments, ordered by
\* inclusion, are well founded.
LEMMA LeastNumber ==
    ASSUME NEW T \in SUBSET Nat, T # {}
    PROVE  \E m \in T : \A k \in T : m <= k
<1> DEFINE F == {0 .. n : n \in T}
<1>1. F \subseteq FiniteSubsetsOf(Nat)
  <2> SUFFICES ASSUME NEW n \in T PROVE 0 .. n \in FiniteSubsetsOf(Nat)
    OBVIOUS
  <2>1. IsFiniteSet(0 .. n)
    BY FS_Interval
  <2> QED
    BY <2>1 DEF FiniteSubsetsOf
<1>2. F # {}
  OBVIOUS
<1>3. PICK x \in F : \A y \in F : <<y, x>> \notin StrictSubsetOrdering(Nat)
  <2> HIDE DEF F
  <2> QED
    BY <1>1, <1>2, FS_StrictSubsetOrderingWellFounded, WFMin
<1>4. PICK m \in T : x = 0 .. m
  OBVIOUS
<1>5. ASSUME NEW k \in T, k < m PROVE FALSE
  <2>1. 0 .. k \subseteq 0 .. m /\ 0 .. k # 0 .. m /\ 0 .. k \in SUBSET Nat /\ 0 .. m \in SUBSET Nat
    <3>1. m \in 0 .. m /\ m \notin 0 .. k
      BY <1>5
    <3> QED
      BY <1>5, <3>1
  <2>2. <<0 .. k, 0 .. m>> \in StrictSubsetOrdering(Nat)
    BY <2>1 DEF StrictSubsetOrdering
  <2> QED
    BY <1>3, <1>4, <2>2
<1> QED
  BY <1>5

LEMMA Induction ==
    ASSUME NEW S, 0 \in S, \A n \in Nat : n \in S => n + 1 \in S
    PROVE  Nat \subseteq S
<1> SUFFICES ASSUME Nat \ S # {} PROVE FALSE
  OBVIOUS
<1>1. PICK m \in Nat \ S : \A k \in Nat \ S : m <= k
  BY LeastNumber
<1>2. m # 0 /\ m - 1 \in Nat /\ ~(m <= m - 1)
  BY <1>1
<1>3. m - 1 \in S
  BY <1>1, <1>2
<1> QED
  BY <1>1, <1>2, <1>3

\* What the recursive definition of Keep says of the first n values.
KeepsTo(s, W, n, g) ==
    g = [i \in 0 .. n |-> IF i = 0 THEN <<>>
                          ELSE IF i \in W THEN Append(g[i - 1], s[i]) ELSE g[i - 1]]

Kept(s, W) == {s[i] : i \in W \cap DOMAIN s}

\* It is of a function, whose values are lists of what is kept.
LEMMA KeepDefined ==
    ASSUME NEW V, NEW s \in Seq(V), NEW W
    PROVE  \A n \in 0 .. Len(s) : \E g \in [0 .. n -> Seq(Kept(s, W))] : KeepsTo(s, W, n, g)
<1> DEFINE A == Kept(s, W)
           K == Seq(A)
           Fits(n, g) == KeepsTo(s, W, n, g)
           S == {n \in Nat : n <= Len(s) => \E g \in [0 .. n -> K] : Fits(n, g)}
<1>0. Len(s) \in Nat /\ DOMAIN s = 1 .. Len(s)
  BY LenProperties
<1>1. 0 \in S
  <2> DEFINE g == [i \in 0 .. 0 |-> <<>>]
  <2>1. g \in [0 .. 0 -> K]
    OBVIOUS
  <2>2. Fits(0, g)
    BY DEF KeepsTo
  <2> HIDE DEF g, Fits
  <2> QED
    BY <2>1, <2>2
<1>2. ASSUME NEW n \in Nat, n \in S PROVE n + 1 \in S
  <2> SUFFICES ASSUME n + 1 <= Len(s) PROVE \E h \in [0 .. n + 1 -> K] : Fits(n + 1, h)
    <3> HIDE DEF Fits, K
    <3> QED
      OBVIOUS
  <2>1. PICK g \in [0 .. n -> K] : Fits(n, g)
    <3>1. n <= Len(s)
      BY <1>0
    <3> HIDE DEF Fits
    <3> QED
      BY <1>2, <3>1
  <2> DEFINE x == IF n + 1 \in W THEN Append(g[n], s[n + 1]) ELSE g[n]
             h == [i \in 0 .. n + 1 |-> IF i = n + 1 THEN x ELSE g[i]]
  <2>2. x \in K
    <3>0. n \in 0 .. n /\ n + 1 \in DOMAIN s
      BY <1>0
    <3>1. g[n] \in Seq(A) /\ n + 1 \in DOMAIN s
      <4>1. g \in [0 .. n -> Seq(A)]
        BY <2>1
      <4> HIDE DEF A
      <4> QED
        BY <3>0, <4>1
    <3>2. n + 1 \in W => s[n + 1] \in A
      BY <3>1 DEF Kept
    <3> HIDE DEF A
    <3>3. n + 1 \in W => Append(g[n], s[n + 1]) \in Seq(A)
      BY <3>1, <3>2
    <3> QED
      BY <3>1, <3>3 DEF A
  <2>3. h \in [0 .. n + 1 -> K]
    <3> HIDE DEF x, K
    <3> QED
      BY <2>1, <2>2
  <2>4. Fits(n + 1, h)
    <3> SUFFICES ASSUME NEW i \in 0 .. n + 1
                 PROVE  h[i] = IF i = 0 THEN <<>>
                               ELSE IF i \in W THEN Append(h[i - 1], s[i]) ELSE h[i - 1]
      BY DEF KeepsTo
    <3>1. CASE i = n + 1
      <4>1. i # 0 /\ i - 1 = n /\ h[i - 1] = g[n] /\ h[i] = x
        BY <3>1
      <4> QED
        BY <3>1, <4>1
    <3>2. CASE i \in 0 .. n
      <4>1. h[i] = g[i] /\ (i # 0 => h[i - 1] = g[i - 1])
        BY <3>2
      <4> HIDE DEF h
      <4> QED
        BY <2>1, <3>2, <4>1 DEF KeepsTo
    <3> QED
      BY <3>1, <3>2
  <2> QED
    BY <2>3, <2>4
<1>3. Nat \subseteq S
  <2> HIDE DEF S
  <2> QED
    BY <1>1, <1>2, Induction
<1> SUFFICES ASSUME NEW n \in 0 .. Len(s) PROVE \E g \in [0 .. n -> K] : Fits(n, g)
  OBVIOUS
<1>4. n \in Nat /\ n <= Len(s)
  BY <1>0
<1> HIDE DEF K, Fits
<1> QED
  BY <1>3, <1>4

\* Keep holds nothing but the values at the places, in a list.
LEMMA KeepValues ==
    ASSUME NEW V, NEW s \in Seq(V), NEW W
    PROVE  Keep(s, W) \in Seq(Kept(s, W))
<1> DEFINE K == Seq(Kept(s, W))
           Fits(g) == KeepsTo(s, W, Len(s), g)
           upTo == CHOOSE g : Fits(g)
<1>1. Len(s) \in Nat /\ Len(s) \in 0 .. Len(s)
  BY LenProperties
<1>2. PICK g \in [0 .. Len(s) -> K] : Fits(g)
  BY <1>1, KeepDefined
<1>3. Fits(upTo)
  <2> HIDE DEF Fits
  <2> QED
    BY <1>2
<1>4. \A n \in Nat : n \in 0 .. Len(s) => upTo[n] \in K
  <2> DEFINE S == {n \in Nat : n \in 0 .. Len(s) => upTo[n] \in K /\ upTo[n] = g[n]}
  <2> HIDE DEF upTo
  <2>1. 0 \in S
    BY <1>2, <1>3 DEF KeepsTo
  <2>2. ASSUME NEW n \in Nat, n \in S PROVE n + 1 \in S
    <3> SUFFICES ASSUME n + 1 \in 0 .. Len(s) PROVE upTo[n + 1] \in K /\ upTo[n + 1] = g[n + 1]
      OBVIOUS
    <3>1. n \in 0 .. Len(s) /\ n + 1 # 0 /\ (n + 1) - 1 = n
      BY <1>1
    <3>2. upTo[n] = g[n]
      BY <2>2, <3>1
    <3>3. upTo[n + 1] = IF n + 1 \in W THEN Append(upTo[n], s[n + 1]) ELSE upTo[n]
      BY <1>3, <3>1 DEF KeepsTo
    <3>4. g[n + 1] = IF n + 1 \in W THEN Append(g[n], s[n + 1]) ELSE g[n]
      BY <1>2, <3>1 DEF KeepsTo
    <3>5. upTo[n + 1] = g[n + 1]
      <4> HIDE DEF Fits, K
      <4> QED
        BY <3>2, <3>3, <3>4
    <3>6. g[n + 1] \in K
      <4> HIDE DEF Fits, K
      <4> QED
        BY <1>2
    <3> QED
      BY <3>5, <3>6
  <2>3. Nat \subseteq S
    <3> HIDE DEF S
    <3> QED
      BY <2>1, <2>2, Induction
  <2> QED
    BY <2>3
<1>5. upTo[Len(s)] \in K
  <2> HIDE DEF upTo, K
  <2> QED
    BY <1>1, <1>4
<1>6. Keep(s, W) = upTo[Len(s)]
  BY DEF Keep, KeepsTo
<1> QED
  BY <1>5, <1>6

\* What the CLI printed for levels is read as levels only.
LEMMA LevelsAreWords ==
    ASSUME NEW values \in Seq(DOMAIN Lower)
    PROVE  ParseLevels(values) \in Seq(LevelWords)
<1> DEFINE levels == [i \in DOMAIN values |-> NormalizeLevel(values[i])]
           L == {NormalizeLevel(v) : v \in DOMAIN Lower}
           places == {i \in DOMAIN levels : IsLevel(levels[i])}
           words == Keep(levels, places)
<1>1. levels \in Seq(L)
  <2>1. DOMAIN values = 1 .. Len(values) /\ Len(values) \in Nat
    BY LenProperties
  <2>2. \A i \in DOMAIN values : NormalizeLevel(values[i]) \in L
    BY ElementOfSeq, <2>1
  <2> HIDE DEF L
  <2>3. levels \in [1 .. Len(values) -> L]
    BY <2>1, <2>2
  <2> QED
    BY <2>1, <2>3, SeqDef
<1>2. words \in Seq(LevelWords)
  <2> DEFINE B == Kept(levels, places)
  <2>1. words \in Seq(B)
    <3> HIDE DEF levels, L, places
    <3> QED
      BY <1>1, KeepValues
  <2>2. B \subseteq LevelWords
    BY DEF IsLevel, Kept
  <2> HIDE DEF B, words
  <2> QED
    BY <2>1, <2>2
<1>3. ASSUME NEW W PROVE Keep(words, W) \in Seq(LevelWords)
  <2> HIDE DEF words
  <2> DEFINE B == Kept(words, W)
  <2>1. Keep(words, W) \in Seq(B)
    BY <1>2, KeepValues
  <2>2. B \subseteq LevelWords
    BY <1>2, ElementOfSeq, LenProperties DEF Kept
  <2> HIDE DEF B
  <2> QED
    BY <2>1, <2>2
<1>4. ParseLevels(values) = Dedupe(words)
  BY DEF ParseLevels
<1> QED
  <2> HIDE DEF words
  <2> QED
    BY <1>3, <1>4 DEF Dedupe

\* Of a list with levels in it one is preferred.
LEMMA OneIsPreferred ==
    ASSUME NEW levels \in Seq(LevelWords), levels # <<>>
    PROVE  PreferredLevel(levels) # None
<1> DEFINE ranks == {i \in DOMAIN Preference : \E k \in DOMAIN levels : levels[k] = Preference[i]}
<1>1. levels[1] \in LevelWords
  BY EmptySeq, ElementOfSeq, LenProperties
<1>2. CASE ranks = {}
  <2>1. PreferredLevel(levels) = levels[1]
    BY <1>2 DEF PreferredLevel
  <2> QED
    BY <1>1, <2>1, LevelsAssumption
<1>3. CASE ranks # {}
  <2>1. ranks \in SUBSET Nat /\ ranks \subseteq 1 .. 6
    BY DEF Preference
  <2>2. \E i \in ranks : \A j \in ranks : i <= j
    <3> HIDE DEF ranks
    <3> QED
      BY <1>3, <2>1, LeastNumber
  <2> DEFINE first == CHOOSE i \in ranks : \A j \in ranks : i <= j
  <2>3. first \in 1 .. 6
    <3> HIDE DEF ranks
    <3> QED
      BY <2>1, <2>2
  <2>4. PreferredLevel(levels) = Preference[first]
    BY <1>3 DEF PreferredLevel
  <2>5. \A i \in 1 .. 6 : Preference[i] # None
    BY DEF Preference, None
  <2> HIDE DEF first
  <2> QED
    BY <2>3, <2>4, <2>5
<1> QED
  BY <1>2, <1>3

----------------------------------------------------------------------------
(* What is answered *)

USE CatalogueAssumption, CandidatesAssumption

\* A list of levels that was found has levels in it.
Filled(lists) == lists.levels # Nothing => LevelsOf[lists.levels] # <<>>

ListsAreFilled == Filled(discovered.lists) /\ \A t \in Tasks : Filled(found[t])

LEMMA InitFilled == AllInit => ListsAreFilled
BY DEF AllInit, ListsAreFilled, Filled, NoEntry, NoLists

\* Every step keeps it: only a command that printed levels gives a list.
LEMMA NextFilled ==
    ASSUME DiscoveryTypeOK, ListsAreFilled, [AllNext]_allVars
    PROVE  ListsAreFilled'
<1> USE DEF ListsAreFilled, DiscoveryTypeOK
<1>0. Filled(NoLists)
  BY DEF Filled, NoLists
<1>1. ASSUME NEW t \in Tasks, Forget(t), UNCHANGED discovered
      PROVE  ListsAreFilled'
  <2>1. Filled(NoLists)'
    BY DEF Filled, NoLists, LevelsOf, ParseLevels, Dedupe, IsLevel, NormalizeLevel
  <2> QED
    BY <1>1, <2>1 DEF Forget, Filled
<1>2. ASSUME NEW t \in Tasks, NEW lists, Filled(lists), Found(t, lists),
             UNCHANGED discovered \/ discovered'.lists = lists
      PROVE  ListsAreFilled'
  BY <1>0, <1>2 DEF Found, Forget, Filled
<1>3. ASSUME NEW t \in Tasks,
             \/ CallReload(t) \/ CallResolve(t) \/ CallDiscover(t)
             \/ LoadStep(t) \/ Loaded(t)
      PROVE  ListsAreFilled'
  <2>1. UNCHANGED discovered /\ (UNCHANGED found \/ Forget(t))
    BY <1>3 DEF CallReload, CallResolve, CallDiscover, LoadStep, Loaded, askVars
  <2> QED
    BY <1>1, <2>1 DEF Filled
<1>4. ASSUME NEW t \in Tasks, Merge(t) \/ CancelDiscovery(t) PROVE ListsAreFilled'
  BY <1>1, <1>4 DEF Merge, CancelDiscovery
<1>5. ASSUME NEW t \in Tasks, CheckCache(t) PROVE ListsAreFilled'
  <2>1. UNCHANGED discovered /\ (UNCHANGED found \/ Found(t, discovered.lists))
    BY <1>5 DEF CheckCache
  <2> QED
    BY <1>2, <2>1 DEF Filled
<1>6. ASSUME NEW t \in Tasks, Listed(t) PROVE ListsAreFilled'
  <2>1. UNCHANGED discovered
    BY <1>6 DEF Listed
  <2>2. PICK c \in 1 .. catalogue :
          \/ found' = [found EXCEPT ![t].models = c]
          \/ LevelsOf[c] # <<>> /\ found' = [found EXCEPT ![t].levels = c]
    BY <1>6 DEF Listed
  <2>3. \/ found'[t].levels = found[t].levels
        \/ LevelsOf[found'[t].levels] # <<>>
    BY <2>2 DEF Lists
  <2>4. \A u \in Tasks : u # t => found'[u] = found[u]
    BY <2>2
  <2> HIDE DEF DiscoveryTypeOK
  <2>5. ASSUME NEW u \in Tasks PROVE Filled(found'[u])
    BY <2>3, <2>4 DEF Filled
  <2>6. Filled(discovered'.lists)
    BY <2>1
  <2> QED
    BY <2>5, <2>6 DEF Filled, LevelsOf, ParseLevels
<1>7. ASSUME NEW t \in Tasks, NotListed(t) PROVE ListsAreFilled'
  BY <1>7 DEF NotListed, Filled
<1>8. ASSUME NEW t \in Tasks, Store(t) PROVE ListsAreFilled'
  BY <1>2, <1>8 DEF Store
<1>9. CASE Tick
  BY <1>0, <1>9 DEF Tick, askVars, NoEntry, Filled
<1>10. CASE Upgrade \/ UNCHANGED allVars \/ \E c \in Contents : Edit(c)
  <2>1. UNCHANGED <<discovered, found>>
    BY <1>10 DEF Upgrade, Edit, allVars, askVars
  <2> QED
    BY <2>1 DEF Filled
<1> QED
  BY <1>3, <1>4, <1>5, <1>6, <1>7, <1>8, <1>9, <1>10 DEF AllNext

\* Whichever commands fail, a level is preferred.
LEMMA LevelIsPreferred ==
    ASSUME NEW lists \in Lists, Filled(lists)
    PROVE  Discovered(lists).reasoning # None
<1>1. Levels(lists) \in Seq(LevelWords) /\ Levels(lists) # <<>>
  <2>1. CASE lists.levels = Nothing
    BY <2>1, LevelsAssumption DEF Levels
  <2>2. CASE lists.levels # Nothing
    <3>1. lists.levels \in Catalogues
      BY <2>2 DEF Lists, Catalogues, Nothing
    <3>2. LevelOutput[lists.levels] \in Seq(DOMAIN Lower)
      BY <3>1, LevelsAssumption
    <3>3. Levels(lists) = ParseLevels(LevelOutput[lists.levels])
      BY <2>2, <3>1 DEF Levels, LevelsOf
    <3> QED
      BY <2>2, <3>1, <3>2, <3>3, LevelsAreWords DEF Filled, LevelsOf
  <2> QED
    BY <2>1, <2>2
<1>2. PreferredLevel(Levels(lists)) # None
  BY <1>1, OneIsPreferred
<1> QED
  BY <1>2 DEF Discovered, NoProfile, Fields

\* The layers of a merge, each over the next.
LEMMA AnswerIsLayered ==
    ASSUME NEW t \in Tasks, NEW f \in Fields
    PROVE  Answer(t)[f] = Or(request[t][f],
                             Or(Or(Variant(own[t], request[t].id)[f], Variant(own[t], "default")[f]),
                                Discovered(found[t])[f]))
<1>1. OwnProfile(t)[f] = Or(Variant(own[t], request[t].id)[f], Variant(own[t], "default")[f])
  BY DEF OwnProfile, Profile, Over, Or
<1> QED
  BY <1>1 DEF Answer, Over

LEMMA FilledIsLayered ==
    ASSUME DiscoveryTypeOK, ListsAreFilled
    PROVE  ConfigIsLayered
<1> SUFFICES ASSUME NEW t \in Tasks
             PROVE  /\ \A f \in Fields :
                         LET layers == <<request[t][f], Variant(own[t], request[t].id)[f],
                                         Variant(own[t], "default")[f], Discovered(found[t])[f]>>
                         IN  \E k \in DOMAIN layers :
                                /\ Answer(t)[f] = layers[k]
                                /\ layers[k] # None \/ k = Len(layers)
                                /\ \A j \in 1 .. k - 1 : layers[j] = None
                    /\ Answer(t).reasoning # None
  BY DEF ConfigIsLayered
<1>1. ASSUME NEW f \in Fields, NEW a, NEW b, NEW c, NEW d, NEW x,
             x = Or(a, Or(Or(b, c), d))
      PROVE  \E k \in DOMAIN <<a, b, c, d>> :
               /\ x = <<a, b, c, d>>[k]
               /\ <<a, b, c, d>>[k] # None \/ k = Len(<<a, b, c, d>>)
               /\ \A j \in 1 .. k - 1 : <<a, b, c, d>>[j] = None
  <2>1. CASE a # None
    BY <1>1, <2>1 DEF Or
  <2>2. CASE a = None /\ b # None
    BY <1>1, <2>2 DEF Or
  <2>3. CASE a = None /\ b = None /\ c # None
    BY <1>1, <2>3 DEF Or
  <2>4. CASE a = None /\ b = None /\ c = None
    BY <1>1, <2>4 DEF Or
  <2> QED
    BY <2>1, <2>2, <2>3, <2>4
<1>2. Answer(t).reasoning # None
  <2>1. Discovered(found[t]).reasoning # None
    BY LevelIsPreferred DEF DiscoveryTypeOK, ListsAreFilled
  <2>2. "reasoning" \in Fields
    BY DEF Fields
  <2> QED
    BY <2>1, <2>2, AnswerIsLayered DEF Or
<1> QED
  BY <1>1, <1>2, AnswerIsLayered

\* A resolved configuration has the value of the first layer that has one,
\* all of one version of the file, and a reasoning level in any case.
THEOREM Layered == AllSpec => []ConfigIsLayered
<1>1. Recent => DiscoveryTypeOK
  BY DEF Recent
<1>2. ListsAreFilled /\ Recent /\ [AllNext]_allVars => ListsAreFilled'
  BY <1>1, NextFilled
<1>3. Recent /\ ListsAreFilled => ConfigIsLayered
  BY <1>1, FilledIsLayered
<1> QED
  BY <1>2, <1>3, InitFilled, InitRecent, NextRecent, PTL DEF AllSpec
============================================================================
