--------------------------- MODULE ProfileManager ---------------------------
(***************************************************************************)
(* The profile cache of unified-agent-sdk/src/profile.rs: tasks that share *)
(* one `ProfileManager` load profiles by id, or force a reload, while the  *)
(* profile file is edited, broken, deleted and restored by others.         *)
(*                                                                         *)
(* The file is a version number that grows with every modification, with   *)
(* what there is to read; each modification gives the file an mtime of its *)
(* own, so an mtime is a version too.  What an id resolves to in a version *)
(* (the merge of the default variant and its own) is named by the version. *)
(***************************************************************************)
EXTENDS Naturals

CONSTANTS
    Tasks,          \* tasks that call load and reload
    ProfileIds,     \* profile ids
    MaxVersion      \* bound on the modifications of the file

ASSUME MaxVersionAssumption == MaxVersion \in Nat \ {0}
ASSUME TasksAssumption == "free" \notin Tasks

Versions == 1 .. MaxVersion
Contents == {"good", "bad", "missing"}  \* bad: not JSON, or an unknown policy
NoTime == 0         \* read_modified_time of a missing file
Nothing == 0        \* no version

VARIABLES
    version,    \* of the file on disk
    content,    \* what it holds
  \* ProfileCache, and its RwLock
    loaded,
    fileMtime,
    profiles,   \* the version the cached profiles come from
    resolved,   \* [ProfileIds -> the version of a resolved entry]
    lock,       \* who holds the write lock across a read of the file
  \* the tasks
    pc,
    op,         \* load or reload
    begun,      \* the version of the file when the call began
    seen,       \* disk_mtime: what the call read before locking
    result      \* the version the call answered with

diskVars == <<version, content>>
cacheVars == <<loaded, fileMtime, profiles, resolved>>
vars == <<diskVars, cacheVars, lock, pc, op, begun, seen, result>>

Mtime == IF content = "missing" THEN NoTime ELSE version

Init ==
    /\ version = 1 /\ content \in Contents
    /\ loaded = FALSE /\ fileMtime = NoTime /\ profiles = Nothing
    /\ resolved = [i \in ProfileIds |-> Nothing]
    /\ lock = "free"
    /\ pc = [t \in Tasks |-> "idle"]
    /\ op = [t \in Tasks |-> "load"]
    /\ begun = [t \in Tasks |-> Nothing]
    /\ seen = [t \in Tasks |-> NoTime]
    /\ result = [t \in Tasks |-> Nothing]

----------------------------------------------------------------------------
(* reload_if_needed *)

Goto(t, where) == pc' = [pc EXCEPT ![t] = where]

callVars == <<op, begun, seen, result>>

\* The call is over, and what it knew is gone.
Leave(t) ==
    /\ Goto(t, "idle")
    /\ op' = [op EXCEPT ![t] = "load"]
    /\ begun' = [begun EXCEPT ![t] = Nothing]
    /\ seen' = [seen EXCEPT ![t] = NoTime]
    /\ result' = [result EXCEPT ![t] = Nothing]

Begin(t, o) ==
    /\ pc[t] = "idle"
    /\ Goto(t, "stat")
    /\ op' = [op EXCEPT ![t] = o]
    /\ begun' = [begun EXCEPT ![t] = version]
    /\ UNCHANGED <<diskVars, cacheVars, lock, seen, result>>

\* read_modified_time, before the lock: the file is looked for ...
Stat(t) ==
    /\ pc[t] = "stat"
    /\ \/ content = "missing" /\ seen' = [seen EXCEPT ![t] = NoTime] /\ Goto(t, "lock")
       \/ content # "missing" /\ Goto(t, "metadata") /\ UNCHANGED seen
    /\ UNCHANGED <<diskVars, cacheVars, lock, op, begun, result>>

\* ... and its metadata read, an error if it went away in between.
Metadata(t) ==
    /\ pc[t] = "metadata"
    /\ \/ content = "missing" /\ Leave(t)
       \/ /\ content # "missing"
          /\ seen' = [seen EXCEPT ![t] = Mtime]
          /\ Goto(t, "lock")
          /\ UNCHANGED <<op, begun, result>>
    /\ UNCHANGED <<diskVars, cacheVars, lock>>

UpToDate(t) == op[t] = "load" /\ loaded /\ fileMtime = seen[t]

\* load goes on to resolve its id, reload is over.
Proceed(t, v) ==
    IF op[t] = "load"
    THEN Goto(t, "resolve") /\ UNCHANGED result
    ELSE Goto(t, "done") /\ result' = [result EXCEPT ![t] = v]

Cleared == [i \in ProfileIds |-> Nothing]

\* The cache takes version v, under the mtime read before the lock.
Commit(t, v) ==
    /\ profiles' = v
    /\ resolved' = Cleared
    /\ fileMtime' = seen[t]
    /\ loaded' = TRUE
    /\ Proceed(t, v)

LockFor_Nobody(t) == lock
LockFor(t) == t

\* The write lock: keep the cache if the mtime is the one it was loaded
\* under, take a missing file for an empty one, else read it.
LockCache(t) ==
    /\ pc[t] = "lock" /\ lock = "free"
    /\ \/ /\ UpToDate(t)
          /\ Goto(t, "resolve")
          /\ UNCHANGED <<cacheVars, lock, result>>
       \/ /\ ~UpToDate(t) /\ content = "missing"
          /\ Commit(t, version)
          /\ UNCHANGED lock
       \/ /\ ~UpToDate(t) /\ content # "missing"
          /\ lock' = LockFor(t)
          /\ Goto(t, "reading")
          /\ UNCHANGED <<cacheVars, result>>
    /\ UNCHANGED <<diskVars, op, begun, seen>>

ReadVersion(t) == version

MtimeAfterError_Advanced(t) == seen[t]
MtimeAfterError(t) == fileMtime

\* With the lock: a file that went away or does not parse leaves the cache
\* as it was, and the call fails.
ReadFile(t) ==
    /\ pc[t] = "reading"
    /\ \/ /\ content = "good"
          /\ Commit(t, ReadVersion(t))
          /\ UNCHANGED <<op, begun, seen>>
       \/ /\ content # "good"
          /\ Leave(t)
          /\ fileMtime' = MtimeAfterError(t)
          /\ UNCHANGED <<loaded, profiles, resolved>>
    /\ lock' = "free"
    /\ UNCHANGED diskVars

\* load, with the lock taken anew: another task may have reloaded meanwhile.
Resolve(t, i) ==
    /\ pc[t] = "resolve" /\ lock = "free"
    /\ LET v == IF resolved[i] # Nothing THEN resolved[i] ELSE profiles
       IN  /\ resolved' = [resolved EXCEPT ![i] = v]
           /\ result' = [result EXCEPT ![t] = v]
    /\ Goto(t, "done")
    /\ UNCHANGED <<diskVars, loaded, fileMtime, profiles, lock, op, begun, seen>>

Return(t) ==
    /\ pc[t] = "done"
    /\ Leave(t)
    /\ UNCHANGED <<diskVars, cacheVars, lock>>

\* The future is dropped while it waits for the lock.
Cancel(t) ==
    /\ pc[t] \in {"lock", "resolve"}
    /\ Leave(t)
    /\ UNCHANGED <<diskVars, cacheVars, lock>>

----------------------------------------------------------------------------
(* The file *)
Modify(c) ==
    /\ version < MaxVersion
    /\ version' = version + 1
    /\ content' = c
    /\ UNCHANGED <<cacheVars, lock, pc, callVars>>

Next ==
    \/ \E t \in Tasks :
         \/ \E o \in {"load", "reload"} : Begin(t, o)
         \/ Stat(t) \/ Metadata(t) \/ LockCache(t) \/ ReadFile(t)
         \/ \E i \in ProfileIds : Resolve(t, i)
         \/ Return(t) \/ Cancel(t)
    \/ \E c \in Contents : Modify(c)

Spec == Init /\ [][Next]_vars

----------------------------------------------------------------------------
(* Properties *)

\* Every variable has its type; a task that holds the lock is reading.
TypeOK ==
    /\ version \in Versions /\ content \in Contents
    /\ loaded \in BOOLEAN
    /\ fileMtime \in 0 .. MaxVersion /\ profiles \in 0 .. MaxVersion
    /\ resolved \in [ProfileIds -> 0 .. MaxVersion]
    /\ lock \in Tasks \cup {"free"}
    /\ pc \in [Tasks -> {"idle", "stat", "metadata", "lock", "reading", "resolve", "done"}]
    /\ op \in [Tasks -> {"load", "reload"}]
    /\ begun \in [Tasks -> 0 .. MaxVersion]
    /\ seen \in [Tasks -> 0 .. MaxVersion]
    /\ result \in [Tasks -> 0 .. MaxVersion]
    /\ \A t \in Tasks : pc[t] = "reading" <=> lock = t

\* A cache that is not what the file holds is noticed by the next load: the
\* mtime it carries is never that of a file it does not hold.  Reading the
\* mtime before the content, and outside the lock, is what makes this so.
StaleIsNoticed == loaded /\ fileMtime = Mtime /\ content # "missing" => profiles = version

\* load answers with profiles no older than the file was when it was called,
\* whatever other tasks reload meanwhile, and reload always loads such; but
\* load may answer with an old version when it found no file: the cache may
\* have been filled, under the mtime of a missing file, from one that came
\* and went.
FreshUnlessMissing ==
    \A t \in Tasks :
        result[t] # Nothing =>
            result[t] >= begun[t] \/ (op[t] = "load" /\ seen[t] = NoTime)

\* An id resolved before a reload is not served after it.
ResolvedIsCurrent == \A i \in ProfileIds : resolved[i] \in {Nothing, profiles}

\* The cache never goes back to an older version, however slow a reload is.
NeverGoesBack == [][profiles' >= profiles]_vars

=============================================================================
