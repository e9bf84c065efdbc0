-------------------------- MODULE ConfigResolution --------------------------
(***************************************************************************)
(* `ProfileManager::resolve`: a profile is loaded (ProfileManager), what   *)
(* it and the request leave open is discovered from the CLI of the         *)
(* executor, through a cache that every task shares, and the layers are    *)
(* merged.  One executor: the two share no profile and no discovery.       *)
(*                                                                         *)
(* A catalogue is what the CLI lists between two changes of it; a tick is  *)
(* the time a discovery command is given.  Only waiting takes time: no     *)
(* tick passes while a task could store or merge what it has.              *)
(***************************************************************************)
EXTENDS ProfileManager, Sequences, Selection

CONSTANTS
    Requests,        \* [id, model, reasoning, permission]: what callers ask for
    File,            \* [Versions -> what a good version of the file holds]
    MaxCatalogue,    \* bound on the changes of what the CLI lists
    ModelOutput,     \* [Catalogues -> the values printed for models]
    LevelOutput,     \* [Catalogues -> the values printed for reasoning levels]
    Lower,           \* [printed values -> their lower case]
    WithLetter,      \* printed values with a letter in them
    LevelWords,      \* lower-case values that have the form of a level
    DefaultLevels,   \* the levels the provider falls back to
    Candidates,      \* the commands that may list models, and those for levels
    Ttl              \* DISCOVERY_TTL, in ticks

None == "none"
Catalogues == 1 .. MaxCatalogue
AgeBound == Ttl + 2 * Candidates    \* ages stop being counted here
Fields == {"model", "reasoning", "permission"}

ASSUME CatalogueAssumption == MaxCatalogue \in Nat \ {0}
ASSUME CandidatesAssumption == Candidates \in Nat \ {0} /\ Ttl \in Nat \ {0}
ASSUME RequestsAssumption == \A r \in Requests : r.id \in ProfileIds
\* None stands for an Option that is None: no level is written like it.
ASSUME LevelsAssumption ==
    /\ LevelOutput \in [Catalogues -> Seq(DOMAIN Lower)]
    /\ DefaultLevels \in Seq(LevelWords) \ {<<>>}
    /\ None \notin LevelWords

VARIABLES
    absent,       \* the versions at which there was no file
  \* the CLI
    catalogue,    \* what it lists
    ago,          \* [Catalogues -> the ticks since it was listed]
  \* discovery_cache: the catalogues its lists are from, and the life left
    discovered,
  \* the tasks
    stage,        \* of a resolve, or of a discover
    request,
    attempt,      \* the command that runs
    late,         \* it has run for a tick
    own,          \* the version the task loaded
    found         \* the catalogues the lists are from

askVars == <<stage, request, own, found>>
probeVars == <<attempt, late>>
cliVars == <<catalogue, ago>>
allVars == <<vars, absent, cliVars, discovered, askVars, probeVars>>

NoLists == [models |-> Nothing, levels |-> Nothing]
NoEntry == [lists |-> NoLists, left |-> 0]    \* none, or one that has expired
NoProfile == [f \in Fields |-> None]
Discover == [id |-> None]    \* the request of a caller of discover

AllInit ==
    /\ Init
    /\ absent = IF content = "missing" THEN {1} ELSE {}
    /\ catalogue = 1
    /\ ago = [c \in Catalogues |-> 0]
    /\ discovered = NoEntry
    /\ stage = [t \in Tasks |-> "idle"]
    /\ request = [t \in Tasks |-> Discover]
    /\ attempt = [t \in Tasks |-> 1]
    /\ late = [t \in Tasks |-> FALSE]
    /\ own = [t \in Tasks |-> Nothing]
    /\ found = [t \in Tasks |-> NoLists]

To(t, where) == stage' = [stage EXCEPT ![t] = where]

----------------------------------------------------------------------------
(* The lists that a CLI prints *)

\* dedupe_strings: the first of those that differ in case only
Dedupe(values) ==
    Keep(values, {i \in DOMAIN values : \A j \in 1 .. i - 1 : Lower[values[j]] # Lower[values[i]]})

LooksLikeModelName(value) ==
    value \in WithLetter /\ Lower[value] \notin {"model", "models", "name", "id", "available"}

ParseModels(values) ==
    LET names == Dedupe(values) IN Keep(names, {i \in DOMAIN names : LooksLikeModelName(names[i])})

NormalizeLevel(value) ==
    IF Lower[value] \in {"x-high", "extra-high", "extra_high"} THEN "xhigh" ELSE Lower[value]

IsLevel(level) == level \in LevelWords

ParseLevels(values) ==
    LET levels == [i \in DOMAIN values |-> NormalizeLevel(values[i])]
    IN  Dedupe(Keep(levels, {i \in DOMAIN levels : IsLevel(levels[i])}))

ModelsOf == [c \in Catalogues |-> ParseModels(ModelOutput[c])]
LevelsOf == [c \in Catalogues |-> ParseLevels(LevelOutput[c])]

\* discover: no models, or the default levels, for a list that was not found
Models(lists) == IF lists.models = Nothing THEN <<>> ELSE ModelsOf[lists.models]
Levels(lists) == IF lists.levels = Nothing THEN DefaultLevels ELSE LevelsOf[lists.levels]

PreferredModel(models) == IF models = <<>> THEN None ELSE models[1]

Preference == <<"medium", "high", "low", "minimal", "max", "xhigh">>
PreferredLevel(levels) ==
    LET ranks == {i \in DOMAIN Preference : \E k \in DOMAIN levels : levels[k] = Preference[i]}
    IN  IF levels = <<>> THEN None
        ELSE IF ranks = {} THEN levels[1]
        ELSE Preference[CHOOSE i \in ranks : \A j \in ranks : i <= j]

Discovered(lists) ==
    [NoProfile EXCEPT !.model = PreferredModel(Models(lists)),
                      !.reasoning = PreferredLevel(Levels(lists))]

----------------------------------------------------------------------------
(* The layers *)

Or(a, b) == IF a # None THEN a ELSE b
Over(upper, lower) == [f \in Fields |-> Or(upper[f], lower[f])]

FileOf(v) == IF v \in absent THEN [i \in {} |-> NoProfile] ELSE File[v]

\* resolve_profile_data, of an id: the variant over the default
Variant(v, i) == IF i \in DOMAIN FileOf(v) THEN FileOf(v)[i] ELSE NoProfile
Profile(v, i) ==
    IF i = "default" THEN Variant(v, "default")
    ELSE Over(Variant(v, i), Variant(v, "default"))

\* What the task loaded; and the same, looked up in the cache once more.
OwnProfile_Reread(t) == Profile(profiles, request[t].id)
OwnProfile(t) == Profile(own[t], request[t].id)

NeedsDiscovery(r, profile) ==
    \E f \in {"model", "reasoning"} : r[f] = None /\ profile[f] = None

----------------------------------------------------------------------------
(* resolve, and the reloads of others *)

\* resolve or discover is over, and what it knew is gone.
Forget(t) ==
    /\ To(t, "idle")
    /\ request' = [request EXCEPT ![t] = Discover]
    /\ own' = [own EXCEPT ![t] = Nothing]
    /\ found' = [found EXCEPT ![t] = NoLists]

CallReload(t) ==
    /\ stage[t] = "idle"
    /\ Begin(t, "reload")
    /\ UNCHANGED <<absent, cliVars, discovered, askVars, probeVars>>

\* resolve begins with a load; a load by itself does no more than one whose
\* resolve is dropped after it.
CallResolve(t) ==
    /\ stage[t] = "idle"
    /\ Begin(t, "load")
    /\ To(t, "load")
    /\ \E r \in Requests : request' = [request EXCEPT ![t] = r]
    /\ UNCHANGED <<absent, cliVars, discovered, own, found, probeVars>>

CallDiscover(t) ==
    /\ stage[t] = "idle" /\ pc[t] = "idle"
    /\ To(t, "discover")
    /\ UNCHANGED <<vars, absent, cliVars, discovered, request, own, found, probeVars>>

\* A load that fails, or is dropped, ends the resolve it is part of.
LoadStep(t) ==
    /\ \/ Stat(t) \/ Metadata(t) \/ LockCache(t) \/ ReadFile(t)
       \/ \E i \in ProfileIds : i = request[t].id /\ Resolve(t, i)
       \/ stage[t] = "idle" /\ Return(t)
       \/ Cancel(t)
    /\ IF stage[t] = "load" /\ pc'[t] = "idle" THEN Forget(t) ELSE UNCHANGED askVars
    /\ UNCHANGED <<absent, cliVars, discovered, probeVars>>

\* The load is done: discover what is still open, or nothing.
Loaded(t) ==
    /\ stage[t] = "load"
    /\ Return(t)
    /\ own' = [own EXCEPT ![t] = result[t]]
    /\ LET profile == Profile(result[t], request[t].id)
       IN  To(t, IF NeedsDiscovery(request[t], profile) THEN "discover" ELSE "merge")
    /\ UNCHANGED <<absent, cliVars, discovered, request, found, probeVars>>

Answer(t) == Over(request[t], Over(OwnProfile(t), Discovered(found[t])))

\* resolve returns Answer(t).
Merge(t) ==
    /\ stage[t] = "merge"
    /\ Forget(t)
    /\ UNCHANGED <<vars, absent, cliVars, discovered, probeVars>>

----------------------------------------------------------------------------
(* discover *)

Found(t, lists) ==
    \/ request[t] = Discover /\ Forget(t)
    \/ /\ request[t] # Discover
       /\ To(t, "merge")
       /\ found' = [found EXCEPT ![t] = lists]
       /\ UNCHANGED <<request, own>>

\* The cache, and if it has no live entry the CLI, which may not be found.
CheckCache(t) ==
    /\ stage[t] = "discover"
    /\ \/ /\ discovered.left > 0
          /\ Found(t, discovered.lists)
       \/ /\ discovered.left = 0
          /\ To(t, "probe") \/ To(t, "store")
          /\ UNCHANGED <<request, own, found>>
    /\ UNCHANGED <<vars, absent, cliVars, discovered, probeVars>>

ForModels(t) == attempt[t] <= Candidates

\* The next command, or the end of discover.
NextCommand(t, n) ==
    /\ late' = [late EXCEPT ![t] = FALSE]
    /\ IF n > 2 * Candidates
       THEN attempt' = [attempt EXCEPT ![t] = 1] /\ To(t, "store")
       ELSE attempt' = [attempt EXCEPT ![t] = n] /\ UNCHANGED stage

\* The command prints a list with something in it, of a catalogue there was
\* since it was started: the other commands of its kind are not run.
Listed(t) ==
    /\ stage[t] = "probe"
    /\ \E c \in 1 .. catalogue :
         /\ ago[c] <= IF late[t] THEN 1 ELSE 0
         /\ IF ForModels(t)
            THEN /\ ModelsOf[c] # <<>>
                 /\ found' = [found EXCEPT ![t].models = c]
                 /\ NextCommand(t, Candidates + 1)
            ELSE /\ LevelsOf[c] # <<>>
                 /\ found' = [found EXCEPT ![t].levels = c]
                 /\ NextCommand(t, 2 * Candidates + 1)
    /\ UNCHANGED <<vars, absent, cliVars, discovered, request, own>>

\* The command fails, prints nothing of use, or is given up.
NotListed(t) ==
    /\ stage[t] = "probe"
    /\ NextCommand(t, attempt[t] + 1)
    /\ UNCHANGED <<vars, absent, cliVars, discovered, request, own, found>>

\* The entry of the cache, whoever wrote it since, is replaced.
Store(t) ==
    /\ stage[t] = "store"
    /\ discovered' = [lists |-> found[t], left |-> Ttl]
    /\ Found(t, found[t])
    /\ UNCHANGED <<vars, absent, cliVars, probeVars>>

\* The future of resolve, or of discover, is dropped: so is its command.
CancelDiscovery(t) ==
    /\ stage[t] \in {"discover", "probe", "store"}
    /\ Forget(t)
    /\ attempt' = [attempt EXCEPT ![t] = 1]
    /\ late' = [late EXCEPT ![t] = FALSE]
    /\ UNCHANGED <<vars, absent, cliVars, discovered>>

----------------------------------------------------------------------------
(* The file, the CLI and time *)

Edit(c) ==
    /\ Modify(c)
    /\ absent' = IF c = "missing" THEN absent \cup {version'} ELSE absent
    /\ UNCHANGED <<cliVars, discovered, askVars, probeVars>>

Upgrade ==
    /\ catalogue < MaxCatalogue
    /\ catalogue' = catalogue + 1
    /\ UNCHANGED <<vars, absent, ago, discovered, askVars, probeVars>>

MayWait_NoTimeout(t) == stage[t] \notin {"store", "merge"}
MayWait(t) == stage[t] \notin {"store", "merge"} /\ (stage[t] = "probe" => ~late[t])

Older(n) == IF n < AgeBound THEN n + 1 ELSE n

Tick ==
    /\ \A t \in Tasks : MayWait(t)
    /\ ago' = [c \in Catalogues |-> IF c < catalogue THEN Older(ago[c]) ELSE ago[c]]
    /\ discovered' = IF discovered.left > 1 THEN [discovered EXCEPT !.left = @ - 1] ELSE NoEntry
    /\ late' = [t \in Tasks |-> stage[t] = "probe"]
    /\ UNCHANGED <<vars, absent, catalogue, askVars, attempt>>

AllNext ==
    \/ \E t \in Tasks :
         \/ CallReload(t) \/ CallResolve(t) \/ CallDiscover(t)
         \/ LoadStep(t) \/ Loaded(t) \/ Merge(t)
         \/ CheckCache(t) \/ Listed(t) \/ NotListed(t) \/ Store(t) \/ CancelDiscovery(t)
    \/ \E c \in Contents : Edit(c)
    \/ Upgrade
    \/ Tick

AllSpec == AllInit /\ [][AllNext]_allVars

----------------------------------------------------------------------------
(* Properties *)

\* A resolved configuration has, in each field, the value of the first layer
\* that has one: the request, the variant, the default, the discovery.  The
\* variant and the default are of one version of the file, the one that was
\* loaded, though others reload the cache while this task discovers; and a
\* reasoning level is never missing, whichever commands fail.
ConfigIsLayered ==
    \A t \in Tasks : stage[t] = "merge" =>
        /\ \A f \in Fields :
             LET layers == <<request[t][f], Variant(own[t], request[t].id)[f],
                             Variant(own[t], "default")[f], Discovered(found[t])[f]>>
             IN  \E k \in DOMAIN layers :
                    /\ Answer(t)[f] = layers[k]
                    /\ layers[k] # None \/ k = Len(layers)
                    /\ \A j \in 1 .. k - 1 : layers[j] = None
        /\ Answer(t).reasoning # None

\* What a resolve discovers was listed by the CLI within the life of a cache
\* entry and the time of one discovery, even when a slow discovery replaces,
\* with an older answer, the entry of a faster one.
DiscoveredIsRecent ==
    \A t \in Tasks : stage[t] = "merge" =>
        \A c \in {found[t].models, found[t].levels} \ {Nothing} : ago[c] < AgeBound

=============================================================================
