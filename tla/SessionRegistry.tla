-------------------------- MODULE SessionRegistry --------------------------
(***************************************************************************)
(* The sessions of a ClaudeCodeExecutor (providers/claude_code/            *)
(* executor.rs): calls of spawn and resume, each with a ClaudeSdkClient of *)
(* its own, and the map that keeps the client of a call that succeeded, so *)
(* that its CLI goes on running, under the session id the CLI gave.        *)
(*                                                                         *)
(* A client is named by the call that made it.  Of the life in SdkClient   *)
(* it keeps whether its Query is there, and whether a Query that was       *)
(* dropped has been closed.  The lock of the map is never held over an     *)
(* await, so what is done under it is one step; between two such steps     *)
(* any other call may run, and at each await the future may be dropped.    *)
(***************************************************************************)
EXTENDS Naturals, FiniteSets, Functions

CONSTANTS
    Calls,
    Ids,        \* session ids
    NoClient,
    MaxTracked  \* MAX_TRACKED_SESSIONS

ASSUME NoClientIsNone == NoClient \notin Calls
ASSUME RoomForOne == MaxTracked \in Nat \ {0}

VARIABLES
    at,        \* [Calls -> where the call is]
    sid,       \* [Calls -> its session id]
    client,    \* [Calls -> "none", "up" (with a Query), "closing" or "down"]
    held,      \* [Calls -> the replaced or evicted client its future owns]
    sessions,  \* the map, a function from the ids it has to clients
    restored   \* history: disconnected clients that were put back

vars == <<at, sid, client, held, sessions, restored>>

Tracked == DOMAIN sessions
Over == {"done", "failed"}
\* Awaits of a call whose own client is up and not yet in the map.
Working == {"rewinding", "asking", "receiving", "removing", "disconnecting",
            "restoring", "inserting"}

Init ==
    /\ at = [c \in Calls |-> "idle"]
    /\ sid \in [Calls -> Ids]
    /\ client = [c \in Calls |-> "none"]
    /\ held = [c \in Calls |-> NoClient]
    /\ sessions = [i \in {} |-> NoClient]
    /\ restored = {}

Goto(c, place) == at' = [at EXCEPT ![c] = place]

\* A plausible bug: a Query has no destructor.
AfterDrop_Runs(state) == state

\* The Query of a client that is dropped is closed by a task of its own; a
\* client that was disconnected has none.
AfterDrop(state) == IF state = "up" THEN "closing" ELSE state
Dropped(cs) == client' = [c \in Calls |-> IF c \in cs THEN AfterDrop(client[c]) ELSE client[c]]

Fail(c) == Goto(c, "failed") /\ Dropped({c}) /\ UNCHANGED <<sid, held, sessions, restored>>

----------------------------------------------------------------------------
(* spawn and resume, up to the response *)

Begin(c) ==
    /\ at[c] = "idle"
    /\ Goto(c, "connecting")
    /\ UNCHANGED <<sid, client, held, sessions, restored>>

\* Only a resume rewinds, and only when it is told where to.
Connected(c) ==
    /\ at[c] = "connecting"
    /\ client' = [client EXCEPT ![c] = "up"]
    /\ \E place \in {"rewinding", "asking"} : Goto(c, place)
    /\ UNCHANGED <<sid, held, sessions, restored>>

Rewound(c) ==
    /\ at[c] = "rewinding"
    /\ Goto(c, "asking")
    /\ UNCHANGED <<sid, client, held, sessions, restored>>

Asked(c) ==
    /\ at[c] = "asking"
    /\ Goto(c, "receiving")
    /\ UNCHANGED <<sid, client, held, sessions, restored>>

\* An error of the client, a response without a result or with an error
\* result; the client is dropped on the way out.
ClientFails(c) == at[c] \in {"connecting", "rewinding", "asking", "receiving"} /\ Fail(c)

\* The result names the session; a resumed one may go on under a new id.
Answered(c) ==
    /\ at[c] = "receiving"
    /\ Goto(c, "removing")
    /\ \E i \in Ids : sid' = [sid EXCEPT ![c] = i]
    /\ UNCHANGED <<client, held, sessions, restored>>

----------------------------------------------------------------------------
(* store_client *)

RemoveOld(c) ==
    /\ at[c] = "removing"
    /\ IF sid[c] \in Tracked
       THEN /\ held' = [held EXCEPT ![c] = sessions[sid[c]]]
            /\ sessions' = Restrict(sessions, Tracked \ {sid[c]})
            /\ Goto(c, "disconnecting")
       ELSE Goto(c, "inserting") /\ UNCHANGED <<held, sessions>>
    /\ UNCHANGED <<sid, client, restored>>

Release(c) == held' = [held EXCEPT ![c] = NoClient]

DisconnectEnds(c) ==
    /\ at[c] = "disconnecting"
    /\ client' = [client EXCEPT ![held[c]] = "down"]
    /\ Release(c) /\ Goto(c, "inserting")
    /\ UNCHANGED <<sid, sessions, restored>>

\* The query has left the client before its close fails, and goes with it.
DisconnectFails(c) ==
    /\ at[c] = "disconnecting" /\ client[held[c]] = "up"
    /\ client' = [client EXCEPT ![held[c]] = "down"]
    /\ Goto(c, "restoring")
    /\ UNCHANGED <<sid, held, sessions, restored>>

Entered(i, c) == [j \in Tracked \cup {i} |-> IF j = i THEN c ELSE sessions[j]]

\* A plausible bug: the old client is put back over whatever has come since.
Restore_Inserts(c) ==
    /\ at[c] = "restoring"
    /\ sessions' = Entered(sid[c], held[c])
    /\ restored' = restored \cup {held[c]}
    /\ Release(c) /\ Goto(c, "failed") /\ Dropped({c})
    /\ UNCHANGED sid

\* entry().or_insert(): a client that another call has stored stays.
Restore(c) ==
    /\ at[c] = "restoring"
    /\ IF sid[c] \in Tracked
       THEN UNCHANGED <<sessions, restored>>
       ELSE /\ sessions' = Entered(sid[c], held[c])
            /\ restored' = restored \cup {held[c]}
    /\ Release(c) /\ Goto(c, "failed") /\ Dropped({c})
    /\ UNCHANGED sid

\* A plausible bug: the limit is looked at before the insertion.
Insert_ChecksFirst(c) ==
    /\ at[c] = "inserting"
    /\ LET displaced == IF sid[c] \in Tracked THEN {sessions[sid[c]]} ELSE {}
           full == Entered(sid[c], c)
       IN  /\ Dropped(displaced)
           /\ IF Cardinality(Tracked) > MaxTracked
              THEN \E i \in DOMAIN full \ {sid[c]} :
                     /\ held' = [held EXCEPT ![c] = full[i]]
                     /\ sessions' = Restrict(full, DOMAIN full \ {i})
                     /\ Goto(c, "evicting")
              ELSE sessions' = full /\ Goto(c, "done") /\ UNCHANGED held
    /\ UNCHANGED <<sid, restored>>

\* A client stored under the same id in between is displaced and dropped.
\* Over the limit any other session goes, whichever the map yields first.
Insert(c) ==
    /\ at[c] = "inserting"
    /\ LET displaced == IF sid[c] \in Tracked THEN {sessions[sid[c]]} ELSE {}
           full == Entered(sid[c], c)
       IN  /\ Dropped(displaced)
           /\ IF Cardinality(DOMAIN full) > MaxTracked
              THEN \E i \in DOMAIN full \ {sid[c]} :
                     /\ held' = [held EXCEPT ![c] = full[i]]
                     /\ sessions' = Restrict(full, DOMAIN full \ {i})
                     /\ Goto(c, "evicting")
              ELSE sessions' = full /\ Goto(c, "done") /\ UNCHANGED held
    /\ UNCHANGED <<sid, restored>>

\* An error of this disconnect is ignored.
Evicted(c) ==
    /\ at[c] = "evicting"
    /\ client' = [client EXCEPT ![held[c]] = "down"]
    /\ Release(c) /\ Goto(c, "done")
    /\ UNCHANGED <<sid, sessions, restored>>

----------------------------------------------------------------------------
(* A call whose future is dropped, and the tasks that close *)

\* The clients the future owns are dropped with it: its own, unless the map
\* has it by now, and the one it was disconnecting, whose close is finished by
\* a task of its own or by the drop of the close handle.
Cancel(c) ==
    /\ at[c] \in Working \cup {"connecting", "evicting"}
    /\ LET own == IF at[c] = "evicting" THEN {} ELSE {c}
       IN  \/ Dropped(own \cup {held[c]})
           \/ /\ held[c] # NoClient
              /\ client' = [d \in Calls |-> IF d = held[c] THEN "down"
                                            ELSE IF d \in own THEN AfterDrop(client[d])
                                            ELSE client[d]]
    /\ Release(c) /\ Goto(c, "failed")
    /\ UNCHANGED <<sid, sessions, restored>>

Closed(c) ==
    /\ client[c] = "closing"
    /\ client' = [client EXCEPT ![c] = "down"]
    /\ UNCHANGED <<at, sid, held, sessions, restored>>

Step(c) ==
    \/ Begin(c) \/ Connected(c) \/ Rewound(c) \/ Asked(c) \/ ClientFails(c) \/ Answered(c)
    \/ RemoveOld(c) \/ DisconnectEnds(c) \/ DisconnectFails(c) \/ Restore(c)
    \/ Insert(c) \/ Evicted(c) \/ Cancel(c) \/ Closed(c)

Next == \E c \in Calls : Step(c)

Spec == Init /\ [][Next]_vars

----------------------------------------------------------------------------
(* Properties *)

TypeOK ==
    /\ at \in [Calls -> Working \cup Over \cup {"idle", "connecting", "evicting"}]
    /\ sid \in [Calls -> Ids]
    /\ client \in [Calls -> {"none", "up", "closing", "down"}]
    /\ held \in [Calls -> Calls \cup {NoClient}]
    /\ Tracked \subseteq Ids /\ sessions \in [Tracked -> Calls]
    /\ restored \subseteq Calls

\* Whatever calls replace, evict, fail or are dropped at the same time, a
\* client with a live session is in the map under the id its CLI gave, or one
\* call in progress has it, so that no CLI runs on unnoticed.
NoClientLost ==
    \A c \in Calls : client[c] = "up" =>
        \/ sid[c] \in Tracked /\ sessions[sid[c]] = c
        \/ at[c] \in Working
        \/ \E d \in Calls : held[d] = c /\ at[d] \in {"disconnecting", "evicting"}

\* No call closes a client that another one is working with or has been told
\* is stored: a client in the map is live unless it was put back, and so is
\* that of a call that has not come back.
NoClientClosedEarly ==
    /\ \A i \in Tracked : sessions[i] \in restored \/ client[sessions[i]] = "up"
    /\ \A c \in Calls : at[c] \in Working => client[c] = "up"

\* The clients that are up are those that somebody has.
LiveMeansOwned == NoClientLost /\ NoClientClosedEarly

\* The map keeps to its limit but for clients that were put back because their
\* disconnect failed.  An eviction takes one client at a time, so the excess
\* of each such failure stays.
TrackedWithinLimit == Cardinality(Tracked) <= MaxTracked + Cardinality(restored)

\* A session with a live client never gets a disconnected one instead.
LiveIsNotReplacedByDead ==
    [][\A i \in Tracked :
         /\ client[sessions[i]] = "up"
         /\ i \in DOMAIN sessions' /\ sessions'[i] # sessions[i]
         => client'[sessions'[i]] = "up"]_vars
=============================================================================
