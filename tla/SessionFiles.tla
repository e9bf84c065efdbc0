---------------------------- MODULE SessionFiles ----------------------------
(***************************************************************************)
(* Reading the sessions that the Claude CLI keeps on disk                  *)
(* (crates/claude-code/src/sessions.rs).                                   *)
(*                                                                         *)
(* get_session_messages parses the transcript of a session, a file of      *)
(* entries that each name their parent, finds the conversation in the tree *)
(* they form, and returns a page of it.  The file is read in one go, but   *)
(* between two pages the CLI goes on: it appends entries, branches off     *)
(* after a rewind, and can die in the middle of a line.                    *)
(*                                                                         *)
(* list_sessions collects the files of all sessions, of which a session    *)
(* that went on in another directory has several.                          *)
(***************************************************************************)
EXTENDS Naturals, FiniteSets, FiniteSetsExt, SequencesExt, Selection

CONSTANTS
    MaxLines,    \* bound on the lines of the transcript
    MaxFiles,    \* bound on the files that are listed
    Sessions, Dirs,  \* the sessions and the directories of the files
    MaxModified  \* bound on their times of modification

ASSUME BoundsAreNaturals == MaxLines \in Nat /\ MaxFiles \in Nat /\ MaxModified \in Nat

NoEntry == 0

VARIABLES
    lines,    \* the transcript
    head,     \* the entry the CLI goes on from
    torn,     \* "no", "now" (its last line is not whole yet) or "died"
    got,      \* what the pages asked for so far have returned
    listing,  \* the files that were listed, the limit, and the answer
  \* history
    conv,     \* [entry -> the messages of the conversation up to it]
    rewound,  \* the CLI has gone back
    broken    \* the CLI has died in the middle of a line

fileVars == <<lines, head, torn, conv, rewound, broken>>
historyVars == <<fileVars, got, listing>>

\* An entry is named by the line it was written to.  "message" stands for user
\* and assistant, "note" for the other types; side entries are those of a
\* sidechain or a team, and meta entries.
Entry(type, parent, side, whole) ==
    [uuid |-> Len(lines) + 1, type |-> type, parent |-> parent, side |-> side, whole |-> whole]

NoListing == [files |-> {}, limit |-> 0, answer |-> <<>>]

HistoryInit ==
    /\ lines = <<>> /\ head = NoEntry /\ torn = "no"
    /\ got = <<>> /\ listing = NoListing
    /\ conv = <<>> /\ rewound = FALSE /\ broken = FALSE

----------------------------------------------------------------------------
(* The conversation in a transcript *)

\* parse_transcript_entries: what is no JSON is skipped
Entries(file) == Keep(file, {i \in DOMAIN file : file[i].whole})

\* the entry with a uuid, or none
ByUuid(es, uuid) == LET found == {i \in DOMAIN es : es[i].uuid = uuid}
                    IN  IF found = {} THEN NoEntry ELSE Max(found)

Terminals(es) == {i \in DOMAIN es : \A j \in DOMAIN es : es[j].parent # es[i].uuid}

\* the nearest message on the way up from each entry, or none
Nearest(es) ==
    LET nearest[i \in 0 .. Len(es)] ==
          IF i = NoEntry \/ es[i].type = "message" THEN i ELSE nearest[ByUuid(es, es[i].parent)]
    IN  nearest

Leaves(es) == {Nearest(es)[i] : i \in Terminals(es)} \ {NoEntry}

\* A plausible bug: leaves of side branches are as good as any.
Preferred_Any(es, leaves) == leaves

\* Leaves of the main conversation are preferred.
Preferred(es, leaves) ==
    LET main == {i \in leaves : ~es[i].side}
    IN  IF main = {} THEN leaves ELSE main

\* from the root, or from an entry whose parent is not there, to each entry
ChainTo(es) ==
    LET chain[i \in 0 .. Len(es)] ==
          IF i = NoEntry THEN <<>> ELSE Append(chain[ByUuid(es, es[i].parent)], es[i])
    IN  chain

BuildConversationChain(es) ==
    IF Leaves(es) = {} THEN <<>> ELSE ChainTo(es)[Max(Preferred(es, Leaves(es)))]

IsVisibleMessage(e) == e.type = "message" /\ ~e.side

\* the visible messages of a chain
Visible(chain) ==
    LET visible == Keep(chain, {i \in DOMAIN chain : IsVisibleMessage(chain[i])})
    IN  [i \in DOMAIN visible |-> visible[i].uuid]

Messages(file) == Visible(BuildConversationChain(Entries(file)))

\* A plausible bug: an offset past the end counts from the start.
FromOffset_Wraps(ms, offset) ==
    IF offset >= Len(ms) THEN ms ELSE SubSeq(ms, offset + 1, Len(ms))

FromOffset(ms, offset) ==
    IF offset >= Len(ms) THEN <<>> ELSE SubSeq(ms, offset + 1, Len(ms))

\* no limit, or a limit of zero, is none
Limited(s, limit) == IF limit > 0 /\ Len(s) > limit THEN SubSeq(s, 1, limit) ELSE s

GetSessionMessages(file, limit, offset) == Limited(FromOffset(Messages(file), offset), limit)

NextPage(limit) ==
    /\ listing = NoListing
    /\ got' = got \o GetSessionMessages(lines, limit, Len(got))
    /\ UNCHANGED <<fileVars, listing>>

----------------------------------------------------------------------------
(* The CLI, which writes the transcript *)

\* What the CLI writes after it died in the middle of a line goes on that line.
Write(type, parent, side, isHead, isTorn) ==
    LET new == Len(lines) + 1
        before == IF parent = NoEntry THEN <<>> ELSE conv[parent]
    IN  /\ Len(lines) < MaxLines /\ torn # "now" /\ listing = NoListing
        /\ lines' = Append(lines, Entry(type, parent, side, torn = "no" /\ ~isTorn))
        /\ head' = IF isHead THEN new ELSE head
        /\ torn' = IF isTorn THEN "now" ELSE "no"
        /\ conv' = Append(conv, IF type = "message" /\ ~side THEN Append(before, new) ELSE before)
        /\ UNCHANGED <<got, listing, rewound, broken>>

\* the conversation goes on
WriteMessage(isTorn) == Write("message", head, FALSE, TRUE, isTorn)

\* an entry about it, from which it may go on
WriteNote == \E side, isHead \in BOOLEAN : Write("note", head, side, isHead, FALSE)

\* a meta message, from which it goes on, or one of a side branch
WriteSide ==
    \/ Write("message", head, TRUE, TRUE, FALSE)
    \/ \E parent \in 0 .. Len(lines) : Write("message", parent, TRUE, FALSE, FALSE)

FinishLine ==
    /\ torn = "now"
    /\ torn' = "no"
    /\ lines' = [lines EXCEPT ![Len(lines)].whole = TRUE]
    /\ UNCHANGED <<head, got, listing, conv, rewound, broken>>

Die ==
    /\ torn = "now"
    /\ torn' = "died" /\ broken' = TRUE
    /\ UNCHANGED <<lines, head, got, listing, conv, rewound>>

Rewind ==
    /\ torn # "now" /\ listing = NoListing
    /\ \E e \in (0 .. Len(lines)) \ {head} :
         /\ e # NoEntry => ~lines[e].side
         /\ head' = e
    /\ rewound' = TRUE
    /\ UNCHANGED <<lines, torn, got, listing, conv, broken>>

----------------------------------------------------------------------------
(* Listing *)

\* A file that begins with a sidechain, or of which no summary can be made, is
\* of no session.
Files == [id : Sessions, dir : Dirs, modified : 0 .. MaxModified, listed : BOOLEAN]

\* A plausible bug: the first copy of a session stays.
Newer_First(a, b) == FALSE

Newer(a, b) == a.modified > b.modified

\* A copy replaces an older one of its session.
Replaced(kept, f) ==
    LET same == {k \in kept : k.id = f.id}
    IN  IF \A k \in same : Newer(f, k) THEN (kept \ same) \cup {f} ELSE kept

\* the copy of each session that stays, of files that come in some order
Kept(order) ==
    LET kept[n \in 0 .. Len(order)] == IF n = 0 THEN {} ELSE Replaced(kept[n - 1], order[n])
    IN  kept[Len(order)]

\* files of the same time come in any order
Sorted(kept) ==
    {s \in SetToSeqs(kept) : \A i, j \in DOMAIN s : i < j => s[i].modified >= s[j].modified}

ListSessions(limit) ==
    /\ lines = <<>> /\ listing = NoListing
    /\ \E n \in 1 .. MaxFiles : \E files \in [1 .. n -> Files] :
         /\ \A i, j \in 1 .. n : i # j => files[i].id # files[j].id \/ files[i].dir # files[j].dir
         /\ LET order == Keep(files, {i \in 1 .. n : files[i].listed})
            IN  \E sorted \in Sorted(Kept(order)) :
                  listing' = [files |-> Range(files), limit |-> limit, answer |-> Limited(sorted, limit)]
    /\ UNCHANGED <<fileVars, got>>

----------------------------------------------------------------------------
HistoryNext ==
    \/ \E isTorn \in BOOLEAN : WriteMessage(isTorn)
    \/ WriteNote \/ WriteSide \/ FinishLine \/ Die \/ Rewind
    \/ \E limit \in 0 .. 1 : NextPage(limit) \/ ListSessions(limit)

HistorySpec == HistoryInit /\ [][HistoryNext]_historyVars

----------------------------------------------------------------------------
(* Properties *)

\* The newest message of the conversation
Newest ==
    LET main == {i \in DOMAIN lines : lines[i].whole /\ IsVisibleMessage(lines[i])}
    IN  IF main = {} THEN NoEntry ELSE Max(main)

\* Some side entry hangs below entry e.
SideBelow(e) == \E i \in DOMAIN lines : lines[i].side /\ \E c \in {ChainTo(lines)[i]} :
                    \E j \in DOMAIN c : c[j].uuid = e

\* However the conversation has branched, its messages are those on the way to
\* the newest one, and nothing of an abandoned or side branch: unless the CLI
\* died in a line, or a side entry hangs below that message, in which case an
\* older branch may be taken for the conversation.
NewestBranchIsShown ==
    ~broken /\ Newest # NoEntry /\ ~SideBelow(Newest) => Messages(lines) = conv[Newest]

\* Pages that are asked for one after the other, while the CLI goes on, never
\* repeat, skip or reorder a message, whatever side branches it writes: unless
\* it rewinds, or dies in a line.
PagesFollowConversation ==
    ~rewound /\ ~broken => got = <<>> \/ \E i \in DOMAIN conv : IsPrefix(got, conv[i])

\* Each session is listed once, as its newest copy, the newest sessions come
\* first, and a limit cuts off the oldest.
ListingIsNewest ==
    LET answer == listing.answer
        real == {f \in listing.files : f.listed}
        isNewest(f) == \A g \in real : g.id = f.id => g.modified <= f.modified
        shown == {answer[i].id : i \in DOMAIN answer}
    IN  /\ IsInjective([i \in DOMAIN answer |-> answer[i].id])
        /\ \A i \in DOMAIN answer : answer[i] \in real /\ isNewest(answer[i])
        /\ \A i, j \in DOMAIN answer : i < j => answer[i].modified >= answer[j].modified
        /\ \A f \in real : f.id \notin shown =>
             /\ listing.limit > 0
             /\ \A i \in DOMAIN answer : answer[i].modified >= f.modified
=============================================================================
