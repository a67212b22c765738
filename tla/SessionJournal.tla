--------------------------- MODULE SessionJournal ---------------------------
(***************************************************************************)
(* The journal of a session on JuCode's engine: a tree of entries in       *)
(* memory, saved as lines appended to a file and replayed from it          *)
(* (crates/agent-core/src/session.rs).  A write may stop half-way (a full  *)
(* disk, a kill), the process may be killed between two writes, and a      *)
(* power cut takes what was not synced.                                    *)
(***************************************************************************)
EXTENDS Naturals, Sequences, SequencesExt, FiniteSetsExt

CONSTANTS
    Text,       \* kinds of entries that name no branch: "user" and others
    Label,      \* names of forked branches
    MaxEdits,   \* bound: changes of the conversation
    MaxLines,   \* bound: lines of one file
    MaxTears,   \* bound: writes that stop half-way
    MaxCrashes, \* bound: kills and power cuts
    Wide,       \* the text has characters of several bytes
    FirstSaved  \* the session was saved before the story begins

ASSUME JournalAssumption ==
    /\ {MaxEdits, MaxTears, MaxCrashes} \subseteq Nat /\ MaxLines \in Nat \ {0}
    /\ {Wide, FirstSaved} \subseteq BOOLEAN
    /\ "root" \notin Label /\ Label \cap Text = {}

VARIABLES
    mem,        \* the SessionStore in memory
    persisted,  \* persisted_entries
    needs,      \* needs_snapshot
    file,       \* per session id: the lines of its journal
    open,       \* per session id: the last line has no newline
    synced,     \* per session id: how many lines are on the disk for sure
    todo,       \* the records the running save has still to write
    pc,         \* "idle", "save" or "down"
    acked,      \* the entries of the conversation last saved, less those deleted
    edits, tears, crashes

saveVars == <<persisted, needs, file, open, synced, todo, pc>>
journalVars == <<mem, saveVars, acked, edits, tears, crashes>>

\* An id is 0 where the code has None.  `life` tells apart the entries that
\* two runs of the engine give the same id.
Id == 0..MaxEdits
Kind == Text \cup Label
Entry == [id : Id, parent : Id, kind : Kind, life : 0..MaxCrashes]
Branch == Label \cup {"root"}
File == {"own", "fresh"}
Torn == {"torn", "cut"}

-----------------------------------------------------------------------------
(* The tree *)

Ids(es) == {es[i].id : i \in DOMAIN es}
Named(es, id) == es[CHOOSE i \in DOMAIN es : es[i].id = id]

\* The branch an entry is on: the label of the nearest fork above it.
BranchOf(es, id) ==
    LET name[i \in Id] ==
            IF i \notin Ids(es) THEN "root"
            ELSE IF Named(es, i).kind \in Label THEN Named(es, i).kind
            ELSE name[Named(es, i).parent]
    IN  name[id]

Descends(es, root) ==
    LET below[i \in Id] == i = root \/ (i \in Ids(es) /\ below[Named(es, i).parent])
    IN  {i \in Ids(es) : below[i]}

\* The entries with none of these ids, in order.
Spared(es, ids) ==
    LET first[n \in 0..Len(es)] ==
            IF n = 0 THEN <<>>
            ELSE IF es[n].id \in ids THEN first[n - 1] ELSE Append(first[n - 1], es[n])
    IN  first[Len(es)]

NoHeads == [b \in Branch |-> 0]

\* Every branch's head is the last of its entries.
RebuiltHeads(es) ==
    [b \in Branch |->
        LET on == {i \in DOMAIN es : BranchOf(es, es[i].id) = b}
        IN  IF on = {} THEN 0 ELSE es[Max(on)].id]

New == [entries |-> <<>>, leaf |-> 0, next |-> 1, heads |-> NoHeads,
        goal |-> FALSE, id |-> "fresh"]

Added(m, e) ==
    LET es == Append(m.entries, e)
    IN  [m EXCEPT !.entries = es, !.leaf = e.id,
                  !.heads = [m.heads EXCEPT ![BranchOf(es, e.id)] = e.id]]

-----------------------------------------------------------------------------
(* Replaying a journal *)

StateOf(m) == [leaf |-> m.leaf, next |-> m.next, heads |-> m.heads,
               goal |-> m.goal, id |-> m.id]

\* A state names entries; the ones that are not there are left out.
ApplyState(m, s) ==
    LET known(id) == IF id \in Ids(m.entries) THEN id ELSE 0
        heads == [b \in Branch |-> known(s.heads[b])]
    IN  [entries |-> m.entries, leaf |-> known(s.leaf), next |-> s.next,
         heads |-> IF heads = NoHeads THEN RebuiltHeads(m.entries) ELSE heads,
         goal |-> s.goal, id |-> s.id]

\* A record that a failed save left behind may come twice.
PushLoaded(m, e) ==
    IF e.id \in Ids(m.entries) THEN m
    ELSE [Added(m, e) EXCEPT !.next = IF m.next > e.id THEN m.next ELSE e.id + 1]

Step(m, line) ==
    CASE line.type = "snapshot" ->
             ApplyState([New EXCEPT !.entries = line.entries], line.state)
      [] line.type = "entry" -> PushLoaded(m, line.entry)
      [] line.type = "state" -> ApplyState(m, line.state)
      [] OTHER -> m

\* The lines one after the other.  (The fold goes over a set of one store, so
\* that TLC computes each store once.)
Replay(lines) ==
    LET after[i \in 0..Len(lines)] ==
            IF i = 0 THEN {New} ELSE {Step(m, lines[i]) : m \in after[i - 1]}
    IN  CHOOSE m \in after[Len(lines)] : TRUE

\* What a restart would load, if it can read the file.
Loaded == Replay(file[mem.id])

-----------------------------------------------------------------------------
(* Changes of the tree, while no save runs (`&mut self`) *)

JournalInit ==
    /\ mem = [New EXCEPT !.id = "own"]
    /\ persisted = 0
    /\ needs = FALSE
    /\ file = [f \in File |-> IF FirstSaved /\ f = "own"
                              THEN <<[type |-> "state", state |-> StateOf(mem)]>> ELSE <<>>]
    /\ open = [f \in File |-> FALSE]
    /\ synced = [f \in File |-> Len(file[f])]
    /\ todo = <<>>
    /\ pc = "idle"
    /\ acked = {}
    /\ edits = 0 /\ tears = 0 /\ crashes = 0

MayEdit == pc = "idle" /\ edits < MaxEdits /\ edits' = edits + 1

\* append, and fork, which appends an entry that names a new branch.
AppendEntry(kind) ==
    /\ MayEdit
    /\ kind \in Label => mem.heads[kind] = 0
    /\ mem' = [Added(mem, [id |-> mem.next, parent |-> mem.leaf, kind |-> kind,
                           life |-> crashes])
               EXCEPT !.next = mem.next + 1]
    /\ UNCHANGED <<saveVars, acked, tears, crashes>>

\* checkout of a branch, or of the place before a user's message.
Checkout ==
    /\ MayEdit
    /\ \E id \in Id :
        /\ \/ id = mem.heads["root"]
           \/ \E l \in Label : id = mem.heads[l] /\ id # 0
           \/ \E i \in DOMAIN mem.entries : mem.entries[i].kind = "user"
                                            /\ id = mem.entries[i].parent
        /\ id # mem.leaf
        /\ mem' = [mem EXCEPT !.leaf = id]
    /\ UNCHANGED <<saveVars, acked, tears, crashes>>

\* The memory without the branch whose fork is `root`.
Pruned(root) ==
    LET gone == Descends(mem.entries, root)
        es == Spared(mem.entries, gone)
        up == Named(mem.entries, root).parent
    IN  [mem EXCEPT !.entries = es, !.heads = RebuiltHeads(es),
                    !.leaf = IF mem.leaf \in gone
                             THEN IF up \in Ids(es) THEN up ELSE 0 ELSE mem.leaf]

\* (Slip: the next save is not told to write a snapshot.)
ForgetsSnapshot(label) ==
    /\ MayEdit
    /\ \E i \in DOMAIN mem.entries :
        /\ mem.entries[i].kind = label
        /\ mem' = Pruned(mem.entries[i].id)
    /\ acked' = acked \cap Range(mem'.entries)
    /\ UNCHANGED <<saveVars, tears, crashes>>

DeleteBranch(label) ==
    /\ MayEdit
    /\ \E i \in DOMAIN mem.entries :
        /\ mem.entries[i].kind = label
        /\ mem' = Pruned(mem.entries[i].id)
    /\ needs' = TRUE
    /\ acked' = acked \cap Range(mem'.entries)
    /\ UNCHANGED <<persisted, file, open, synced, todo, pc, tears, crashes>>

\* A goal is set or cleared.
GoalChanges ==
    /\ MayEdit
    /\ mem' = [mem EXCEPT !.goal = ~mem.goal]
    /\ needs' = TRUE
    /\ UNCHANGED <<persisted, file, open, synced, todo, pc, acked, tears, crashes>>

-----------------------------------------------------------------------------
(* Saving *)

\* The records a save writes: the new entries, or everything; then the state.
Records ==
    LET new == SubSeq(mem.entries, persisted + 1, Len(mem.entries))
    IN  IF needs \/ persisted > Len(mem.entries)
        THEN <<[type |-> "snapshot", entries |-> mem.entries, state |-> StateOf(mem)],
               [type |-> "state", state |-> StateOf(mem)]>>
        ELSE [i \in DOMAIN new |-> [type |-> "entry", entry |-> new[i]]]
             \o <<[type |-> "state", state |-> StateOf(mem)]>>

\* (Slip: the unfinished last line is not closed.)
BeginsUnsealed ==
    /\ pc = "idle" /\ Len(file[mem.id]) + Len(Records) <= MaxLines
    /\ todo' = Records
    /\ pc' = "save"
    /\ UNCHANGED <<mem, persisted, needs, file, open, synced, acked, edits, tears, crashes>>

\* save_for_cwd begins: an unfinished last line is closed first.
SaveBegin ==
    /\ pc = "idle" /\ Len(file[mem.id]) + Len(Records) <= MaxLines
    /\ open' = [open EXCEPT ![mem.id] = FALSE]
    /\ todo' = Records
    /\ pc' = "save"
    /\ UNCHANGED <<mem, persisted, needs, file, synced, acked, edits, tears, crashes>>

\* A line goes to the end of the file; behind an unfinished line it only
\* makes that line longer, and unreadable.
Put(line) ==
    file' = [file EXCEPT ![mem.id] =
                 IF open[mem.id] THEN Append(Front(@), [type |-> "torn"]) ELSE Append(@, line)]

\* (Slip: the entries count as persisted when they are written.)
CountsTooEarly ==
    /\ pc = "save" /\ todo # <<>>
    /\ Put(Head(todo))
    /\ open' = [open EXCEPT ![mem.id] = FALSE]
    /\ todo' = Tail(todo)
    /\ persisted' = Len(mem.entries)
    /\ UNCHANGED <<mem, needs, synced, pc, acked, edits, tears, crashes>>

Write ==
    /\ pc = "save" /\ todo # <<>>
    /\ Put(Head(todo))
    /\ open' = [open EXCEPT ![mem.id] = FALSE]
    /\ todo' = Tail(todo)
    /\ UNCHANGED <<mem, persisted, needs, synced, pc, acked, edits, tears, crashes>>

\* A record's line stops half-way, in the middle of a character perhaps, or
\* just before the newline, or not a byte is written, or the sync fails: the
\* save has failed.  (A kill in the middle of a record is this and Kill.)
SaveFails ==
    /\ pc = "save" /\ tears < MaxTears
    /\ \/ /\ todo # <<>>
          /\ \E line \in {[type |-> "torn"], Head(todo)}
                         \cup (IF Wide THEN {[type |-> "cut"]} ELSE {}) : Put(line)
          /\ open' = [open EXCEPT ![mem.id] = TRUE]
       \/ UNCHANGED <<file, open>>
    /\ todo' = <<>>
    /\ pc' = "idle"
    /\ tears' = tears + 1
    /\ UNCHANGED <<mem, persisted, needs, synced, acked, edits, crashes>>

\* sync_all, and the counts of the next save.
Sync ==
    /\ pc = "save" /\ todo = <<>>
    /\ synced' = [synced EXCEPT ![mem.id] = Len(file[mem.id])]
    /\ persisted' = Len(mem.entries)
    /\ needs' = FALSE
    /\ pc' = "idle"
    /\ acked' = Range(mem.entries)
    /\ UNCHANGED <<mem, file, open, todo, edits, tears, crashes>>

-----------------------------------------------------------------------------
(* Stopping and starting *)

\* Whatever was in memory is gone; `mem.id` is the session to resume.
Stop ==
    /\ pc # "down" /\ crashes < MaxCrashes
    /\ crashes' = crashes + 1
    /\ pc' = "down"
    /\ mem' = [New EXCEPT !.id = mem.id]
    /\ persisted' = 0 /\ needs' = FALSE /\ todo' = <<>>
    /\ UNCHANGED <<synced, acked, edits, tears>>

Kill == Stop /\ UNCHANGED <<file, open>>

\* Of the lines not yet synced only the first n are left, the last of them
\* perhaps without its newline, or in part.
PowerCut ==
    /\ Stop
    /\ \E n \in synced[mem.id]..Len(file[mem.id]) :
        LET left == SubSeq(file[mem.id], 1, n)
        IN  \/ /\ file' = [file EXCEPT ![mem.id] = left]
               /\ \E bare \in {open[mem.id] /\ n = Len(file[mem.id]), n > synced[mem.id]} :
                    open' = [open EXCEPT ![mem.id] = bare]
            \/ /\ n > synced[mem.id]
               /\ \E kind \in IF Wide THEN Torn ELSE {"torn"} :
                    file' = [file EXCEPT ![mem.id] = Append(Front(left), [type |-> kind])]
               /\ open' = [open EXCEPT ![mem.id] = TRUE]

\* A file cut inside a character is no text: it cannot be read at all.
Readable == \A i \in DOMAIN file[mem.id] : file[mem.id][i].type # "cut"

\* load_from_journal.
Load ==
    /\ pc = "down" /\ Readable
    /\ mem' = Loaded
    /\ persisted' = Len(mem'.entries)
    /\ needs' = FALSE
    /\ pc' = "idle"
    /\ UNCHANGED <<file, open, synced, todo, acked, edits, tears, crashes>>

JournalNext ==
    \/ \E kind \in Kind : AppendEntry(kind)
    \/ Checkout
    \/ \E l \in Label : DeleteBranch(l)
    \/ GoalChanges
    \/ SaveBegin \/ Write \/ SaveFails \/ Sync
    \/ Kill \/ PowerCut \/ Load

JournalSpec == JournalInit /\ [][JournalNext]_journalVars

-----------------------------------------------------------------------------
(* Properties *)

\* The types; and without a snapshot due, the entries counted as persisted are
\* there (save_for_cwd slices them off).
StoreOf(entries) == [entries : entries, leaf : Id, next : 1..(MaxEdits + 1), goal : BOOLEAN,
                     heads : [Branch -> Id], id : File]

JournalTypeOK ==
    /\ mem \in StoreOf({mem.entries}) /\ Range(mem.entries) \subseteq Entry
    /\ persisted \in Id /\ needs \in BOOLEAN
    /\ needs \/ persisted <= Len(mem.entries)
    /\ \A f \in File : synced[f] \in 0..Len(file[f]) /\ Len(file[f]) <= MaxLines
    /\ open \in [File -> BOOLEAN]
    /\ pc \in {"idle", "save", "down"}
    /\ acked \subseteq Entry
    /\ edits \in 0..MaxEdits /\ tears \in 0..MaxTears /\ crashes \in 0..MaxCrashes

\* When the last record of a save is written, a restart gives back the very
\* conversation in memory: its entries, the leaf, the branches, the goal and
\* the next id, unless the file was cut inside a character before (save_for_cwd
\* and load_from_journal agree).
SavedIsLoaded == pc = "save" /\ todo = <<>> /\ Readable => Loaded = mem

IsTree(m) ==
    /\ \A i, j \in DOMAIN m.entries : m.entries[i].id = m.entries[j].id => i = j
    /\ \A e \in Range(m.entries) : /\ e.parent \in Ids(m.entries) \cup {0}
                                   /\ e.parent < e.id /\ e.id < m.next
    /\ m.leaf \in Ids(m.entries) \cup {0}
    /\ m.heads = RebuiltHeads(m.entries)

\* Wherever the writing stops, what a restart loads is a tree: no entry twice,
\* none without its parent, none with an id the next entry would get again,
\* and the heads those of its branches (load_from_journal).
LoadedIsTree == IsTree(mem) /\ IsTree(Loaded)

Promise == INSTANCE Conversation WITH
    Entries <- Entry, shown <- Range(mem.entries), safe <- acked, spoilt <- ~Readable,
    kept <- IF Readable THEN Range(Loaded.entries) ELSE {}

\* A save, whole or cut short, only adds what is shown and only drops what is
\* not; what a finished save stored outlives kills and power cuts, until a line
\* is cut inside a character: then nothing can be loaded, whatever is saved
\* after (save_for_cwd's crash safety, load_from_journal).
KeepsConversation == Promise!Spec

=============================================================================
