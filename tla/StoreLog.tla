------------------------------ MODULE StoreLog ------------------------------
(***************************************************************************)
(* A log of the daemon's store (crates/daemon/src/store.rs): one record a  *)
(* line, appended under the store's lock; a write that stops half-way      *)
(* leaves a torn line, which reads skip.  The fold is that of actions.jsonl*)
(* (deferred, decided, closed and reopened actions).                       *)
(***************************************************************************)
EXTENDS Naturals, Sequences, FiniteSets, SequencesExt

Record(kind, a) == [kind |-> kind, action |-> a]

\* A line no reader can parse.
Torn == Record("torn", <<>>)
NoLog == [lines |-> <<>>, torn |-> FALSE]

\* Store::read: the lines that can be parsed, by their numbers.
Parsed(log) == {i \in DOMAIN log : log[i] # Torn}

Has(log, kind, a) == \E i \in Parsed(log) : log[i] = Record(kind, a)
Named(log) == {log[i].action : i \in Parsed(log)}

\* A slip: the record joins a last line without a newline, and both are lost.
JoinsTorn(f, r) ==
    IF f.torn THEN [lines |-> Append(Front(f.lines), Torn), torn |-> FALSE]
    ELSE [lines |-> Append(f.lines, r), torn |-> FALSE]

\* Store::append_locked: a last line without a newline gets it first.
Appended(f, r) == [lines |-> Append(f.lines, r), torn |-> FALSE]

\* The same, stopped before the line, in it, or before its newline.
CutShort(f, r) == {f, [lines |-> Append(f.lines, Torn), torn |-> TRUE],
                   [lines |-> Append(f.lines, r), torn |-> TRUE]}

\* closures: the closed entries that no reopening took out.
IsClosed(log, a) ==
    \E i \in Parsed(log) :
        /\ log[i] = Record("closed", a)
        /\ \A j \in Parsed(log) : j > i => log[j] # Record("reopened", a)

IsUndecided(log, a) == Has(log, "deferred", a) /\ ~Has(log, "decided", a)
Undecided(log) == {a \in Named(log) : IsUndecided(log, a)}

\* Store::open_actions and closed_actions.
Open(log) == {a \in Undecided(log) : ~IsClosed(log, a)}
Closed(log) == {a \in Undecided(log) : IsClosed(log, a)}

Records(kind, actions) == [i \in DOMAIN actions |-> Record(kind, actions[i])]

\* Store::compact: the open actions, and each closed one young enough to keep, in an
\* order that no fold tells from another: a closing after its deferral.
Compacted(all, put) == Records("deferred", all) \o Records("closed", put)

\* Store::rewrite: only when that drops lines.
Rewritten(f, log) ==
    IF Len(log) < Cardinality(Parsed(f.lines)) THEN [lines |-> log, torn |-> FALSE] ELSE f
=============================================================================
