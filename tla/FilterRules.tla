---------------------------- MODULE FilterRules ----------------------------
(***************************************************************************)
(* The rules by which points are filtered (package filter).  One goroutine *)
(* pulls a document of rules now and then, from the center or from the     *)
(* configuration, and refreshes the table of conditions when the document  *)
(* is another than the last one.  The table is replaced entry by entry,    *)
(* without the lock that the readers (doFilter) take.                      *)
(***************************************************************************)
EXTENDS Integers, FiniteSets

CONSTANTS
    Docs,           \* the documents that can be published
    NoDoc,          \* the md5 before the first refresh
    RulesOf,        \* RulesOf[d]: category -> the rules of document d
    BadRule,        \* rules that GetConds does not compile
    Unreadable,     \* the documents json.Unmarshal refuses
    Source,         \* sourceRemote or sourceLocal
    MaxPublish      \* how often the document changes

ASSUME FilterAssumption ==
    /\ NoDoc \notin Docs /\ Unreadable \subseteq Docs
    /\ Source \in {"remote", "local"} /\ MaxPublish \in Nat
    /\ \A d \in Docs : RulesOf[d] = [c \in DOMAIN RulesOf[d] |-> RulesOf[d][c]]

VARIABLES
    published,  \* the document the next pull returns
    changes,
    md5,        \* the document of the last refresh
    conditions, \* the table: category -> conditions
    todo        \* the categories of document md5 that are not compiled yet

filterVars == <<published, changes, md5, conditions, todo>>

EmptyTable == [c \in {} |-> BadRule]

\* The member "filters" of the JSON text.  localFilter.Pull marshals the table
\* of rules itself, with no member of that name, so nothing is found in it.
Filters(d) == IF Source = "local" THEN EmptyTable ELSE RulesOf[d]

FilterInit ==
    /\ published \in Docs /\ changes \in 0..MaxPublish
    /\ md5 = NoDoc /\ conditions = EmptyTable /\ todo = {}

\* The rules are edited at the center; a configuration stays as it is.
Publish(d) ==
    /\ Source = "remote" /\ d # published /\ changes < MaxPublish
    /\ published' = d /\ changes' = changes + 1
    /\ UNCHANGED <<md5, conditions, todo>>

\* Mutant: the old conditions are not cleared.
PullBug ==
    /\ todo = {} /\ published # md5 /\ published \notin Unreadable
    /\ md5' = published /\ todo' = DOMAIN Filters(published)
    /\ UNCHANGED <<published, changes, conditions>>

\* pull, and refresh up to its loop.  A pull that fails, the document of the
\* last refresh and one that cannot be read change nothing.
Pull ==
    /\ todo = {} /\ published # md5 /\ published \notin Unreadable
    /\ md5' = published
    /\ conditions' = EmptyTable /\ todo' = DOMAIN Filters(published)
    /\ UNCHANGED <<published, changes>>

\* The table with conditions x for category c.
WithRules(c, x) == [k \in DOMAIN conditions \cup {c} |-> IF k = c THEN x ELSE conditions[k]]

\* Mutant: rules that do not compile are tried again at once.
CompileBug(c) ==
    /\ c \in todo
    /\ IF Filters(md5)[c] = BadRule
         THEN UNCHANGED <<conditions, todo>>
         ELSE /\ todo' = todo \ {c}
              /\ conditions' = WithRules(c, Filters(md5)[c])
    /\ UNCHANGED <<published, changes, md5>>

\* One round of the loop.  Rules that do not compile end the refresh with the
\* categories before them in place, and md5 keeps it from being tried again.
Compile(c) ==
    /\ c \in todo
    /\ IF Filters(md5)[c] = BadRule
         THEN todo' = {} /\ UNCHANGED conditions
         ELSE /\ todo' = todo \ {c}
              /\ conditions' = WithRules(c, Filters(md5)[c])
    /\ UNCHANGED <<published, changes, md5>>

\* doFilter: what rules (sets of points they match) leave of a batch.
Matched(c) == IF c \in DOMAIN conditions THEN conditions[c] ELSE {}

FilterStep == Pull \/ \E c \in todo : Compile(c)
FilterNext == FilterStep \/ \E d \in Docs : Publish(d)
FilterSpec == FilterInit /\ [][FilterNext]_filterVars

----------------------------------------------------------------------------
(* Properties *)

Compiles(d) == d \in Docs \ Unreadable /\ \A c \in DOMAIN RulesOf[d] : RulesOf[d][c] # BadRule

\* No rule is applied that is not of the document of the last refresh, also in
\* the middle of a refresh and after one that failed (refresh); and between
\* refreshes the rules of a document that compiles are all there.
RulesOfOneDocument ==
    /\ \A c \in DOMAIN conditions :
        c \in DOMAIN RulesOf[md5] /\ conditions[c] = RulesOf[md5][c]
    /\ todo = {} /\ Compiles(md5) => conditions = RulesOf[md5]
=============================================================================
