-------------------------------- MODULE Feed --------------------------------
(***************************************************************************)
(* The way of a point from an input to Dataway.Write (package io): Feed or *)
(* FeedV2 takes an option from a pool, attaches the global tags, runs the  *)
(* pipeline and the filter, and writes the option to the channel of the    *)
(* category (or, with syncSend, the points to the dataway).  Compactors    *)
(* collect the points of the options they receive, put the options back,   *)
(* and write the collected points when there are many or on a tick.  Points*)
(* whose script is a remote one go to the offload workers instead.         *)
(*                                                                         *)
(* One category is modelled; the tags and the rules are those of           *)
(* GlobalTags and FilterRules.                                             *)
(***************************************************************************)
EXTENDS GlobalTags, FilterRules, Sequences, SequencesExt

CONSTANTS
    Category,
    Points,     \* the points that are fed or created
    Feeds,      \* Feeds[f]: the calls of feeder f, records [by, pts, sync]
    Script,     \* Script[p]: "none", "drop", "offload" or "create"
    Made,       \* Made[p]: the points that the script of p creates
    MaxOptions, \* as many options as may be allocated
    Compactors, \* the compactors of the category
    CompactAt,
    ChanCap,    \* capacity of the channel
    Customers,  \* the offload workers
    OffloadCap, \* chanSize
    PtsBuf,     \* ptsBuf
    MayExit     \* datakit.Exit is closed at some time

ASSUME FeedAssumption ==
    /\ CompactAt \in Nat /\ ChanCap \in Nat \ {0} /\ MaxOptions \in Nat
    /\ OffloadCap \in Nat \ {0} /\ PtsBuf \in Nat \ {0} /\ MayExit \in BOOLEAN

VARIABLES
    fpc,        \* fpc[f]: where feeder f is
    calls,      \* calls[f]: the calls it has begun
    fo,         \* fo[o]: the fields pts and syncSend of option o
    pool,       \* the pooled options
    used,       \* the number of options allocated
    opt,        \* opt[f]: the options it has to write, the one of its call last
    made,       \* made[f]: the points created, before they have an option
    chan,       \* the channel of the category, options
    cpc,        \* cpc[c]: where compactor c is
    points,     \* points[c]: what it has collected
    hold,       \* hold[c]: the option it is caching, 0 when there is none
    offq,       \* the channel of the offload workers, sequences of points
    cache,      \* cache[w]: ptsCache of worker w
    exit,       \* datakit.Exit is closed
    fate        \* fate[p]: "unborn", "live" or what has become of it

feeding  == <<fpc, calls, opt, made>>
options  == <<fo, pool, used>>
compact  == <<cpc, points, hold>>
offload  == <<offq, cache>>
feedVars == <<feeding, options, chan, compact, offload, exit, fate>>
vars     == <<tagVars, filterVars, feedVars>>

\* The points of sequence ps come to the end named how.  "written" is the end
\* of points given to Dataway.Write: no error of it is acted upon.
Ends(ps, how) == [p \in Points |-> IF p \in Range(ps) THEN how ELSE fate[p]]

\* Every feeder makes the calls of its list from some place on.
FeedInit ==
    /\ fpc = [f \in Feeders |-> "idle"]
    /\ calls \in [Feeders -> UNION {0..Len(Feeds[f]) : f \in Feeders}]
    /\ \A f \in Feeders : calls[f] <= Len(Feeds[f])
    /\ fo = [o \in 1..MaxOptions |-> [pts |-> <<>>, sync |-> FALSE]]
    /\ pool = {} /\ used = 0
    /\ opt = [f \in Feeders |-> <<>>] /\ made = [f \in Feeders |-> <<>>]
    /\ chan = <<>>
    /\ cpc = [c \in Compactors |-> "select"] /\ points = [c \in Compactors |-> <<>>]
    /\ hold = [c \in Compactors |-> 0]
    /\ offq = <<>> /\ cache = [w \in Customers |-> <<>>]
    /\ exit = FALSE /\ fate = [p \in Points |-> "unborn"]

Init == TagInit /\ FilterInit /\ FeedInit

Goto(f, l) == fpc' = [fpc EXCEPT ![f] = l]

----------------------------------------------------------------------------
(* Options *)

\* sync.Pool gives any pooled option or none, and GetFeedOption then allocates
\* one.  The caller sets pts, and syncSend only if it is asked for.
GetFeedOption(o, ps, sync) ==
    /\ o \in pool \cup ({used + 1} \cap 1..MaxOptions)
    /\ pool' = pool \ {o} /\ used' = IF o \in pool THEN used ELSE o
    /\ fo' = [fo EXCEPT ![o] = [pts |-> ps, sync |-> sync \/ @.sync]]

\* PutFeedOption resets every field but syncSend.
PutFeedOption(o) ==
    /\ pool' = pool \cup {o} /\ UNCHANGED used
    /\ fo' = [fo EXCEPT ![o].pts = <<>>]

----------------------------------------------------------------------------
(* Feeders *)

Begin(f, call) ==
    /\ fpc[f] = "idle" /\ calls[f] < Len(Feeds[f])
    /\ call = Feeds[f][calls[f] + 1] /\ calls' = [calls EXCEPT ![f] = @ + 1]

\* Feed, and FeedV2 up to the tags.
StartFeed(f) == \E call \in Range(Feeds[f]), o \in 1..MaxOptions :
    /\ Begin(f, call) /\ call.by # "PLAggFeed"
    /\ GetFeedOption(o, call.pts, call.sync) /\ opt' = [opt EXCEPT ![f] = <<o>>]
    /\ fate' = Ends(call.pts, "live")
    /\ IF call.by = "FeedV2" THEN Goto(f, "tags") /\ StartTags(f)
                             ELSE Goto(f, "pipeline") /\ UNCHANGED tagVars
    /\ UNCHANGED <<filterVars, made, chan, compact, offload, exit>>

TagStep(f) ==
    /\ fpc[f] = "tags"
    /\ \/ Refreshing(f) /\ UNCHANGED fpc
       \/ Attach(f) /\ Goto(f, "pipeline")
    /\ UNCHANGED <<filterVars, calls, opt, made, options, chan, compact, offload, exit, fate>>

\* Nothing to feed: doFeed and Write return and nobody puts the option back.
FeedNothing(f) ==
    /\ fpc[f] = "pipeline" /\ fo[opt[f][1]].pts = <<>>
    /\ Goto(f, "idle") /\ opt' = [opt EXCEPT ![f] = <<>>]
    /\ UNCHANGED <<tagVars, filterVars, calls, made, options, chan, compact, offload, exit, fate>>

Which(ps, what) == SelectSeq(ps, LAMBDA p : Script[p] \in what)

\* RunPl, and Send of the offloader, which waits for room in its channel.  When
\* a script panics all points are kept and nothing is created or offloaded.
RunPl(f) ==
    LET o    == opt[f][1]
        ps   == fo[o].pts
        off  == Which(ps, {"offload"})
        subs == FlattenSeq([i \in DOMAIN ps |-> IF Script[ps[i]] = "create"
                                                THEN Made[ps[i]] ELSE <<>>])
    IN
    /\ fpc[f] = "pipeline" /\ ps # <<>>
    /\ \/ /\ Len(offq) < OffloadCap \/ off = <<>>
          /\ offq' = IF off = <<>> THEN offq ELSE Append(offq, off)
          /\ made' = [made EXCEPT ![f] = subs]
          /\ fo' = [fo EXCEPT ![o].pts = Which(ps, {"none", "create"})]
          /\ fate' = [p \in Points |-> IF p \in Range(subs) THEN "live"
                                       ELSE Ends(Which(ps, {"drop"}), "dropped")[p]]
          /\ Goto(f, IF subs = <<>> THEN "filter" ELSE "filterMade")
       \/ /\ Which(ps, {"none"}) # ps      \* recovered from a panic
          /\ Goto(f, "filter") /\ UNCHANGED <<offq, made, fo, fate>>
    /\ UNCHANGED <<tagVars, filterVars, calls, opt, pool, used, chan, compact, cache, exit>>

Pass(ps)    == SelectSeq(ps, LAMBDA p : p \notin Matched(Category))
Blocked(ps) == SelectSeq(ps, LAMBDA p : p \in Matched(Category))

\* FilterPts on the created points; the points it drops are put back.
FilterMade(f) ==
    /\ fpc[f] = "filterMade" /\ Goto(f, "filterToo")
    /\ made' = [made EXCEPT ![f] = Pass(@)] /\ fate' = Ends(Blocked(made[f]), "filtered")
    /\ UNCHANGED <<tagVars, filterVars, calls, opt, options, chan, compact, offload, exit>>

\* FilterPts on the points of the call.
Filter(f) ==
    LET o  == opt[f][1]
        ps == fo[o].pts
    IN
    /\ fpc[f] \in {"filter", "filterToo"}
    /\ Goto(f, IF fpc[f] = "filter" THEN "write" ELSE "getMade")
    /\ fo' = [fo EXCEPT ![o].pts = Pass(ps)] /\ fate' = Ends(Blocked(ps), "filtered")
    /\ UNCHANGED <<tagVars, filterVars, calls, opt, made, pool, used, chan, compact, offload, exit>>

\* doFeed gives the created points an option, to be written before its own.
GetMade(f) == \E o \in 1..MaxOptions :
    /\ fpc[f] = "getMade" /\ Goto(f, "write")
    /\ GetFeedOption(o, made[f], FALSE) /\ opt' = [opt EXCEPT ![f] = <<o>> \o @]
    /\ made' = [made EXCEPT ![f] = <<>>]
    /\ UNCHANGED <<tagVars, filterVars, calls, chan, compact, offload, exit, fate>>

\* PLAggFeed: filter, take an option, and on to Write.
AggFeed(f) == \E call \in Range(Feeds[f]), o \in 1..MaxOptions :
    /\ Begin(f, call) /\ call.by = "PLAggFeed"
    /\ GetFeedOption(o, Pass(call.pts), FALSE) /\ opt' = [opt EXCEPT ![f] = <<o>>]
    /\ fate' = [p \in Points |-> IF p \in Range(Blocked(call.pts)) THEN "filtered"
                                 ELSE Ends(call.pts, "live")[p]]
    /\ Goto(f, "write")
    /\ UNCHANGED <<tagVars, filterVars, made, chan, compact, offload, exit>>

\* Write returns; an error is only logged or returned to the input.
Return(f) ==
    /\ opt' = [opt EXCEPT ![f] = Tail(@)]
    /\ Goto(f, IF Len(opt[f]) = 1 THEN "idle" ELSE "write")
    /\ UNCHANGED <<tagVars, filterVars, calls, made, compact, offload, exit>>

\* Nothing is left to write, and nobody puts the option back.
WriteNothing(f) ==
    /\ fpc[f] = "write" /\ fo[Head(opt[f])].pts = <<>>
    /\ Return(f) /\ UNCHANGED <<options, chan, fate>>

\* Mutant: the option of a synchronous write is put back.
WriteSyncBug(f) ==
    LET o == Head(opt[f]) IN
    /\ fpc[f] = "write" /\ fo[o].pts # <<>> /\ fo[o].sync
    /\ fate' = Ends(fo[o].pts, "written")
    /\ PutFeedOption(o) /\ Return(f) /\ UNCHANGED chan

\* syncSend: doCompact here, then PutbackPoints; the option is not put back.
WriteSync(f) ==
    LET o == Head(opt[f]) IN
    /\ fpc[f] = "write" /\ fo[o].pts # <<>> /\ fo[o].sync
    /\ fate' = Ends(fo[o].pts, "written")
    /\ Return(f) /\ UNCHANGED <<options, chan>>

\* Mutant: the channel is taken to be unbounded.
EnqueueBug(f) ==
    LET o == Head(opt[f]) IN
    /\ fpc[f] = "write" /\ fo[o].pts # <<>> /\ ~fo[o].sync
    /\ chan' = Append(chan, o)
    /\ Return(f) /\ UNCHANGED <<options, fate>>

\* Write: the channel takes the option when there is room, ...
Enqueue(f) ==
    LET o == Head(opt[f]) IN
    /\ fpc[f] = "write" /\ fo[o].pts # <<>> /\ ~fo[o].sync
    /\ Len(chan) < ChanCap /\ chan' = Append(chan, o)
    /\ Return(f) /\ UNCHANGED <<options, fate>>

\* Mutant: Write does not look at Exit.
RefuseBug(f) == FALSE

\* ... or the agent exits.
Refuse(f) ==
    LET o == Head(opt[f]) IN
    /\ fpc[f] = "write" /\ fo[o].pts # <<>> /\ ~fo[o].sync
    /\ exit /\ fate' = Ends(fo[o].pts, "refused")
    /\ Return(f) /\ UNCHANGED <<options, chan>>

Working(f) ==
    \/ TagStep(f) \/ FeedNothing(f) \/ RunPl(f) \/ FilterMade(f) \/ Filter(f) \/ GetMade(f)
    \/ WriteNothing(f) \/ WriteSync(f) \/ Enqueue(f) \/ Refuse(f)

----------------------------------------------------------------------------
(* Compactors *)

CompactGoto(c, l) == cpc' = [cpc EXCEPT ![c] = l]

\* Receive an option and cacheData up to compact; without compact the option
\* goes back at once.
Receive(c) ==
    LET o   == Head(chan)
        all == points[c] \o fo[o].pts
    IN
    /\ cpc[c] = "select" /\ chan # <<>> /\ chan' = Tail(chan)
    /\ points' = [points EXCEPT ![c] = all]
    /\ IF CompactAt > 0 /\ Len(all) > CompactAt
         THEN CompactGoto(c, "compact") /\ hold' = [hold EXCEPT ![c] = o] /\ UNCHANGED options
         ELSE PutFeedOption(o) /\ UNCHANGED <<cpc, hold>>
    /\ UNCHANGED <<tagVars, filterVars, feeding, offload, exit, fate>>

\* A tick of compactTicker.
Tick(c) ==
    /\ cpc[c] = "select" /\ points[c] # <<>> /\ CompactGoto(c, "compact")
    /\ UNCHANGED <<tagVars, filterVars, feeding, options, chan, points, hold, offload, exit, fate>>

\* Mutant: what is collected is not written.
OnExitBug(c) ==
    /\ cpc[c] = "select" /\ exit /\ CompactGoto(c, "done")
    /\ UNCHANGED <<tagVars, filterVars, feeding, options, chan, points, hold, offload, exit, fate>>

\* Exit: what is collected is written, what is in the channel is not.
OnExit(c) ==
    /\ cpc[c] = "select" /\ exit
    /\ CompactGoto(c, IF points[c] = <<>> THEN "done" ELSE "final")
    /\ UNCHANGED <<tagVars, filterVars, feeding, options, chan, points, hold, offload, exit, fate>>

\* Mutant: the slice is not emptied.
CompactBug(c) ==
    /\ cpc[c] \in {"compact", "final"}
    /\ CompactGoto(c, IF cpc[c] = "final" THEN "done" ELSE "select")
    /\ fate' = Ends(points[c], "written")
    /\ hold' = [hold EXCEPT ![c] = 0]
    /\ IF hold[c] = 0 THEN UNCHANGED options ELSE PutFeedOption(hold[c])
    /\ UNCHANGED <<tagVars, filterVars, feeding, points, chan, offload, exit>>

\* compact: an error is logged, the points are put back, the slice is emptied;
\* then, in the case of a receive, PutFeedOption.
Compact(c) ==
    /\ cpc[c] \in {"compact", "final"}
    /\ CompactGoto(c, IF cpc[c] = "final" THEN "done" ELSE "select")
    /\ fate' = Ends(points[c], "written")
    /\ points' = [points EXCEPT ![c] = <<>>] /\ hold' = [hold EXCEPT ![c] = 0]
    /\ IF hold[c] = 0 THEN UNCHANGED options ELSE PutFeedOption(hold[c])
    /\ UNCHANGED <<tagVars, filterVars, feeding, chan, offload, exit>>

----------------------------------------------------------------------------
(* Offload workers.  Nothing stops them: Stop is not called, and the context *)
(* of their group is never cancelled.                                        *)

\* sendOrCache: the points it sends, in batches of PtsBuf, and what it caches.
SendOrCache(old, ps) ==
    LET diff == PtsBuf - Len(old)
        long == SubSeq(ps, diff + 1, Len(ps))
        full == PtsBuf * (Len(long) \div PtsBuf)
    IN  IF diff > Len(ps) THEN [sent |-> <<>>, cache |-> old \o ps]
        ELSE [sent |-> old \o SubSeq(ps, 1, diff) \o SubSeq(long, 1, full),
              cache |-> SubSeq(long, full + 1, Len(long))]

Consume(w) ==
    LET r == SendOrCache(cache[w], Head(offq)) IN
    /\ offq # <<>> /\ offq' = Tail(offq)
    /\ cache' = [cache EXCEPT ![w] = r.cache] /\ fate' = Ends(r.sent, "offloaded")
    /\ UNCHANGED <<tagVars, filterVars, feeding, options, chan, compact, exit>>

FlushCache(w) ==
    /\ cache[w] # <<>> /\ cache' = [cache EXCEPT ![w] = <<>>]
    /\ fate' = Ends(cache[w], "offloaded")
    /\ UNCHANGED <<tagVars, filterVars, feeding, options, chan, compact, offq, exit>>

----------------------------------------------------------------------------

Exit ==
    /\ MayExit /\ ~exit /\ exit' = TRUE
    /\ UNCHANGED <<tagVars, filterVars, feeding, options, chan, compact, offload, fate>>

\* The goroutine of the filter ends on exit, when it is not in a refresh.
Rules == FilterStep /\ (todo = {} => ~exit) /\ UNCHANGED <<tagVars, feedVars>>

Compacting(c) == Receive(c) \/ Tick(c) \/ OnExit(c) \/ Compact(c)
Offloading(w) == Consume(w) \/ FlushCache(w)

Next ==
    \/ \E f \in Feeders : StartFeed(f) \/ AggFeed(f) \/ Working(f)
    \/ \E c \in Compactors : Compacting(c)
    \/ \E w \in Customers : Offloading(w)
    \/ \E r \in Requests : Api(r) /\ UNCHANGED <<filterVars, feedVars>>
    \/ \E d \in Docs : Publish(d) /\ UNCHANGED <<tagVars, feedVars>>
    \/ Rules \/ Exit

Spec == Init /\ [][Next]_vars

\* Goroutines that can take a step do, tickers tick, and pulls succeed now and
\* then.  Inputs need not feed, nor must anybody change tags or rules.
Fairness ==
    /\ \A f \in Feeders : WF_vars(Working(f))
    /\ \A c \in Compactors : WF_vars(Compacting(c))
    /\ \A w \in Customers : WF_vars(Offloading(w))
    /\ WF_vars(Rules)

FairSpec == Spec /\ Fairness

----------------------------------------------------------------------------
(* Properties *)

\* Every variable of the feed has its type.
FeedTypeOK ==
    /\ TagTypeOK
    /\ fpc \in [Feeders -> {"idle", "tags", "pipeline", "filterMade", "filterToo", "filter",
                            "getMade", "write"}]
    /\ used \in 0..MaxOptions /\ pool \subseteq 1..used
    /\ Range(chan) \subseteq 1..used /\ Len(chan) <= ChanCap /\ Len(offq) <= OffloadCap
    /\ cpc \in [Compactors -> {"select", "compact", "final", "done"}]
    /\ fate \in [Points -> {"unborn", "live", "written", "filtered", "dropped",
                            "offloaded", "refused"}]

\* The places where point p is held.  An option that a compactor is caching is
\* left out: its points are those the compactor has collected.
Places(p) ==
    LET At(s) == {i \in DOMAIN s : s[i] = p} IN
    (UNION { UNION {{<<"feeder", f, k>>} \X At(fo[opt[f][k]].pts) : k \in DOMAIN opt[f]} : f \in Feeders })
    \cup (UNION {{<<"made", f, 0>>} \X At(made[f]) : f \in Feeders})
    \cup (UNION {{<<"chan", 0, k>>} \X At(fo[chan[k]].pts) : k \in DOMAIN chan})
    \cup (UNION {{<<"compactor", c, 0>>} \X At(points[c]) : c \in Compactors})
    \cup (UNION {{<<"offload", 0, k>>} \X At(offq[k]) : k \in DOMAIN offq})
    \cup (UNION {{<<"cache", w, 0>>} \X At(cache[w]) : w \in Customers})

\* A point is in one place until it is written, filtered, dropped, offloaded
\* or refused, and in none afterwards: none is lost or sent twice, and none is
\* used once PutbackPoints (compact, Write, doFilter) has given it back.
PointsAccounted ==
    \A p \in Points : Cardinality(Places(p)) = IF fate[p] = "live" THEN 1 ELSE 0

\* A pooled option is nobody's and carries neither points nor syncSend, which
\* PutFeedOption does not reset: no call inherits a synchronous write.
PooledOptionsClean ==
    \A o \in pool :
        /\ fo[o] = [pts |-> <<>>, sync |-> FALSE]
        /\ o \notin Range(chan) /\ \A f \in Feeders : o \notin Range(opt[f])
        /\ \A c \in Compactors : hold[c] # o

\* Feed returns, also when the channels are full and when the agent exits.
FeedReturns == \A f \in Feeders : []<>(fpc[f] = "idle")

\* A point that was fed is written or comes to another end, unless the agent
\* exits, and then every compactor writes what it has collected and ends.
PointsSettle ==
    /\ \A p \in Points : []<>(fate[p] # "live" \/ exit)
    /\ []<>(exit => \A c \in Compactors : cpc[c] = "done" /\ points[c] = <<>>)

\* A document that stays published and compiles comes into force and stays,
\* whatever unreadable or broken ones were pulled before it, until the agent
\* exits (pull, refresh).
RulesConverge ==
    \A d \in Docs : Compiles(d) =>
        (<>[](published = d /\ ~exit) => <>[](conditions = RulesOf[d]))
=============================================================================
