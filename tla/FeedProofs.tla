----------------------------- MODULE FeedProofs -----------------------------
(***************************************************************************)
(* What the feed promises, for any number of feeders, compactors, options, *)
(* calls and documents of rules: a copy of the global tags that is out of  *)
(* date is noticed; the rules in force are those of one document; a pooled *)
(* option is nobody's and is clean; and the feed takes the tags and the    *)
(* rules only through the steps of GlobalTags and FilterRules, so that     *)
(* what is proved of those holds in it.                                    *)
(***************************************************************************)
EXTENDS Feed, TLAPS

\* The leaves of the proofs go to Zenon, which is quick on first-order and set
\* reasoning; those that need arithmetic, sequences or records name SMT.
USE Zenon

----------------------------------------------------------------------------
(* GlobalTags *)

\* Where a feeder is about to replace the copies of store s by the tags that
\* are in it now.
Renews(f, s) ==
    \/ tpc[f] = "refresh"
    \/ tpc[f] = "rebuild" /\ (s = "host" => copied = tags["host"])

\* The inductive invariant.  No version that was read is ahead of tagVersion, so
\* that a change makes ver differ for good; while ver is current, somebody is
\* about to renew what is out of date; and the lock is with the one feeder at
\* "rebuild", so that no other overwrites what it has read.
TagInv ==
    /\ TagTypeOK
    /\ ver <= tagVersion /\ \A f \in Feeders : loaded[f] <= tagVersion
    /\ \A f \in Feeders : tpc[f] = "rebuild" <=> rw = f
    /\ ver = tagVersion => \A s \in Versioned :
          kvs[s] # tags[s] => \E f \in Feeders : Renews(f, s)
    /\ ver = tagVersion /\ (\E f \in Feeders : tpc[f] = "rebuild") /\ copied # tags["host"]
          => \E f \in Feeders : tpc[f] = "refresh"

\* A change of the tags makes the version differ from the one of the copies.
LEMMA ChangeIsNoticed ==
    ASSUME TagInv, tagVersion' = tagVersion + 1, TagTypeOK', UNCHANGED <<copies, feeder>>
    PROVE  TagInv'
<1>1. ver' < tagVersion' /\ \A f \in Feeders : loaded'[f] <= tagVersion'
    BY SMT DEF TagInv, TagTypeOK, copies, feeder
<1>2. \A f \in Feeders : tpc'[f] = "rebuild" <=> rw' = f
    BY DEF TagInv, copies, feeder
<1>3. ver' # tagVersion' /\ ver' <= tagVersion'
    BY <1>1, SMT DEF TagInv, TagTypeOK
<1>. QED  BY <1>1, <1>2, <1>3 DEF TagInv

\* The steps of a request keep the types.
LEMMA RequestType ==
    ASSUME TagInv, NEW r \in Requests, Api(r)
    PROVE  TagTypeOK'
<1> USE DEF TagInv, TagTypeOK, copies, feeder, store, Versioned
<1>1. CASE ApiConf(r)
    BY <1>1 DEF ApiConf, Step
<1>2. CASE ApiRead(r)
    BY <1>2, SMT DEF ApiRead, After, Step
<1>3. CASE ApiClear(r)
    BY <1>3, SMT DEF ApiClear, Step
<1>4. CASE ApiSet(r)
    BY <1>4, SMT DEF ApiSet, After, Step
<1>. QED  BY <1>1, <1>2, <1>3, <1>4 DEF Api

\* A request keeps the invariant: it either changes no tags that have copies,
\* or increments the version.
LEMMA RequestKeeps ==
    ASSUME TagInv, NEW r \in Requests, Api(r)
    PROVE  TagInv'
<1>1. TagTypeOK' /\ UNCHANGED <<copies, feeder>>
    BY RequestType DEF Api, ApiConf, ApiRead, ApiClear, ApiSet
<1>2. CASE tagVersion' = tagVersion + 1
    BY <1>1, <1>2, ChangeIsNoticed
<1>3. CASE tagVersion' = tagVersion /\ \A s \in Versioned : tags'[s] = tags[s]
    BY <1>1, <1>3 DEF TagInv, Renews, copies, feeder, Versioned
<1>4. \/ tagVersion' = tagVersion + 1
      \/ tagVersion' = tagVersion /\ \A s \in Versioned : tags'[s] = tags[s]
    BY DEF Api, ApiConf, ApiRead, ApiClear, ApiSet, store, Versioned, TagInv, TagTypeOK
<1>. QED  BY <1>2, <1>3, <1>4

\* The steps of a feeder keep the types.
LEMMA FeederType ==
    ASSUME TagInv, NEW f \in Feeders, StartTags(f) \/ Refreshing(f) \/ Attach(f)
    PROVE  TagTypeOK' /\ UNCHANGED <<store, api>>
BY SMT DEF TagInv, TagTypeOK, StartTags, Refreshing, Attach, ReadVer, Updated, LoadVersion,
       StoreVersion, RefreshHost, Rebuild, TagGoto, Load, store, api, copies, Versioned

\* A feeder that neither stores a version nor refreshes leaves everything that
\* the invariant speaks of, and is not one of those about to refresh.
LEMMA LookingKeeps ==
    ASSUME TagInv, NEW f \in Feeders,
           StartTags(f) \/ ReadVer(f) \/ Updated(f) \/ LoadVersion(f) \/ Attach(f)
    PROVE  TagInv'
<1>1. TagTypeOK' /\ UNCHANGED <<store, api>>
    BY FeederType DEF Refreshing
<1>2. /\ UNCHANGED copies /\ \A g \in Feeders : loaded'[g] <= tagVersion
      /\ \A g \in Feeders : tpc'[g] = "rebuild" <=> tpc[g] = "rebuild"
      /\ \A g \in Feeders : tpc'[g] = "refresh" <=> tpc[g] = "refresh"
    BY SMT DEF TagInv, TagTypeOK, StartTags, ReadVer, Updated, LoadVersion, Attach, TagGoto, Load, copies
<1>. QED  BY <1>1, <1>2 DEF TagInv, Renews, store, copies

\* When the version is stored, the feeder goes on to refresh.
LEMMA StoreKeeps ==
    ASSUME TagInv, NEW f \in Feeders, StoreVersion(f)
    PROVE  TagInv'
<1>1. TagTypeOK' /\ UNCHANGED <<store, api>>
    BY FeederType DEF Refreshing
<1>2. tpc'[f] = "refresh" /\ ver' <= tagVersion'
    BY <1>1, ZenonT(40) DEF TagInv, TagTypeOK, StoreVersion, TagGoto, store
<1>3. \A g \in Feeders : tpc'[g] = "rebuild" <=> rw' = g
    BY DEF TagInv, TagTypeOK, StoreVersion, TagGoto
<1>4. \A g \in Feeders : loaded'[g] <= tagVersion'
    BY <1>1 DEF TagInv, StoreVersion, store
<1>. QED  BY <1>1, <1>2, <1>3, <1>4 DEF TagInv, Renews

\* The feeder that has locked and read the host tags is about to renew both.
LEMMA RefreshKeeps ==
    ASSUME TagInv, NEW f \in Feeders, RefreshHost(f)
    PROVE  TagInv'
<1>1. TagTypeOK' /\ UNCHANGED <<store, api>>
    BY FeederType DEF Refreshing
<1>2. tpc'[f] = "rebuild" /\ copied' = tags'["host"] /\ rw' = f /\ ver' = ver /\ kvs' = kvs
      /\ loaded' = loaded
    BY <1>1 DEF TagInv, TagTypeOK, RefreshHost, TagGoto, store
<1>3. \A g \in Feeders : tpc'[g] = "rebuild" <=> rw' = g
    <2>1. \A g \in Feeders : tpc[g] # "rebuild"
        BY TagAssumption DEF TagInv, RefreshHost
    <2>. QED  BY <1>2, <2>1 DEF TagInv, TagTypeOK, RefreshHost, TagGoto
<1>4. \A s \in Versioned : Renews(f, s)'
    BY <1>2 DEF Renews
<1>5. ver' <= tagVersion' /\ \A g \in Feeders : loaded'[g] <= tagVersion'
    BY <1>1, <1>2 DEF TagInv, store
<1>. QED  BY <1>1, <1>2, <1>3, <1>4, <1>5 DEF TagInv

\* The new copies are those of the host tags that were read, and of the election
\* tags of now; if the host tags have changed meanwhile, another feeder has
\* noticed and waits for the lock, or the version has not been stored.
LEMMA RebuildKeeps ==
    ASSUME TagInv, NEW f \in Feeders, Rebuild(f)
    PROVE  TagInv'
<1>1. TagTypeOK' /\ UNCHANGED <<store, api>>
    BY FeederType DEF Refreshing
<1>2. /\ tpc[f] = "rebuild" /\ tpc'[f] = "attach" /\ rw' = NoFeeder /\ ver' = ver /\ loaded' = loaded
      /\ copied' = copied /\ kvs'["host"] = copied /\ kvs'["election"] = tags["election"]
      /\ \A g \in Feeders : g # f => tpc'[g] = tpc[g]
    BY DEF TagInv, TagTypeOK, Rebuild, TagGoto, Versioned
<1>3. \A g \in Feeders : tpc'[g] # "rebuild" /\ rw' # g
    BY <1>2, TagAssumption, SMT DEF TagInv
<1>4. ASSUME ver' = tagVersion', copied # tags["host"]
      PROVE  \E g \in Feeders : tpc'[g] = "refresh"
    <2>1. PICK g \in Feeders : tpc[g] = "refresh"
        BY <1>1, <1>2, <1>4 DEF TagInv, store
    <2>. QED  BY <1>2, <2>1
<1>5. ASSUME ver' = tagVersion', NEW s \in Versioned, kvs'[s] # tags'[s]
      PROVE  \E g \in Feeders : Renews(g, s)'
    BY <1>1, <1>2, <1>4, <1>5 DEF Renews, Versioned, store
<1>6. ver' <= tagVersion' /\ \A g \in Feeders : loaded'[g] <= tagVersion'
    BY <1>1, <1>2 DEF TagInv, store
<1>. QED  BY <1>1, <1>3, <1>5, <1>6 DEF TagInv

\* TagInv holds when the agent starts.
LEMMA TagInitInv == TagInit => TagInv
BY TagAssumption, SMT DEF TagInit, TagInv, TagTypeOK, Versioned

\* Every step keeps TagInv.
LEMMA TagStepInv == TagInv /\ [TagNext]_tagVars => TagInv'
<1>1. ASSUME TagInv, NEW r \in Requests, Api(r) PROVE TagInv'
    BY <1>1, RequestKeeps
<1>2. ASSUME TagInv, NEW f \in Feeders, StartTags(f) \/ Refreshing(f) \/ Attach(f) PROVE TagInv'
    BY <1>2, LookingKeeps, StoreKeeps, RefreshKeeps, RebuildKeeps DEF Refreshing
<1>3. ASSUME TagInv, UNCHANGED tagVars PROVE TagInv'
    BY <1>3 DEF TagInv, TagTypeOK, Renews, tagVars, store, api, copies, feeder
<1>. QED  BY <1>1, <1>2, <1>3 DEF TagNext

\* Copies of the global tags that are out of date are noticed: FreshTags holds
\* for all feeders and requests (FeedV2, refreshGlobalTags, UpdateVersion).
THEOREM TagsAreFresh == TagSpec => [](TagTypeOK /\ FreshTags)
<1>1. TagInv => TagTypeOK /\ FreshTags
    BY DEF TagInv, FreshTags, Renews, Versioned
<1>. QED  BY <1>1, TagInitInv, TagStepInv, PTL DEF TagSpec

----------------------------------------------------------------------------
(* FilterRules *)

\* The inductive invariant: besides, what is compiled and what is yet to be
\* compiled are together the categories of the document, if it compiles.
RuleInv ==
    /\ md5 \in Docs \cup {NoDoc} /\ published \in Docs
    /\ md5 = NoDoc => todo = {} /\ DOMAIN conditions = {}
    /\ conditions = [c \in DOMAIN conditions |-> conditions[c]]
    /\ \A c \in DOMAIN conditions :
        c \in DOMAIN RulesOf[md5] /\ conditions[c] = RulesOf[md5][c]
    /\ todo \subseteq DOMAIN RulesOf[md5]
    /\ Compiles(md5) => DOMAIN conditions \cup todo = DOMAIN RulesOf[md5]

\* RuleInv holds before the first pull.
LEMMA RuleInit == FilterInit => RuleInv
BY FilterAssumption DEF FilterInit, RuleInv, EmptyTable, Compiles

\* Pulling a new document starts an empty table.
LEMMA PullKeeps == ASSUME RuleInv, Source = "remote", Pull PROVE RuleInv'
BY FilterAssumption DEF RuleInv, Pull, Filters, EmptyTable, Compiles

\* A round of the loop of refresh.
LEMMA CompileKeeps == ASSUME RuleInv, Source = "remote", NEW c \in todo, Compile(c) PROVE RuleInv'
<1>1. /\ md5 \in Docs /\ UNCHANGED <<published, md5>> /\ c \in DOMAIN RulesOf[md5]
      /\ Filters(md5) = RulesOf[md5] /\ Compiles(md5)' = Compiles(md5)
    BY DEF RuleInv, Compile, Filters, Compiles
<1>2. CASE RulesOf[md5][c] = BadRule
    <2>1. todo' = {} /\ UNCHANGED conditions /\ ~Compiles(md5)
        BY <1>1, <1>2 DEF Compile, Compiles
    <2>. QED  BY <1>1, <2>1 DEF RuleInv
<1>3. CASE RulesOf[md5][c] # BadRule
    <2>1. todo' = todo \ {c} /\ conditions' = WithRules(c, RulesOf[md5][c])
        BY <1>1, <1>3 DEF Compile
    <2>2. /\ DOMAIN conditions' = DOMAIN conditions \cup {c}
          /\ conditions' = [k \in DOMAIN conditions' |-> conditions'[k]]
          /\ conditions'[c] = RulesOf[md5][c]
          /\ \A k \in DOMAIN conditions : k # c => conditions'[k] = conditions[k]
        BY <2>1 DEF RuleInv, WithRules
    <2>. QED  BY <1>1, <2>1, <2>2 DEF RuleInv
<1>. QED  BY <1>2, <1>3

\* Every step keeps RuleInv.
LEMMA RuleStep == ASSUME Source = "remote" PROVE RuleInv /\ [FilterNext]_filterVars => RuleInv'
<1>1. ASSUME RuleInv, NEW d \in Docs, Publish(d) PROVE RuleInv'
    BY <1>1 DEF RuleInv, Publish, Compiles
<1>2. ASSUME RuleInv, UNCHANGED filterVars PROVE RuleInv'
    BY <1>2 DEF RuleInv, filterVars, Compiles
<1>. QED  BY <1>1, <1>2, PullKeeps, CompileKeeps DEF FilterNext, FilterStep

\* Rules pulled from the center are those of the last document that could be
\* read, all of them when it compiles (refresh): RulesOfOneDocument holds for
\* all documents and all orders in which they are published.
THEOREM RulesAreOfOneDocument ==
    ASSUME Source = "remote" PROVE FilterSpec => []RulesOfOneDocument
<1>1. RuleInv => RulesOfOneDocument
    <2>1. ASSUME RuleInv, todo = {}, Compiles(md5) PROVE conditions = RulesOf[md5]
        BY <2>1, FilterAssumption DEF RuleInv, Compiles
    <2>. QED  BY <2>1 DEF RuleInv, RulesOfOneDocument
<1>. QED  BY <1>1, RuleInit, RuleStep, PTL DEF FilterSpec

----------------------------------------------------------------------------
(* Lists of options without repetitions *)

\* The empty list has length 0.
LEMMA EmptyList == ASSUME NEW t, t = <<>> PROVE Len(t) = 0
OBVIOUS

\* A list and what is left of it when its head is taken.
LEMMA ListTail ==
    ASSUME NEW s \in Seq(Nat), s # <<>>, IsInjective(s)
    PROVE  /\ Tail(s) \in Seq(Nat) /\ IsInjective(Tail(s))
           /\ Range(Tail(s)) \subseteq Range(s)
           /\ Head(s) \in Range(s) /\ Head(s) \notin Range(Tail(s))
           /\ Head(s) = s[1] /\ Head(s) \in Nat
           /\ Len(s) # 1 => Tail(s) # <<>>
<1>1. /\ Len(s) \in Nat /\ Len(s) >= 1 /\ DOMAIN s = 1..Len(s)
      /\ Tail(s) \in Seq(Nat) /\ Len(Tail(s)) = Len(s) - 1
      /\ DOMAIN Tail(s) = 1..(Len(s) - 1)
      /\ \A k \in 1..(Len(s) - 1) : Tail(s)[k] = s[k + 1]
      /\ Head(s) = s[1] /\ s[1] \in Nat
    BY SMT
<1>2. IsInjective(Tail(s))
    BY <1>1, SMTT(40) DEF IsInjective
<1>3. Range(Tail(s)) \subseteq Range(s) /\ Head(s) \in Range(s)
    BY <1>1, SMT DEF Range
<1>4. Head(s) \notin Range(Tail(s))
    BY <1>1, SMTT(40) DEF Range, IsInjective
<1>5. ASSUME Tail(s) = <<>> PROVE Len(s) = 1
    <2>1. Len(Tail(s)) = 0
        BY ONLY <1>5, EmptyList, Zenon
    <2>2. Len(s) - 1 = 0 /\ Len(s) \in Nat
        BY ONLY <1>1, <2>1, Zenon
    <2>. QED  BY ONLY <2>2, SMT
<1>. QED  BY <1>1, <1>2, <1>3, <1>4, <1>5

\* A list with one more at its end.
LEMMA ListAppend ==
    ASSUME NEW s \in Seq(Nat), NEW x \in Nat, IsInjective(s), x \notin Range(s)
    PROVE  /\ Append(s, x) \in Seq(Nat) /\ IsInjective(Append(s, x))
           /\ Range(Append(s, x)) = Range(s) \cup {x}
<1>1. /\ Len(s) \in Nat /\ DOMAIN s = 1..Len(s)
      /\ Append(s, x) \in Seq(Nat) /\ DOMAIN Append(s, x) = 1..(Len(s) + 1)
      /\ \A k \in 1..Len(s) : Append(s, x)[k] = s[k]
      /\ Append(s, x)[Len(s) + 1] = x
    BY SMT
<1>2. \A k \in 1..Len(s) : s[k] # x
    BY <1>1 DEF Range
<1>3. IsInjective(Append(s, x))
    BY <1>1, <1>2, SMT DEF IsInjective
<1>4. Range(Append(s, x)) = Range(s) \cup {x}
    BY <1>1, SMT DEF Range
<1>. QED  BY <1>1, <1>3, <1>4

\* A list with one more before it, and a list of one.
LEMMA ListCons ==
    ASSUME NEW s \in Seq(Nat), NEW x \in Nat, IsInjective(s), x \notin Range(s)
    PROVE  /\ <<x>> \o s \in Seq(Nat) /\ IsInjective(<<x>> \o s)
           /\ Range(<<x>> \o s) = Range(s) \cup {x} /\ <<x>> \o s # <<>>
<1>1. /\ Len(s) \in Nat /\ DOMAIN s = 1..Len(s)
      /\ <<x>> \o s \in Seq(Nat) /\ Len(<<x>> \o s) = Len(s) + 1
      /\ DOMAIN (<<x>> \o s) = 1..(Len(s) + 1)
      /\ \A k \in 1..Len(s) : (<<x>> \o s)[k + 1] = s[k]
      /\ (<<x>> \o s)[1] = x
    BY SMT
<1>2. \A k \in 1..Len(s) : s[k] # x
    BY <1>1 DEF Range
<1>3. \A k \in 2..(Len(s) + 1) : (<<x>> \o s)[k] = s[k - 1] /\ k - 1 \in 1..Len(s)
    BY <1>1, SMT
<1>4. IsInjective(<<x>> \o s)
    BY <1>1, <1>2, <1>3, SMTT(30) DEF IsInjective
<1>5. Range(<<x>> \o s) = Range(s) \cup {x}
    <2>1. ASSUME NEW y \in Range(<<x>> \o s) PROVE y \in Range(s) \cup {x}
        <3>1. PICK k \in 1..(Len(s) + 1) : y = (<<x>> \o s)[k]
            BY <1>1, <2>1 DEF Range
        <3>2. CASE k = 1
            BY <1>1, <3>1, <3>2
        <3>3. CASE k \in 2..(Len(s) + 1)
            BY <1>1, <1>3, <3>1, <3>3 DEF Range
        <3>. QED  BY <1>1, <3>2, <3>3, SMT
    <2>2. ASSUME NEW k \in 1..Len(s) PROVE s[k] \in Range(<<x>> \o s)
        <3>1. k + 1 \in DOMAIN (<<x>> \o s) /\ (<<x>> \o s)[k + 1] = s[k]
            BY <1>1, <2>2, SMT
        <3>. QED  BY <3>1, ZenonT(30) DEF Range
    <2>3. x \in Range(<<x>> \o s)
        <3>1. 1 \in DOMAIN (<<x>> \o s) /\ (<<x>> \o s)[1] = x
            BY <1>1, SMT
        <3>. QED  BY <3>1 DEF Range
    <2>4. \A y \in Range(s) : y \in Range(<<x>> \o s)
        BY <1>1, <2>2, ZenonT(30) DEF Range
    <2>. QED  BY ONLY <2>1, <2>3, <2>4
<1>. QED  BY <1>1, <1>4, <1>5, SMT

\* A list of one, and the empty list.
LEMMA ListOne ==
    /\ <<>> \in Seq(Nat) /\ IsInjective(<<>>) /\ Range(<<>>) = {}
    /\ \A x \in Nat : /\ <<x>> \in Seq(Nat) /\ IsInjective(<<x>>) /\ Range(<<x>>) = {x}
                      /\ <<x>> # <<>>
BY SMT DEF IsInjective, Range

----------------------------------------------------------------------------
(* The two fields of an option *)

Fields(P) == [pts : P, sync : BOOLEAN]

\* Options F with points ps for o, and with o taken for points ps.
WithPts(F, o, ps) == [F EXCEPT ![o].pts = ps]
Taken(F, o, ps, sync) == [F EXCEPT ![o] = [pts |-> ps, sync |-> sync \/ @.sync]]

\* G differs from F in option o only.
SameBut(G, F, o) == \A x \in 1..MaxOptions : x # o => G[x] = F[x]

\* G is F with the points ps in option o.
PtsChanged(P, F, G, o, ps) ==
    /\ G \in [1..MaxOptions -> Fields(P \cup {ps})] /\ SameBut(G, F, o)
    /\ G[o].pts = ps /\ G[o].sync = F[o].sync

\* A record whose points are replaced.
LEMMA RecordPts ==
    ASSUME NEW P, NEW r \in Fields(P), NEW ps
    PROVE  /\ [r EXCEPT !.pts = ps] \in Fields(P \cup {ps}) /\ r \in Fields(P \cup {ps})
           /\ [r EXCEPT !.pts = ps].pts = ps /\ [r EXCEPT !.pts = ps].sync = r.sync
BY DEF Fields

\* The options, when the points of one of them are replaced (beforeFeed, and
\* PutFeedOption).
LEMMA OptionPts ==
    ASSUME NEW P, NEW F \in [1..MaxOptions -> Fields(P)], NEW o \in 1..MaxOptions, NEW ps
    PROVE  PtsChanged(P, F, WithPts(F, o, ps), o, ps)
<1> DEFINE G == WithPts(F, o, ps)
<1>1. /\ [F[o] EXCEPT !.pts = ps] \in Fields(P \cup {ps})
      /\ [F[o] EXCEPT !.pts = ps].pts = ps /\ [F[o] EXCEPT !.pts = ps].sync = F[o].sync
    BY RecordPts DEF Fields
<1>2. F \in [1..MaxOptions -> Fields(P \cup {ps})]
    BY RecordPts, ZenonT(30)
<1>3. G = [F EXCEPT ![o] = [F[o] EXCEPT !.pts = ps]]
    BY DEF WithPts
<1> HIDE DEF G
<1>4. /\ G \in [1..MaxOptions -> Fields(P \cup {ps})] /\ SameBut(G, F, o)
      /\ G[o].pts = ps /\ G[o].sync = F[o].sync
    BY <1>1, <1>2, <1>3, ZenonT(30) DEF SameBut
<1>. QED  BY <1>4, Zenon DEF PtsChanged, G

\* The options, when one of them is taken (GetFeedOption and its caller).
LEMMA OptionTaken ==
    ASSUME NEW P, NEW F \in [1..MaxOptions -> Fields(P)], NEW o \in 1..MaxOptions, NEW ps,
           NEW sync
    PROVE  /\ Taken(F, o, ps, sync) \in [1..MaxOptions -> Fields(P \cup {ps})]
           /\ SameBut(Taken(F, o, ps, sync), F, o)
<1>1. [pts |-> ps, sync |-> sync \/ F[o].sync] \in Fields(P \cup {ps})
    BY DEF Fields
<1>2. F \in [1..MaxOptions -> Fields(P \cup {ps})]
    BY RecordPts, ZenonT(30)
<1>. QED  BY <1>1, <1>2, ZenonT(30) DEF Taken, SameBut

----------------------------------------------------------------------------
(* The inductive invariant *)

\* The parts of the state that matter to options.
ownVars == <<fo, pool, used, opt, chan, hold, fpc>>

FeederAt == {"idle", "tags", "pipeline", "filterMade", "filterToo", "filter", "getMade", "write"}

\* Every option has its two fields.
FoTyped == \E P : fo \in [1..MaxOptions -> Fields(P)]

\* Options are held by their number; a feeder that is not idle has one.
Lists ==
    /\ used \in Nat /\ used <= MaxOptions /\ pool \subseteq 1..used
    /\ chan \in Seq(Nat) /\ IsInjective(chan) /\ Range(chan) \subseteq 1..used
    /\ opt \in [Feeders -> Seq(Nat)] /\ fpc \in [Feeders -> FeederAt]
    /\ \A f \in Feeders : /\ IsInjective(opt[f]) /\ Range(opt[f]) \subseteq 1..used
                          /\ fpc[f] # "idle" => opt[f] # <<>>
    /\ hold \in [Compactors -> Nat] /\ \A c \in Compactors : hold[c] \in 0..used

\* No option is in two places.
Apart ==
    /\ \A o \in pool : o \notin Range(chan)
    /\ \A f \in Feeders : \A o \in Range(opt[f]) : o \notin pool /\ o \notin Range(chan)
    /\ \A f, g \in Feeders : f # g => \A o \in Range(opt[f]) : o \notin Range(opt[g])
    /\ \A c \in Compactors : /\ hold[c] \notin pool /\ hold[c] \notin Range(chan)
                             /\ \A f \in Feeders : hold[c] \notin Range(opt[f])
    /\ \A c, d \in Compactors : c # d /\ hold[c] # 0 => hold[c] # hold[d]

\* Only a feeder holds an option with syncSend.
Clean ==
    /\ \A o \in pool : fo[o].pts = <<>> /\ fo[o].sync = FALSE
    /\ \A o \in Range(chan) : fo[o].sync = FALSE
    /\ \A c \in Compactors : hold[c] # 0 => fo[hold[c]].sync = FALSE
    /\ \A o \in 1..MaxOptions : o > used => fo[o].sync = FALSE

OptInv == FoTyped /\ Lists /\ Apart /\ Clean

\* It implies what is claimed.
LEMMA OptInvImplies == OptInv => PooledOptionsClean
<1>1. SUFFICES ASSUME OptInv PROVE PooledOptionsClean
    OBVIOUS
<1>2. PICK P : fo \in [1..MaxOptions -> Fields(P)]
    BY <1>1 DEF OptInv, FoTyped
<1>3. \A o \in pool : fo[o] = [pts |-> <<>>, sync |-> FALSE]
    <2>1. SUFFICES ASSUME NEW o \in pool PROVE fo[o] = [pts |-> <<>>, sync |-> FALSE]
        OBVIOUS
    <2>2. fo[o] \in Fields(P)
        BY <1>1, <1>2, FeedAssumption, SMT DEF OptInv, Lists
    <2>3. fo[o].pts = <<>> /\ fo[o].sync = FALSE
        BY <1>1 DEF OptInv, Clean
    <2>. QED  BY <2>2, <2>3, ZenonT(30) DEF Fields
<1>. QED  BY <1>1, <1>3 DEF OptInv, Apart, PooledOptionsClean

\* Nothing is allocated at first.
LEMMA OptInvInit == FeedInit => OptInv
<1>1. SUFFICES ASSUME FeedInit PROVE OptInv
    OBVIOUS
<1>2. fo = [o \in 1..MaxOptions |-> [pts |-> <<>>, sync |-> FALSE]]
    BY <1>1 DEF FeedInit
<1>3. fo \in [1..MaxOptions -> Fields({<<>>})]
    BY <1>2 DEF Fields
<1>4. FoTyped
    BY <1>3 DEF FoTyped
<1>5. /\ pool = {} /\ used = 0 /\ chan = <<>>
      /\ opt = [f \in Feeders |-> <<>>] /\ fpc = [f \in Feeders |-> "idle"]
      /\ hold = [c \in Compactors |-> 0]
    BY <1>1 DEF FeedInit
<1>6. Lists
    BY <1>5, FeedAssumption, ListOne, SMT DEF Lists, FeederAt
<1>7. Apart
    BY <1>5, ListOne DEF Apart
<1>8. Clean
    BY <1>2, <1>5, ListOne DEF Clean
<1>. QED  BY <1>4, <1>6, <1>7, <1>8 DEF OptInv

\* A step that leaves the options alone.
LEMMA OwnFrame == ASSUME OptInv, UNCHANGED ownVars PROVE OptInv'
BY ZenonT(30) DEF OptInv, FoTyped, Lists, Apart, Clean, ownVars

\* A feeder goes on to l and keeps its options, or has at least one afterwards.
LEMMA GotoKeeps ==
    ASSUME OptInv, NEW f \in Feeders, NEW l \in FeederAt, opt[f] # <<>>,
           Goto(f, l), UNCHANGED <<fo, pool, used, opt, chan, hold>>
    PROVE  OptInv'
BY ZenonT(30) DEF OptInv, FoTyped, Lists, Apart, Clean, Goto

\* Only the points of an option of a feeder change.
LEMMA PtsKeeps ==
    ASSUME OptInv, NEW f \in Feeders, NEW l \in FeederAt, opt[f] # <<>>, NEW ps,
           Goto(f, l), fo' = [fo EXCEPT ![opt[f][1]].pts = ps],
           UNCHANGED <<pool, used, opt, chan, hold>>
    PROVE  OptInv'
<1> DEFINE o == opt[f][1]
<1>1. o \in Range(opt[f]) /\ o \in 1..MaxOptions
    BY ListTail, FeedAssumption, SMTT(30) DEF OptInv, Lists
<1>2. o \notin pool /\ o \notin Range(chan) /\ \A c \in Compactors : hold[c] # o
    BY <1>1 DEF OptInv, Apart
<1>3. PICK P : fo \in [1..MaxOptions -> Fields(P)]
    BY DEF OptInv, FoTyped
<1> HIDE DEF o
<1>4. FoTyped' /\ SameBut(fo', fo, o) /\ fo'[o].sync = fo[o].sync
    <2>1. fo' = WithPts(fo, o, ps)
        BY DEF o, WithPts
    <2>2. PtsChanged(P, fo, WithPts(fo, o, ps), o, ps)
        BY ONLY <1>1, <1>3, OptionPts, Zenon
    <2>. QED  BY ONLY <2>1, <2>2, Zenon DEF PtsChanged, FoTyped
<1>5. Lists' /\ Apart'
    BY DEF OptInv, Lists, Apart, Goto
<1>6. Clean'
    <2>1. \A x \in 1..used : x \in 1..MaxOptions
        BY FeedAssumption, SMT DEF OptInv, Lists
    <2>2. /\ \A x \in pool \cup Range(chan) : x \in 1..MaxOptions
          /\ \A c \in Compactors : hold[c] # 0 => hold[c] \in 1..MaxOptions
        BY <2>1, SMT DEF OptInv, Lists
    <2>3. /\ \A x \in pool \cup Range(chan) : fo'[x] = fo[x]
          /\ \A c \in Compactors : hold[c] # 0 => fo'[hold[c]] = fo[hold[c]]
        BY ONLY <1>2, <1>4, <2>2, Zenon DEF SameBut
    <2>4. \A x \in 1..MaxOptions : fo'[x].sync = fo[x].sync
        BY ONLY <1>4, Zenon DEF SameBut
    <2>5. Clean
        BY DEF OptInv
    <2>6. \A x \in pool : fo'[x].pts = <<>> /\ fo'[x].sync = FALSE
        BY ONLY <2>3, <2>5, Zenon DEF Clean
    <2>7. \A x \in Range(chan) : fo'[x].sync = FALSE
        BY ONLY <2>3, <2>5, Zenon DEF Clean
    <2>8. \A c \in Compactors : hold[c] # 0 => fo'[hold[c]].sync = FALSE
        BY ONLY <2>3, <2>5, Zenon DEF Clean
    <2>9. \A x \in 1..MaxOptions : x > used => fo'[x].sync = FALSE
        BY ONLY <2>4, <2>5, Zenon DEF Clean
    <2>. QED  BY <2>6, <2>7, <2>8, <2>9, ZenonT(30) DEF Clean
<1>. QED  BY <1>4, <1>5, <1>6 DEF OptInv

\* The list of a feeder becomes s, some of the options it had.
LEMMA DropKeeps ==
    ASSUME OptInv, NEW f \in Feeders, NEW l \in FeederAt, NEW s \in Seq(Nat), IsInjective(s),
           Range(s) \subseteq Range(opt[f]), l # "idle" => s # <<>>,
           Goto(f, l), opt' = [opt EXCEPT ![f] = s], UNCHANGED <<fo, pool, used, chan, hold>>
    PROVE  OptInv'
<1>1. FoTyped' /\ Clean'
    BY DEF OptInv, FoTyped, Clean
<1>2. opt' \in [Feeders -> Seq(Nat)] /\ opt'[f] = s /\ \A g \in Feeders : g # f => opt'[g] = opt[g]
    BY DEF OptInv, Lists
<1>3. \A g \in Feeders : Range(opt'[g]) \subseteq Range(opt[g]) /\ IsInjective(opt'[g])
    BY <1>2 DEF OptInv, Lists
<1>4. /\ fpc' \in [Feeders -> FeederAt]
      /\ \A g \in Feeders : fpc'[g] # "idle" => opt'[g] # <<>>
    BY <1>2 DEF OptInv, Lists, Goto
<1>5. Lists'
    BY <1>2, <1>3, <1>4 DEF OptInv, Lists
<1>6. Apart'
    BY <1>3, ZenonT(30) DEF OptInv, Apart
<1>. QED  BY <1>1, <1>5, <1>6 DEF OptInv

\* A feeder takes option o, which is then the only new one of its list s.
LEMMA TakeKeeps ==
    ASSUME OptInv, NEW f \in Feeders, NEW l \in FeederAt, NEW s \in Seq(Nat), IsInjective(s),
           NEW o \in 1..MaxOptions, NEW ps, NEW sync, GetFeedOption(o, ps, sync),
           Range(s) \subseteq Range(opt[f]) \cup {o}, s # <<>>,
           Goto(f, l), opt' = [opt EXCEPT ![f] = s], UNCHANGED <<chan, hold>>
    PROVE  OptInv'
<1>1. PICK P : fo \in [1..MaxOptions -> Fields(P)]
    BY DEF OptInv, FoTyped
<1>2. FoTyped' /\ SameBut(fo', fo, o)
    <2>1. fo' = Taken(fo, o, ps, sync)
        BY DEF GetFeedOption, Taken
    <2>2. /\ Taken(fo, o, ps, sync) \in [1..MaxOptions -> Fields(P \cup {ps})]
          /\ SameBut(Taken(fo, o, ps, sync), fo, o)
        BY ONLY <1>1, OptionTaken, o \in 1..MaxOptions, Zenon
    <2>. QED  BY ONLY <2>1, <2>2, Zenon DEF FoTyped
<1>3. /\ pool' = pool \ {o} /\ (o \in pool \/ o = used + 1)
      /\ used' = (IF o \in pool THEN used ELSE o)
    BY DEF GetFeedOption
<1>4. /\ used \in Nat /\ used' \in Nat /\ used <= used' /\ used' <= MaxOptions /\ o \in 1..used'
      /\ 1..used \subseteq 1..used' /\ \A x \in 1..MaxOptions : x > used' => x > used /\ x # o
    BY <1>3, FeedAssumption, SMT DEF OptInv, Lists
<1>5. /\ o \notin Range(chan) /\ \A g \in Feeders : o \notin Range(opt[g])
      /\ \A c \in Compactors : hold[c] # o
    <2>1. CASE o \in pool
        BY <2>1 DEF OptInv, Apart
    <2>2. CASE o = used + 1
        BY <2>2, <1>4, SMT DEF OptInv, Lists
    <2>. QED  BY <1>3, <2>1, <2>2
<1>6. opt' \in [Feeders -> Seq(Nat)] /\ opt'[f] = s /\ \A g \in Feeders : g # f => opt'[g] = opt[g]
    BY DEF OptInv, Lists
<1>7. Lists'
    <2>1. /\ fpc' \in [Feeders -> FeederAt]
          /\ \A g \in Feeders : fpc'[g] # "idle" => opt'[g] # <<>>
        BY <1>6 DEF OptInv, Lists, Goto
    <2>2. \A g \in Feeders : IsInjective(opt'[g]) /\ Range(opt'[g]) \subseteq 1..used'
        BY <1>4, <1>6 DEF OptInv, Lists
    <2>3. /\ pool' \subseteq 1..used' /\ Range(chan) \subseteq 1..used'
          /\ \A c \in Compactors : hold[c] \in 0..used'
        BY <1>3, <1>4, SMT DEF OptInv, Lists
    <2>. QED  BY <1>4, <1>6, <2>1, <2>2, <2>3, SMTT(30) DEF OptInv, Lists
<1>8. Apart'
    BY <1>3, <1>5, <1>6, SMT DEF OptInv, Apart
<1>9. Clean'
    <2>1. /\ \A x \in pool' \cup Range(chan) : x \in 1..MaxOptions /\ x # o
          /\ \A c \in Compactors : hold[c] # 0 => hold[c] \in 1..MaxOptions /\ hold[c] # o
        BY <1>3, <1>4, <1>5, FeedAssumption, SMTT(30) DEF OptInv, Lists
    <2>2. /\ \A x \in pool' \cup Range(chan) : fo'[x] = fo[x]
          /\ \A c \in Compactors : hold[c] # 0 => fo'[hold[c]] = fo[hold[c]]
          /\ \A x \in 1..MaxOptions : x > used' => fo'[x] = fo[x] /\ x > used
        BY ONLY <1>2, <1>4, <2>1, Zenon DEF SameBut
    <2>3. Clean /\ pool' \subseteq pool /\ chan' = chan /\ hold' = hold
        BY <1>3 DEF OptInv
    <2>4. \A x \in pool' : fo'[x].pts = <<>> /\ fo'[x].sync = FALSE
        BY ONLY <2>2, <2>3, ZenonT(40) DEF Clean
    <2>5. \A x \in Range(chan) : fo'[x].sync = FALSE
        BY ONLY <2>2, <2>3, Zenon DEF Clean
    <2>6. \A c \in Compactors : hold[c] # 0 => fo'[hold[c]].sync = FALSE
        BY ONLY <2>2, <2>3, Zenon DEF Clean
    <2>7. \A x \in 1..MaxOptions : x > used' => fo'[x].sync = FALSE
        BY ONLY <2>2, <2>3, ZenonT(30) DEF Clean
    <2>. QED  BY <2>3, <2>4, <2>5, <2>6, <2>7, ZenonT(30) DEF Clean
<1>. QED  BY <1>2, <1>7, <1>8, <1>9 DEF OptInv

\* A feeder gives option o, which is not to be written synchronously, to the
\* channel.
LEMMA SendKeeps ==
    ASSUME OptInv, NEW f \in Feeders, NEW l \in FeederAt, NEW s \in Seq(Nat), IsInjective(s),
           NEW o \in Range(opt[f]), o \notin Range(s), fo[o].sync = FALSE,
           Range(s) \subseteq Range(opt[f]), l # "idle" => s # <<>>, chan' = Append(chan, o),
           Goto(f, l), opt' = [opt EXCEPT ![f] = s], UNCHANGED <<fo, pool, used, hold>>
    PROVE  OptInv'
<1>1. o \in 1..used /\ o \in Nat /\ o \notin pool /\ o \notin Range(chan)
    BY SMT DEF OptInv, Lists, Apart
<1>2. /\ chan' \in Seq(Nat) /\ IsInjective(chan') /\ Range(chan') = Range(chan) \cup {o}
    BY <1>1, ListAppend DEF OptInv, Lists
<1>3. opt' \in [Feeders -> Seq(Nat)] /\ opt'[f] = s /\ \A g \in Feeders : g # f => opt'[g] = opt[g]
    BY DEF OptInv, Lists
<1>4. \A g \in Feeders : /\ Range(opt'[g]) \subseteq Range(opt[g]) /\ IsInjective(opt'[g])
                         /\ o \notin Range(opt'[g])
    BY <1>3 DEF OptInv, Lists, Apart
<1>5. /\ fpc' \in [Feeders -> FeederAt]
      /\ \A g \in Feeders : fpc'[g] # "idle" => opt'[g] # <<>>
    BY <1>3 DEF OptInv, Lists, Goto
<1>6. Lists'
    BY <1>1, <1>2, <1>3, <1>4, <1>5, SMTT(30) DEF OptInv, Lists
<1>7. Apart'
    BY <1>1, <1>2, <1>4, SMTT(30) DEF OptInv, Apart
<1>8. FoTyped' /\ Clean'
    BY <1>2, ZenonT(30) DEF OptInv, FoTyped, Clean
<1>. QED  BY <1>6, <1>7, <1>8, SMTT(30) DEF OptInv

\* Option o, not to be written synchronously, goes from the channel or from a
\* compactor to the pool.
LEMMA PutKeeps ==
    ASSUME OptInv, NEW o \in 1..used, fo[o].sync = FALSE, PutFeedOption(o),
           \A f \in Feeders : o \notin Range(opt[f]), o \notin Range(chan'),
           chan' \in Seq(Nat), IsInjective(chan'), Range(chan') \subseteq Range(chan),
           hold' \in [Compactors -> Nat],
           \A c \in Compactors : hold'[c] \in {0, hold[c]} /\ hold'[c] # o,
           UNCHANGED <<opt, fpc>>
    PROVE  OptInv'
<1>1. PICK P : fo \in [1..MaxOptions -> Fields(P)]
    BY DEF OptInv, FoTyped
<1>2. o \in 1..MaxOptions
    BY FeedAssumption, SMT DEF OptInv, Lists
<1>3. FoTyped' /\ SameBut(fo', fo, o) /\ fo'[o].pts = <<>> /\ fo'[o].sync = FALSE
    <2>1. fo' = WithPts(fo, o, <<>>)
        BY DEF PutFeedOption, WithPts
    <2>2. PtsChanged(P, fo, WithPts(fo, o, <<>>), o, <<>>)
        BY ONLY <1>1, <1>2, OptionPts, ZenonT(30)
    <2>. QED  BY <2>1, <2>2, ZenonT(30) DEF PtsChanged, FoTyped
<1>4. pool' = pool \cup {o} /\ used' = used
    BY DEF PutFeedOption
<1>5. Lists'
    <2>1. /\ pool' \subseteq 1..used' /\ Range(chan') \subseteq 1..used'
          /\ \A c \in Compactors : hold'[c] \in 0..used'
        BY <1>4, SMTT(30) DEF OptInv, Lists
    <2>2. Lists /\ opt' = opt /\ fpc' = fpc
        BY DEF OptInv
    <2>. QED  BY ONLY <1>4, <2>1, <2>2, chan' \in Seq(Nat), IsInjective(chan'),
                      hold' \in [Compactors -> Nat], Zenon DEF Lists
<1>6. Apart'
    <2>1. 0 \notin pool /\ 0 \notin Range(chan) /\ \A f \in Feeders : 0 \notin Range(opt[f])
        BY SMT DEF OptInv, Lists
    <2>2. /\ \A x \in pool' : x \notin Range(chan')
          /\ \A f \in Feeders : \A x \in Range(opt[f]) : x \notin pool' /\ x \notin Range(chan')
        BY <1>4 DEF OptInv, Apart
    <2>3. \A c \in Compactors : /\ hold'[c] \notin pool' /\ hold'[c] \notin Range(chan')
                                /\ \A f \in Feeders : hold'[c] \notin Range(opt[f])
        BY <1>2, <1>4, <2>1, SMTT(30) DEF OptInv, Apart
    <2>4. \A c, d \in Compactors : c # d /\ hold'[c] # 0 => hold'[c] # hold'[d]
        BY DEF OptInv, Apart
    <2>. QED  BY <2>2, <2>3, <2>4, ZenonT(30) DEF OptInv, Apart
<1>7. Clean'
    <2>1. /\ \A x \in pool \cup Range(chan') : x \in 1..MaxOptions
          /\ \A c \in Compactors : hold'[c] # 0 => hold'[c] \in 1..MaxOptions /\ hold'[c] = hold[c]
        <3>1. 1..used \subseteq 1..MaxOptions
            BY FeedAssumption, SMT DEF OptInv, Lists
        <3>2. pool \subseteq 1..used /\ Range(chan') \subseteq 1..used
            BY DEF OptInv, Lists
        <3>3. \A c \in Compactors : hold'[c] # 0 => hold'[c] \in 1..used /\ hold'[c] = hold[c]
            BY SMT DEF OptInv, Lists
        <3>. QED  BY <3>1, <3>2, <3>3
    <2>2. Clean /\ Range(chan') \subseteq Range(chan) /\ \A c \in Compactors : hold'[c] # o
        BY DEF OptInv
    <2>3. \A x \in pool' : fo'[x].pts = <<>> /\ fo'[x].sync = FALSE
        <3>1. ASSUME NEW x \in pool PROVE fo'[x].pts = <<>> /\ fo'[x].sync = FALSE
            <4>1. CASE x = o
                BY ONLY <4>1, <1>3, Zenon
            <4>2. CASE x # o
                BY ONLY <4>2, x \in pool, <1>3, <2>1, <2>2, ZenonT(30) DEF Clean, SameBut
            <4>. QED  BY ONLY <4>1, <4>2, ZenonT(30)
        <3>. QED  BY ONLY <1>3, <1>4, <3>1, ZenonT(30)
    <2>4. \A x \in 1..MaxOptions : fo[x].sync = FALSE => fo'[x].sync = FALSE
        BY ONLY <1>3, ZenonT(30) DEF SameBut
    <2>5. \A x \in Range(chan') : fo'[x].sync = FALSE
        BY ONLY <2>1, <2>2, <2>4, ZenonT(30) DEF Clean
    <2>6. \A c \in Compactors : hold'[c] # 0 => fo'[hold'[c]].sync = FALSE
        BY ONLY <2>1, <2>2, <2>4, ZenonT(30) DEF Clean
    <2>7. \A x \in 1..MaxOptions : x > used' => fo'[x].sync = FALSE
        BY ONLY <1>4, <2>2, <2>4, ZenonT(30) DEF Clean
    <2>. QED  BY <2>3, <2>5, <2>6, <2>7, ZenonT(30) DEF Clean
<1>. QED  BY <1>3, <1>5, <1>6, <1>7, SMTT(30) DEF OptInv

----------------------------------------------------------------------------
(* The steps *)

\* What a feeder does.
LEMMA FeederKeeps ==
    ASSUME OptInv, NEW f \in Feeders, StartFeed(f) \/ AggFeed(f) \/ Working(f) PROVE OptInv'
<1>1. opt[f] \in Seq(Nat) /\ IsInjective(opt[f]) /\ (fpc[f] # "idle" => opt[f] # <<>>)
    BY SMTT(30) DEF OptInv, Lists
<1>2. CASE StartFeed(f)
    <2>1. PICK call \in Range(Feeds[f]), o \in 1..MaxOptions :
            /\ GetFeedOption(o, call.pts, call.sync) /\ opt' = [opt EXCEPT ![f] = <<o>>]
            /\ Goto(f, "tags") \/ Goto(f, "pipeline")
            /\ UNCHANGED <<chan, hold>>
        BY <1>2, ZenonT(30) DEF StartFeed, compact
    <2>3. "tags" \in FeederAt /\ "pipeline" \in FeederAt
        BY DEF FeederAt
    <2>2. <<o>> \in Seq(Nat) /\ IsInjective(<<o>>) /\ Range(<<o>>) = {o} /\ <<o>> # <<>>
        <3>1. o \in Nat
            BY FeedAssumption, SMT
        <3>. QED  BY ONLY <3>1, ListOne, Zenon
    <2>. QED  BY <2>1, <2>2, <2>3, TakeKeeps, ZenonT(30)
<1>3. CASE AggFeed(f)
    <2>1. PICK call \in Range(Feeds[f]), o \in 1..MaxOptions :
            /\ GetFeedOption(o, Pass(call.pts), FALSE) /\ opt' = [opt EXCEPT ![f] = <<o>>]
            /\ Goto(f, "write") /\ UNCHANGED <<chan, hold>>
        BY <1>3, ZenonT(30) DEF AggFeed, compact
    <2>2. <<o>> \in Seq(Nat) /\ IsInjective(<<o>>) /\ Range(<<o>>) = {o} /\ <<o>> # <<>>
        <3>1. o \in Nat
            BY FeedAssumption, SMT
        <3>. QED  BY ONLY <3>1, ListOne, Zenon
    <2>3. "write" \in FeederAt
        BY DEF FeederAt
    <2>. QED  BY <2>1, <2>2, <2>3, TakeKeeps, ZenonT(30)
<1>4. CASE TagStep(f)
    <2>1. opt[f] # <<>> /\ UNCHANGED <<fo, pool, used, opt, chan, hold>>
        BY <1>1, <1>4, SMTT(30) DEF TagStep, options, compact
    <2>2. UNCHANGED fpc \/ Goto(f, "pipeline")
        BY <1>4 DEF TagStep
    <2>3. "pipeline" \in FeederAt
        BY DEF FeederAt
    <2>. QED  BY <2>1, <2>2, <2>3, GotoKeeps, OwnFrame, SMTT(30) DEF ownVars
<1>5. CASE FeedNothing(f)
    <2>1. /\ Goto(f, "idle") /\ opt' = [opt EXCEPT ![f] = <<>>]
          /\ UNCHANGED <<fo, pool, used, chan, hold>>
        BY <1>5 DEF FeedNothing, options, compact
    <2>2. "idle" \in FeederAt
        BY DEF FeederAt
    <2>. QED  BY <2>1, <2>2, ListOne, DropKeeps, ZenonT(30)
<1>6. CASE RunPl(f)
    <2>1. opt[f] # <<>> /\ UNCHANGED <<pool, used, opt, chan, hold>>
        BY <1>1, <1>6, ZenonT(30) DEF RunPl, compact
    <2>2. \E l \in FeederAt : Goto(f, l) /\ (UNCHANGED fo \/ \E ps : fo' = [fo EXCEPT ![opt[f][1]].pts = ps])
        BY <1>6, ZenonT(30) DEF RunPl, FeederAt
    <2>. QED  BY <2>1, <2>2, GotoKeeps, PtsKeeps, ZenonT(30)
<1>7. CASE FilterMade(f)
    <2>1. opt[f] # <<>> /\ UNCHANGED <<fo, pool, used, opt, chan, hold>> /\ Goto(f, "filterToo")
        BY <1>1, <1>7 DEF FilterMade, options, compact
    <2>2. "filterToo" \in FeederAt
        BY DEF FeederAt
    <2>. QED  BY <2>1, <2>2, GotoKeeps, SMTT(30)
<1>8. CASE Filter(f)
    <2>1. opt[f] # <<>> /\ UNCHANGED <<pool, used, opt, chan, hold>>
        BY <1>1, <1>8 DEF Filter, compact
    <2>2. \E l \in FeederAt : \E ps : Goto(f, l) /\ fo' = [fo EXCEPT ![opt[f][1]].pts = ps]
        BY <1>8, ZenonT(30) DEF Filter, FeederAt
    <2>. QED  BY <2>1, <2>2, PtsKeeps, ZenonT(30)
<1>9. CASE GetMade(f)
    <2>1. PICK o \in 1..MaxOptions :
            /\ GetFeedOption(o, made[f], FALSE) /\ opt' = [opt EXCEPT ![f] = <<o>> \o opt[f]]
            /\ Goto(f, "write") /\ UNCHANGED <<chan, hold>>
        BY <1>9, ZenonT(30) DEF GetMade, compact
    <2>2. o \in Nat /\ o \notin Range(opt[f])
        BY <2>1, FeedAssumption, SMTT(30) DEF GetFeedOption, OptInv, Lists, Apart
    <2>3. /\ <<o>> \o opt[f] \in Seq(Nat) /\ IsInjective(<<o>> \o opt[f])
          /\ Range(<<o>> \o opt[f]) = Range(opt[f]) \cup {o} /\ <<o>> \o opt[f] # <<>>
        BY <1>1, <2>2, ListCons
    <2>4. "write" \in FeederAt
        BY DEF FeederAt
    <2>. QED  BY <2>1, <2>3, <2>4, TakeKeeps, ZenonT(30)
<1>10. CASE WriteNothing(f) \/ WriteSync(f) \/ Refuse(f) \/ Enqueue(f)
    <2> DEFINE s == Tail(opt[f])
               o == Head(opt[f])
    <2>1. /\ fpc[f] = "write" /\ Return(f) /\ UNCHANGED <<fo, pool, used>>
          /\ UNCHANGED chan \/ (chan' = Append(chan, o) /\ ~fo[o].sync)
        BY <1>10, SMTT(30) DEF WriteNothing, WriteSync, Refuse, Enqueue, options
    <2>2. /\ s \in Seq(Nat) /\ IsInjective(s) /\ Range(s) \subseteq Range(opt[f])
          /\ o \in Range(opt[f]) /\ o \notin Range(s) /\ (Len(opt[f]) # 1 => s # <<>>)
        BY <1>1, <2>1, ListTail
    <2>3. UNCHANGED hold /\ opt' = [opt EXCEPT ![f] = s]
        BY <2>1 DEF Return, compact
    <2>4. PICK l \in FeederAt : Goto(f, l) /\ (l # "idle" => s # <<>>)
        BY <2>1, <2>2 DEF Return, FeederAt
    <2>5. fo[o].sync \in BOOLEAN
        BY <2>2, FeedAssumption, SMT DEF OptInv, Lists, FoTyped, Fields
    <2> HIDE DEF s, o
    <2>6. CASE UNCHANGED chan
        BY <2>1, <2>2, <2>3, <2>4, <2>6, DropKeeps, ZenonT(30)
    <2>7. CASE chan' = Append(chan, o) /\ fo[o].sync = FALSE
        BY <2>1, <2>2, <2>3, <2>4, <2>7, SendKeeps, ZenonT(30)
    <2>. QED  BY <2>1, <2>5, <2>6, <2>7, ZenonT(30)
<1>. QED  BY <1>2, <1>3, <1>4, <1>5, <1>6, <1>7, <1>8, <1>9, <1>10, SMTT(30) DEF Working

\* What a compactor does.
LEMMA CompactorKeeps ==
    ASSUME OptInv, NEW c \in Compactors, Compacting(c) PROVE OptInv'
<1>1. CASE Receive(c)
    <2> DEFINE o == Head(chan)
    <2>1. /\ chan' = Tail(chan) /\ chan # <<>> /\ UNCHANGED <<opt, fpc>>
          /\ \/ hold' = [hold EXCEPT ![c] = o] /\ UNCHANGED <<fo, pool, used>>
             \/ PutFeedOption(o) /\ UNCHANGED hold
        BY <1>1, ZenonT(30) DEF Receive, feeding, options
    <2>2. /\ chan' \in Seq(Nat) /\ IsInjective(chan') /\ Range(chan') \subseteq Range(chan)
          /\ o \in Range(chan) /\ o \notin Range(chan') /\ o \in Nat
        BY <2>1, ListTail, SMTT(30) DEF OptInv, Lists
    <2>3. /\ o \in 1..used /\ fo[o].sync = FALSE /\ o \notin pool
          /\ \A f \in Feeders : o \notin Range(opt[f])
          /\ \A d \in Compactors : hold[d] # o
        BY <2>2 DEF OptInv, Lists, Apart, Clean
    <2> HIDE DEF o
    <2>4. CASE hold' = [hold EXCEPT ![c] = o] /\ UNCHANGED <<fo, pool, used>>
        <3>1. /\ hold' \in [Compactors -> Nat] /\ hold'[c] = o
              /\ \A d \in Compactors : d # c => hold'[d] = hold[d]
            BY <2>2, <2>4, SMTT(30) DEF OptInv, Lists
        <3>2. Lists'
            BY <2>1, <2>2, <2>3, <2>4, <3>1, SMT DEF OptInv, Lists
        <3>3. Apart'
            BY <2>1, <2>2, <2>3, <2>4, <3>1, ZenonT(30) DEF OptInv, Apart
        <3>4. FoTyped' /\ Clean'
            BY <2>2, <2>3, <2>4, <3>1, SMTT(30) DEF OptInv, FoTyped, Clean
        <3>. QED  BY <3>2, <3>3, <3>4, SMTT(30) DEF OptInv
    <2>5. CASE PutFeedOption(o) /\ UNCHANGED hold
        <3>1. /\ hold' \in [Compactors -> Nat]
              /\ \A d \in Compactors : hold'[d] \in {0, hold[d]} /\ hold'[d] # o
            BY <2>3, <2>5 DEF OptInv, Lists
        <3>. QED  BY <2>1, <2>2, <2>3, <2>5, <3>1, PutKeeps, ZenonT(30)
    <2>. QED  BY <2>1, <2>4, <2>5, SMTT(30)
<1>2. CASE Tick(c) \/ OnExit(c)
    <2>1. UNCHANGED ownVars
        BY <1>2, ZenonT(30) DEF Tick, OnExit, ownVars, feeding, options
    <2>. QED  BY <2>1, OwnFrame
<1>3. CASE Compact(c)
    <2>1. /\ hold' = [hold EXCEPT ![c] = 0] /\ UNCHANGED <<opt, fpc, chan>>
          /\ IF hold[c] = 0 THEN UNCHANGED <<fo, pool, used>> ELSE PutFeedOption(hold[c])
        BY <1>3 DEF Compact, feeding, options
    <2>2. /\ hold' \in [Compactors -> Nat] /\ hold'[c] = 0
          /\ \A d \in Compactors : d # c => hold'[d] = hold[d]
        BY <2>1 DEF OptInv, Lists
    <2>3. CASE hold[c] = 0
        <3>1. hold' = hold
            BY <2>1, <2>3, SMTT(30) DEF OptInv, Lists
        <3>. QED  BY <2>1, <2>3, <3>1, OwnFrame, SMTT(30) DEF ownVars
    <2>4. CASE hold[c] # 0
        <3> DEFINE o == hold[c]
        <3>1. /\ o \in 1..used /\ fo[o].sync = FALSE /\ o \notin Range(chan)
              /\ \A f \in Feeders : o \notin Range(opt[f])
              /\ \A d \in Compactors : d # c => hold[d] # o
            BY <2>4, SMTT(30) DEF OptInv, Lists, Apart, Clean
        <3>2. \A d \in Compactors : hold'[d] \in {0, hold[d]} /\ hold'[d] # o
            BY <2>2, <2>4, <3>1
        <3>3. chan' = chan /\ chan \in Seq(Nat) /\ IsInjective(chan)
            BY <2>1 DEF OptInv, Lists
        <3>4. PutFeedOption(o) /\ UNCHANGED <<opt, fpc>>
            BY <2>1, <2>4
        <3> HIDE DEF o
        <3>. QED  BY <2>2, <3>1, <3>2, <3>3, <3>4, PutKeeps, ZenonT(30)
    <2>. QED  BY <2>3, <2>4
<1>. QED  BY <1>1, <1>2, <1>3, SMTT(30) DEF Compacting

\* A step of the feed keeps the options apart.
LEMMA OptInvStep == OptInv /\ [Next]_vars => OptInv'
<1>1. SUFFICES ASSUME OptInv, [Next]_vars PROVE OptInv'
    OBVIOUS
<1>2. CASE \E f \in Feeders : StartFeed(f) \/ AggFeed(f) \/ Working(f)
    BY <1>1, <1>2, FeederKeeps
<1>3. CASE \E c \in Compactors : Compacting(c)
    BY <1>1, <1>3, CompactorKeeps
<1>4. CASE \E w \in Customers : Offloading(w)
    <2>1. UNCHANGED ownVars
        BY <1>4, SMTT(30) DEF Offloading, Consume, FlushCache, ownVars, feeding, options, compact
    <2>. QED  BY <1>1, <2>1, OwnFrame, SMTT(30)
<1>5. CASE UNCHANGED feedVars \/ Exit
    <2>1. UNCHANGED ownVars
        BY <1>5 DEF Exit, feedVars, ownVars, feeding, options, compact
    <2>. QED  BY <1>1, <2>1, OwnFrame
<1>. QED  BY <1>1, <1>2, <1>3, <1>4, <1>5, SMTT(30) DEF Next, Rules, vars

\* sync.Pool hands out an option to one caller at a time and without points or
\* syncSend, although PutFeedOption does not reset the latter, however many
\* feeders, compactors and options there are: only options that were written to
\* the channel, which have no syncSend, are put back (Write, cacheData).
THEOREM OptionsStayClean == Spec => []PooledOptionsClean
<1>1. Init => OptInv
    BY OptInvInit DEF Init
<1>. QED  BY <1>1, OptInvStep, OptInvImplies, PTL DEF Spec

----------------------------------------------------------------------------
(* The parts that the feed is composed of *)

\* A step of a feeder is a step of the tags or leaves them alone.
LEMMA FeederTags ==
    ASSUME NEW f \in Feeders, StartFeed(f) \/ AggFeed(f) \/ Working(f)
    PROVE  [StartTags(f) \/ Refreshing(f) \/ Attach(f)]_tagVars
<1>1. CASE StartFeed(f)
    BY <1>1, Zenon DEF StartFeed
<1>2. CASE AggFeed(f)
    BY <1>2, Zenon DEF AggFeed
<1>3. CASE TagStep(f)
    BY <1>3, Zenon DEF TagStep
<1>4. CASE FeedNothing(f) \/ RunPl(f) \/ FilterMade(f) \/ Filter(f) \/ GetMade(f)
    BY <1>4, ZenonT(30) DEF FeedNothing, RunPl, FilterMade, Filter, GetMade
<1>5. CASE WriteNothing(f) \/ WriteSync(f) \/ Enqueue(f) \/ Refuse(f)
    BY <1>5, ZenonT(30) DEF WriteNothing, WriteSync, Enqueue, Refuse, Return
<1>. QED  BY <1>1, <1>2, <1>3, <1>4, <1>5, SMTT(30) DEF Working

\* Nobody but the goroutine of the filter changes the rules.
LEMMA FeederRules ==
    ASSUME NEW f \in Feeders, StartFeed(f) \/ AggFeed(f) \/ Working(f)
    PROVE  UNCHANGED filterVars
<1>1. CASE StartFeed(f) \/ AggFeed(f) \/ TagStep(f)
    BY <1>1, Zenon DEF StartFeed, AggFeed, TagStep
<1>2. CASE FeedNothing(f) \/ RunPl(f) \/ FilterMade(f) \/ Filter(f) \/ GetMade(f)
    BY <1>2, ZenonT(30) DEF FeedNothing, RunPl, FilterMade, Filter, GetMade
<1>3. CASE WriteNothing(f) \/ WriteSync(f) \/ Enqueue(f) \/ Refuse(f)
    BY <1>3, ZenonT(30) DEF WriteNothing, WriteSync, Enqueue, Refuse, Return
<1>. QED  BY <1>1, <1>2, <1>3 DEF Working

\* The steps of the compactors and the offload workers, and the exit.
LEMMA OthersKeep ==
    ASSUME \/ \E c \in Compactors : Compacting(c)
           \/ \E w \in Customers : Offloading(w)
           \/ Exit
    PROVE  UNCHANGED <<tagVars, filterVars>>
BY ZenonT(30) DEF Compacting, Receive, Tick, OnExit, Compact, Offloading, Consume, FlushCache, Exit

\* What the feed does to the tags are steps of GlobalTags.
LEMMA FeedIsTags == Spec => TagSpec
<1>1. Init => TagInit
    BY DEF Init
<1>2. [Next]_vars => [TagNext]_tagVars
    <2>1. SUFFICES ASSUME [Next]_vars PROVE [TagNext]_tagVars
        OBVIOUS
    <2>2. CASE \E f \in Feeders : StartFeed(f) \/ AggFeed(f) \/ Working(f)
        BY <2>2, FeederTags, ZenonT(30) DEF TagNext
    <2>3. CASE \/ \E c \in Compactors : Compacting(c)
               \/ \E w \in Customers : Offloading(w)
               \/ Exit
        BY <2>3, OthersKeep
    <2>4. CASE \E r \in Requests : Api(r)
        BY <2>4, Zenon DEF TagNext
    <2>5. CASE UNCHANGED tagVars
        BY <2>5
    <2>. QED  BY <2>1, <2>2, <2>3, <2>4, <2>5, ZenonT(30) DEF Next, Rules, vars
<1>. QED  BY <1>1, <1>2, PTL DEF Spec, TagSpec

\* Within the feed, where FeedV2, the pipeline, the compactors and the exit come
\* between any two steps of a refresh, copies of the global tags that are out
\* of date are noticed.
THEOREM FeedTagsAreFresh == Spec => []FreshTags
BY FeedIsTags, TagsAreFresh, PTL

\* Within the feed, the rules that doFilter applies are those of one document
\* from the center.
THEOREM FeedRulesAreOfOneDocument ==
    ASSUME Source = "remote" PROVE Spec => []RulesOfOneDocument
<1>1. Init => FilterInit
    BY DEF Init
<1>2. [Next]_vars => [FilterNext]_filterVars
    <2>1. SUFFICES ASSUME [Next]_vars PROVE [FilterNext]_filterVars
        OBVIOUS
    <2>2. CASE \E f \in Feeders : StartFeed(f) \/ AggFeed(f) \/ Working(f)
        BY <2>2, FeederRules, ZenonT(30)
    <2>3. CASE \/ \E c \in Compactors : Compacting(c)
               \/ \E w \in Customers : Offloading(w)
               \/ Exit
        BY <2>3, OthersKeep
    <2>4. CASE Rules \/ \E d \in Docs : Publish(d)
        BY <2>4, Zenon DEF FilterNext, Rules
    <2>5. CASE UNCHANGED filterVars
        BY <2>5
    <2>. QED  BY <2>1, <2>2, <2>3, <2>4, <2>5, ZenonT(30) DEF Next, vars
<1>. QED  BY <1>1, <1>2, RulesAreOfOneDocument, PTL DEF Spec, FilterSpec

----------------------------------------------------------------------------
(* The types *)

CompactorAt == {"select", "compact", "final", "done"}
Fates == {"unborn", "live", "written", "filtered", "dropped", "offloaded", "refused"}

\* The types that the options say nothing of, and the limits of the channels.
Queued  == Len(chan) <= ChanCap /\ (\E S : offq \in Seq(S)) /\ Len(offq) <= OffloadCap
Fated   == fate \in [Points -> Fates]
RestInv == Queued /\ Fated /\ cpc \in [Compactors -> CompactorAt]

\* Points that come to an end have a fate.
LEMMA EndsTyped == ASSUME Fated, NEW ps, NEW how \in Fates PROVE Ends(ps, how) \in [Points -> Fates]
BY DEF Fated, Ends

\* The names of what may become of a point.
LEMMA FateNames ==
    "live" \in Fates /\ "written" \in Fates /\ "filtered" \in Fates /\ "dropped" \in Fates
    /\ "offloaded" \in Fates /\ "refused" \in Fates
BY DEF Fates

\* One more element.
LEMMA OneMore ==
    ASSUME NEW S, NEW s \in Seq(S), NEW x, NEW n \in Nat, Len(s) < n
    PROVE  Append(s, x) \in Seq(S \cup {x}) /\ Len(Append(s, x)) <= n
<1>1. s \in Seq(S \cup {x}) /\ x \in S \cup {x}
    BY SMT
<1>. QED  BY <1>1, SMT

\* One element less.
LEMMA OneLess ==
    ASSUME NEW S, NEW s \in Seq(S), s # <<>>, NEW n \in Nat, Len(s) <= n
    PROVE  Tail(s) \in Seq(S) /\ Len(Tail(s)) <= n
BY SMT

\* A step of a feeder gives every point that it is about a fate.
LEMMA FeederFates ==
    ASSUME Fated, NEW f \in Feeders, StartFeed(f) \/ AggFeed(f) \/ Working(f) PROVE Fated'
<1>1. CASE StartFeed(f)
    <2>1. \E ps : fate' = Ends(ps, "live")
        BY <1>1 DEF StartFeed
    <2>. QED  BY <2>1, EndsTyped, FateNames DEF Fated
<1>2. CASE AggFeed(f)
    <2>1. PICK call \in Range(Feeds[f]) :
            fate' = [p \in Points |-> IF p \in Range(Blocked(call.pts)) THEN "filtered"
                                      ELSE Ends(call.pts, "live")[p]]
        BY <1>2 DEF AggFeed
    <2>2. PICK e \in [Points -> Fates] : e = Ends(call.pts, "live")
        BY EndsTyped, FateNames
    <2>. QED  BY <2>1, <2>2, FateNames DEF Fated
<1>3. CASE RunPl(f)
    <2>. DEFINE ps == fo[opt[f][1]].pts
                s  == FlattenSeq([i \in DOMAIN ps |-> IF Script[ps[i]] = "create" THEN Made[ps[i]] ELSE <<>>])
                d  == Which(ps, {"drop"})
    <2>1. \/ UNCHANGED fate
          \/ fate' = [p \in Points |-> IF p \in Range(s) THEN "live" ELSE Ends(d, "dropped")[p]]
        BY <1>3, ZenonT(30) DEF RunPl
    <2>. HIDE DEF s, d
    <2>2. PICK e \in [Points -> Fates] : e = Ends(d, "dropped")
        BY EndsTyped, FateNames
    <2>. QED  BY <2>1, <2>2, FateNames DEF Fated
<1>4. CASE FilterMade(f) \/ Filter(f)
    <2>1. \E ps : fate' = Ends(ps, "filtered")
        BY <1>4 DEF FilterMade, Filter
    <2>. QED  BY <2>1, EndsTyped, FateNames DEF Fated
<1>5. CASE WriteSync(f)
    <2>1. \E ps : fate' = Ends(ps, "written")
        BY <1>5 DEF WriteSync
    <2>. QED  BY <2>1, EndsTyped, FateNames DEF Fated
<1>6. CASE Refuse(f)
    <2>1. \E ps : fate' = Ends(ps, "refused")
        BY <1>6 DEF Refuse
    <2>. QED  BY <2>1, EndsTyped, FateNames DEF Fated
<1>7. CASE TagStep(f) \/ FeedNothing(f) \/ GetMade(f) \/ WriteNothing(f) \/ Enqueue(f)
    BY <1>7, ZenonT(30) DEF TagStep, FeedNothing, GetMade, WriteNothing, Enqueue, Fated
<1>. QED  BY <1>1, <1>2, <1>3, <1>4, <1>5, <1>6, <1>7 DEF Working

\* Write sends to the channel, and the offloader to its own, only when there is
\* room.
LEMMA FeederQueues ==
    ASSUME OptInv, Queued, NEW f \in Feeders, StartFeed(f) \/ AggFeed(f) \/ Working(f) PROVE Queued'
<1>0. ChanCap \in Nat /\ OffloadCap \in Nat /\ chan \in Seq(Nat)
    BY FeedAssumption, SMT DEF OptInv, Lists
<1>1. CASE Enqueue(f)
    <2>1. PICK o : chan' = Append(chan, o) /\ Len(chan) < ChanCap /\ UNCHANGED offq
        BY <1>1 DEF Enqueue, Return, offload
    <2>2. Len(chan') <= ChanCap
        BY <1>0, <2>1, OneMore
    <2>. QED  BY <2>1, <2>2 DEF Queued
<1>2. CASE RunPl(f)
    <2>1. UNCHANGED chan
        BY <1>2 DEF RunPl
    <2>2. PICK x : UNCHANGED offq \/ (offq' = Append(offq, x) /\ Len(offq) < OffloadCap)
        BY <1>2, ZenonT(30) DEF RunPl
    <2>3. CASE offq' = Append(offq, x) /\ Len(offq) < OffloadCap
        <3>1. PICK S : offq \in Seq(S)
            BY DEF Queued
        <3>2. offq' \in Seq(S \cup {x}) /\ Len(offq') <= OffloadCap
            BY <1>0, <2>3, <3>1, OneMore
        <3>. QED  BY <2>1, <3>2 DEF Queued
    <2>. QED  BY <2>1, <2>2, <2>3 DEF Queued
<1>3. CASE StartFeed(f) \/ AggFeed(f) \/ TagStep(f) \/ FeedNothing(f) \/ FilterMade(f) \/ Filter(f) \/ GetMade(f)
    BY <1>3, ZenonT(30) DEF StartFeed, AggFeed, TagStep, FeedNothing, FilterMade, Filter, GetMade, Queued, offload
<1>4. CASE WriteNothing(f) \/ WriteSync(f) \/ Refuse(f)
    BY <1>4, ZenonT(30) DEF WriteNothing, WriteSync, Refuse, Return, Queued, offload
<1>. QED  BY <1>1, <1>2, <1>3, <1>4 DEF Working

\* A feeder leaves the compactors where they are.
LEMMA FeederCompacts ==
    ASSUME NEW f \in Feeders, StartFeed(f) \/ AggFeed(f) \/ Working(f) PROVE UNCHANGED cpc
<1>1. CASE StartFeed(f) \/ AggFeed(f) \/ TagStep(f) \/ FeedNothing(f) \/ RunPl(f)
    BY <1>1, ZenonT(30) DEF StartFeed, AggFeed, TagStep, FeedNothing, RunPl, compact
<1>2. CASE FilterMade(f) \/ Filter(f) \/ GetMade(f)
    BY <1>2, ZenonT(30) DEF FilterMade, Filter, GetMade, compact
<1>3. CASE WriteNothing(f) \/ WriteSync(f) \/ Enqueue(f) \/ Refuse(f)
    BY <1>3, ZenonT(30) DEF WriteNothing, WriteSync, Enqueue, Refuse, Return, compact
<1>. QED  BY <1>1, <1>2, <1>3 DEF Working

\* A compactor receives an option, or writes what it has collected.
LEMMA CompactorRest ==
    ASSUME OptInv, RestInv, NEW c \in Compactors, Compacting(c) PROVE RestInv'
<1>0. ChanCap \in Nat /\ chan \in Seq(Nat) /\ Len(chan) <= ChanCap
    BY FeedAssumption, SMT DEF OptInv, Lists, RestInv, Queued
<1>1. Queued'
    <2>1. UNCHANGED offq /\ (UNCHANGED chan \/ (chan # <<>> /\ chan' = Tail(chan)))
        BY ZenonT(30) DEF Compacting, Receive, Tick, OnExit, Compact, offload
    <2>2. CASE chan # <<>> /\ chan' = Tail(chan)
        BY <1>0, <2>1, <2>2, OneLess DEF RestInv, Queued
    <2>. QED  BY <2>1, <2>2 DEF RestInv, Queued
<1>2. Fated'
    <2>1. UNCHANGED fate \/ fate' = Ends(points[c], "written")
        BY ZenonT(30) DEF Compacting, Receive, Tick, OnExit, Compact
    <2>2. Fated /\ Ends(points[c], "written") \in [Points -> Fates]
        BY EndsTyped, FateNames DEF RestInv
    <2>. QED  BY <2>1, <2>2 DEF Fated
<1>3. cpc' \in [Compactors -> CompactorAt]
    <2>1. \E l \in CompactorAt : UNCHANGED cpc \/ cpc' = [cpc EXCEPT ![c] = l]
        BY ZenonT(30) DEF Compacting, Receive, Tick, OnExit, Compact, CompactGoto, CompactorAt
    <2>. QED  BY <2>1 DEF RestInv
<1>. QED  BY <1>1, <1>2, <1>3 DEF RestInv

\* An offload worker takes from its channel, and what it sends has come to an
\* end.
LEMMA OffloadRest == ASSUME RestInv, NEW w \in Customers, Offloading(w) PROVE RestInv'
<1>1. UNCHANGED <<chan, cpc>>
    BY DEF Offloading, Consume, FlushCache, compact
<1>2. Queued'
    <2>1. PICK S : offq \in Seq(S) /\ Len(offq) <= OffloadCap /\ OffloadCap \in Nat
        BY FeedAssumption DEF RestInv, Queued
    <2>2. UNCHANGED offq \/ (offq # <<>> /\ offq' = Tail(offq))
        BY DEF Offloading, Consume, FlushCache
    <2>3. offq' \in Seq(S) /\ Len(offq') <= OffloadCap
        BY <2>1, <2>2, OneLess
    <2>. QED  BY <1>1, <2>3 DEF RestInv, Queued
<1>3. Fated'
    <2>1. PICK ps : fate' = Ends(ps, "offloaded")
        BY DEF Offloading, Consume, FlushCache
    <2>2. Ends(ps, "offloaded") \in [Points -> Fates]
        BY EndsTyped, FateNames DEF RestInv
    <2>. QED  BY <2>1, <2>2 DEF Fated
<1>. QED  BY <1>1, <1>2, <1>3 DEF RestInv

\* Every variable of the feed keeps its type, and the channels of the category
\* and of the offload workers their capacity, however many feeders, compactors,
\* workers and options there are; the global tags included.
THEOREM FeedTypes == Spec => []FeedTypeOK
<1>1. Init => OptInv /\ RestInv
    <2>1. SUFFICES ASSUME FeedInit PROVE RestInv
        BY OptInvInit DEF Init
    <2>2. chan = <<>> /\ offq = <<>> /\ ChanCap \in Nat /\ OffloadCap \in Nat
        BY <2>1, FeedAssumption DEF FeedInit
    <2>3. Queued
        <3>1. <<>> \in Seq({}) /\ Len(<<>>) = 0 /\ \A n \in Nat : 0 <= n
            BY SMT
        <3>. QED  BY <2>2, <3>1 DEF Queued
    <2>4. Fated /\ cpc \in [Compactors -> CompactorAt]
        BY <2>1 DEF FeedInit, Fated, Fates, CompactorAt
    <2>. QED  BY <2>3, <2>4 DEF RestInv
<1>2. OptInv /\ RestInv /\ [Next]_vars => OptInv' /\ RestInv'
    <2>1. SUFFICES ASSUME OptInv, RestInv, [Next]_vars PROVE RestInv'
        BY OptInvStep
    <2>2. CASE \E f \in Feeders : StartFeed(f) \/ AggFeed(f) \/ Working(f)
        BY <2>1, <2>2, FeederFates, FeederQueues, FeederCompacts DEF RestInv
    <2>3. CASE \E c \in Compactors : Compacting(c)
        BY <2>1, <2>3, CompactorRest
    <2>4. CASE \E w \in Customers : Offloading(w)
        BY <2>1, <2>4, OffloadRest
    <2>5. CASE UNCHANGED feedVars \/ Exit
        BY <2>1, <2>5, ZenonT(30) DEF Exit, feedVars, compact, offload, RestInv, Queued, Fated
    <2>. QED  BY <2>1, <2>2, <2>3, <2>4, <2>5, SMTT(30) DEF Next, Rules, vars
<1>3. TagTypeOK /\ OptInv /\ RestInv => FeedTypeOK
    <2>1. SUFFICES ASSUME TagTypeOK, OptInv, RestInv PROVE FeedTypeOK
        OBVIOUS
    <2>2. used \in 0..MaxOptions
        BY <2>1, FeedAssumption, SMT DEF OptInv, Lists
    <2>. QED  BY <2>1, <2>2 DEF OptInv, Lists, RestInv, Queued, Fated, Fates, CompactorAt, FeederAt, FeedTypeOK
<1>. QED  BY <1>1, <1>2, <1>3, FeedIsTags, TagsAreFresh, PTL DEF Spec

=============================================================================
