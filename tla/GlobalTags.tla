----------------------------- MODULE GlobalTags -----------------------------
(***************************************************************************)
(* The global tags.  Package datakit keeps the host tags and the election  *)
(* tags with a version that every change increments.  Package io keeps     *)
(* copies of them (KVs), which a feeder refreshes when it sees a version   *)
(* other than the one the copies were made for, and attaches to points.    *)
(* The tags change while the agent runs, through the HTTP API and the host *)
(* object input: each request reads a map, merges its tag, clears the map  *)
(* and sets the merged one, with no lock around the four.                  *)
(*                                                                         *)
(* A map of tags is the set of its keys: no request gives a key two values.*)
(***************************************************************************)
EXTENDS Integers, FiniteSets

CONSTANTS
    Feeders,        \* the goroutines that call FeedV2
    NoFeeder,
    Requests,       \* calls that change the tags, each one once
    KindOf,         \* KindOf[r]: "post" or "delete" of the API, "cloud" the input
    StoreOf,        \* StoreOf[r]: the tags it is for, "host" or "election"
    KeyOf,          \* KeyOf[r]: the tag it sets or deletes
    BaseTags,       \* the tags of the configuration, GlobalHostTags
    HostKey,        \* the tag that getQueryMap and getQueryArray leave out
    ElectionEnabled \* config.Cfg.Election.Enable

ASSUME TagAssumption ==
    /\ NoFeeder \notin Feeders /\ ElectionEnabled \in BOOLEAN
    /\ \A r \in Requests :
        /\ KindOf[r] \in {"post", "delete", "cloud"} /\ KeyOf[r] # HostKey
        /\ StoreOf[r] \in {"host", "election"}
        /\ StoreOf[r] = "election" => ElectionEnabled \/ KindOf[r] = "cloud"

VARIABLES
    tags,       \* tags[s] for the stores host, election and dataway
    tagVersion,
    conf,       \* conf[s]: the tags in datakit.conf
    rpc,        \* rpc[r]: the step of request r, and the store it is at
    merged,     \* merged[r]: the map it is going to set
    ver,        \* the version the copies were made for
    kvs,        \* kvs[s]: globalHostKVs and globalElectionKVs
    rw,         \* the feeder that holds the write lock of package io
    copied,     \* the host tags it has read
    tpc,        \* tpc[f]: where feeder f is in FeedV2
    loaded      \* loaded[f]: the version f has read last

store   == <<tags, tagVersion, conf>>
api     == <<rpc, merged>>
copies  == <<ver, kvs, rw, copied>>
feeder  == <<tpc, loaded>>
tagVars == <<store, api, copies, feeder>>

Versioned == {"host", "election"}   \* the stores that count versions

\* After setupGlobalTags: the host tag is set, and without election the
\* election tags are the host tags.  Nothing has been fed.  Any of the requests
\* are going to be made.
TagInit == \E pending \in SUBSET Requests :
    /\ tags = [s \in Versioned \cup {"dataway"} |->
                IF s = "election" /\ ElectionEnabled THEN {} ELSE BaseTags \cup {HostKey}]
    /\ tagVersion = 1 /\ conf = [s \in Versioned |-> IF s = "host" THEN BaseTags ELSE {}]
    /\ rpc = [r \in Requests |-> [at |-> IF r \notin pending THEN "done"
                                         ELSE IF KindOf[r] = "cloud" THEN "read" ELSE "conf",
                                  on |-> StoreOf[r]]]
    /\ merged = [r \in Requests |-> {}]
    /\ ver = 0 /\ kvs = [s \in Versioned |-> {}] /\ rw = NoFeeder /\ copied = {}
    /\ tpc = [f \in Feeders |-> "idle"] /\ loaded = [f \in Feeders |-> 0]

----------------------------------------------------------------------------
(* postHostTags, deleteHostTags, UpdateHostTags and the same of election.   *)
(* With election disabled the API refuses the election requests.            *)

\* updateMerge and deleteMerge
Merge(r, m) == IF KindOf[r] = "delete" THEN m \ {KeyOf[r]} ELSE m \cup {KeyOf[r]}

Step(r, at, on) == rpc' = [rpc EXCEPT ![r] = [at |-> at, on |-> on]]

\* Where request r goes when it has finished with store s.  A delete gives the
\* host tags it has just set to the election store, a post reads that store.
After(r, s, changed) ==
    IF s = "dataway" THEN Step(r, "done", s)
    ELSE IF s = "host" /\ ~ElectionEnabled /\ KindOf[r] = "post" THEN Step(r, "read", "election")
    ELSE IF s = "host" /\ ~ElectionEnabled /\ KindOf[r] = "delete" /\ changed
         THEN Step(r, "clear", "election")
    ELSE Step(r, "read", "dataway")

\* handleUpdateDatakitConf and handleDeleteDatakitConf, under muDatakitConf.
\* Nothing reads the file before a restart, so that it could not be read or
\* written, or that there is none in a container, makes no other case.
ApiConf(r) ==
    LET s == rpc[r].on IN
    /\ rpc[r].at = "conf" /\ conf' = [conf EXCEPT ![s] = Merge(r, @)]
    /\ Step(r, "read", s)
    /\ UNCHANGED <<tags, tagVersion, merged, copies, feeder>>

\* Read and merge; a request that changes nothing leaves the store alone.
ApiRead(r) ==
    LET s == rpc[r].on
        m == Merge(r, tags[s])
    IN
    /\ rpc[r].at = "read" /\ merged' = [merged EXCEPT ![r] = m]
    /\ IF m = tags[s] THEN After(r, s, FALSE)
       ELSE Step(r, IF s = "dataway" THEN "set" ELSE "clear", s)
    /\ UNCHANGED <<store, copies, feeder>>

\* ClearGlobalHostTags, ClearGlobalElectionTags
ApiClear(r) ==
    LET s == rpc[r].on IN
    /\ rpc[r].at = "clear" /\ Step(r, "set", s)
    /\ tags' = [tags EXCEPT ![s] = {}] /\ tagVersion' = tagVersion + 1
    /\ UNCHANGED <<conf, merged, copies, feeder>>

\* SetGlobalHostTagsByMap and SetGlobalElectionTagsByMap add to the map;
\* UpdateGlobalTags of Dataway replaces its own.
ApiSet(r) ==
    LET s == rpc[r].on IN
    /\ rpc[r].at = "set" /\ After(r, s, TRUE)
    /\ tags' = [tags EXCEPT ![s] = IF s = "dataway" THEN merged[r] ELSE @ \cup merged[r]]
    /\ tagVersion' = IF s = "dataway" THEN tagVersion ELSE tagVersion + 1
    /\ UNCHANGED <<conf, merged, copies, feeder>>

Api(r) == ApiConf(r) \/ ApiRead(r) \/ ApiClear(r) \/ ApiSet(r)

----------------------------------------------------------------------------
(* FeedV2 up to attachTags *)

TagGoto(f, l) == tpc' = [tpc EXCEPT ![f] = l]
Load(f, v)    == loaded' = [loaded EXCEPT ![f] = v]

StartTags(f) ==
    /\ tpc[f] = "idle" /\ TagGoto(f, "ver")
    /\ UNCHANGED <<store, api, copies, loaded>>

\* Updated reads ver first, then tagVersion.
ReadVer(f) ==
    /\ tpc[f] = "ver" /\ Load(f, ver) /\ TagGoto(f, "updated")
    /\ UNCHANGED <<store, api, copies>>

Updated(f) ==
    /\ tpc[f] = "updated"
    /\ TagGoto(f, IF loaded[f] # tagVersion THEN "load" ELSE "attach")
    /\ UNCHANGED <<store, api, copies, loaded>>

\* UpdateVersion loads, then stores.
LoadVersion(f) ==
    /\ tpc[f] = "load" /\ Load(f, tagVersion) /\ TagGoto(f, "store")
    /\ UNCHANGED <<store, api, copies>>

StoreVersion(f) ==
    /\ tpc[f] = "store" /\ ver' = loaded[f] /\ TagGoto(f, "refresh")
    /\ UNCHANGED <<store, api, kvs, rw, copied, loaded>>

\* refreshGlobalTags: lock, copy the host tags, ...
RefreshHost(f) ==
    /\ tpc[f] = "refresh" /\ rw = NoFeeder /\ rw' = f
    /\ copied' = tags["host"] /\ TagGoto(f, "rebuild")
    /\ UNCHANGED <<store, api, ver, kvs, loaded>>

\* Mutant: UpdateVersion comes after refreshGlobalTags.
RebuildBug(f) ==
    /\ tpc[f] = "rebuild" /\ rw' = NoFeeder /\ ver' = tagVersion
    /\ kvs' = [s \in Versioned |-> IF s = "host" THEN copied ELSE tags["election"]]
    /\ TagGoto(f, "attach")
    /\ UNCHANGED <<store, api, copied, loaded>>

\* ... then the election tags, build the KVs and unlock.
Rebuild(f) ==
    /\ tpc[f] = "rebuild" /\ rw' = NoFeeder
    /\ kvs' = [s \in Versioned |-> IF s = "host" THEN copied ELSE tags["election"]]
    /\ TagGoto(f, "attach")
    /\ UNCHANGED <<store, api, ver, copied, loaded>>

\* attachTags, under the read lock.
Attach(f) ==
    /\ tpc[f] = "attach" /\ rw = NoFeeder /\ TagGoto(f, "idle")
    /\ UNCHANGED <<store, api, copies, loaded>>

Refreshing(f) ==
    \/ ReadVer(f) \/ Updated(f) \/ LoadVersion(f) \/ StoreVersion(f)
    \/ RefreshHost(f) \/ Rebuild(f)

TagNext ==
    \/ \E r \in Requests : Api(r)
    \/ \E f \in Feeders : StartTags(f) \/ Refreshing(f) \/ Attach(f)

TagSpec == TagInit /\ [][TagNext]_tagVars

----------------------------------------------------------------------------
(* Properties *)

\* Every variable of the tags has its type.
TagTypeOK ==
    /\ DOMAIN tags = Versioned \cup {"dataway"} /\ DOMAIN kvs = Versioned
    /\ tagVersion \in Nat /\ ver \in Nat /\ rw \in Feeders \cup {NoFeeder}
    /\ tpc \in [Feeders -> {"idle", "ver", "updated", "load", "store", "refresh",
                            "rebuild", "attach"}]
    /\ loaded \in [Feeders -> Nat]
    /\ rpc \in [Requests -> [at : {"conf", "read", "clear", "set", "done"},
                             on : Versioned \cup {"dataway"}]]

\* Copies that are out of date are noticed: if the version says that they are
\* current, some feeder is about to replace them (it has stored the version
\* in UpdateVersion and has not yet read the map in refreshGlobalTags), however
\* the changes, the checks and the refreshes of several feeders interleave.
FreshTags ==
    ver = tagVersion =>
        /\ kvs["host"] # tags["host"] =>
            \E f \in Feeders : \/ tpc[f] = "refresh"
                               \/ tpc[f] = "rebuild" /\ copied = tags["host"]
        /\ kvs["election"] # tags["election"] =>
            \E f \in Feeders : tpc[f] \in {"refresh", "rebuild"}
=============================================================================
