------------------------------- MODULE MCFeed -------------------------------
(* Three scenarios of Feed for TLC. *)
EXTENDS Feed

\* The API sets one tag and deletes another.
MCKindOf  == [r \in Requests |-> r]
MCStoreOf == [r \in Requests |-> "host"]
MCKeyOf   == [r \in Requests |-> IF r = "delete" THEN "tag" ELSE r]

\* Document 1 drops point 4, document 2 drops point 3 and does not compile.
MCRulesOf == [d \in Docs |-> ("logging" :> {5 - d}) @@
                             ("metric" :> IF d = 2 THEN BadRule ELSE {})]

MCCall(by, pts, sync) == [by |-> by, pts |-> pts, sync |-> sync]
MCFeeds == [f \in Feeders |->
    CASE f = "f1" -> <<MCCall("Feed", <<1, 2, 5>>, FALSE), MCCall("PLAggFeed", <<3>>, FALSE)>>
      [] f = "f2" -> <<MCCall("FeedV2", <<4>>, TRUE)>>
      [] OTHER    -> <<MCCall("FeedV2", <<>>, FALSE)>>]
MCScript == <<"create", "offload", "none", "none", "drop", "none">>
MCMade   == [p \in Points |-> IF p = 1 THEN <<6>> ELSE <<>>]

Silent(f) == calls[f] = Len(Feeds[f])
NoRequest == \A r \in Requests : rpc[r].at = "done"

\* Points are fed while the first rules come in.
FeedScenario ==
    /\ calls["f1"] = 0 /\ calls["f2"] = 0 /\ Silent("t1") /\ Silent("t2")
    /\ NoRequest /\ published = 1 /\ changes = MaxPublish

\* A tag is set while two feeders attach the tags, or deleted while one does.
TagScenario ==
    /\ Silent("f1") /\ Silent("f2") /\ calls["t1"] = 0
    /\ \/ rpc["delete"].at = "done" /\ rpc["post"].at # "done" /\ calls["t2"] = 0
       \/ rpc["delete"].at # "done" /\ rpc["post"].at = "done" /\ Silent("t2")
    /\ published \in Unreadable /\ changes = MaxPublish

\* The rules change.
RuleScenario ==
    /\ \A f \in Feeders : Silent(f)
    /\ NoRequest /\ changes = 0

MCInit == Init /\ (FeedScenario \/ TagScenario \/ RuleScenario)
MCSpec == MCInit /\ [][Next]_vars /\ Fairness
=============================================================================
