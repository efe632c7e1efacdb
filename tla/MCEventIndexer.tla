--------------------------- MODULE MCEventIndexer ---------------------------
(* Model values and bounds for checking EventIndexer and ApiKeys, and what *)
(* is read from the indexer's tables: ProtocolStats and ActivityViews.     *)
(* They share nothing: a behaviour picks one and stays with it.            *)
EXTENDS EventIndexer, ApiKeys, ProtocolStats, ActivityViews, TLC

CONSTANTS bill1, bill2, shop, a1, a2, k1, j1, j2

VARIABLE part  \* "indexer", "keys", "stats" or "activity"

MCBills == {bill1}
MCShops == {shop}
MCOwners == {a1, a2}
MCKeys == {k1}
MCLoans == {bill1, bill2}
MCPrincipal == bill1 :> 200 @@ bill2 :> 100
MCStatsJobs == {j1, j2}

(* Days pass where there is one loan, and two loans are made in one day.   *)
(* Two handlers are at work where there is one loan in one day, the        *)
(* liquidity providers rest, and the pool does not answer; the second      *)
(* begins while the first is at work.                                      *)
Busy(j) == jobs[j] # NoReport
SmallEnough ==
  /\ day' > 0 \/ Busy(j2)' => chain'[bill2] = "none"
  /\ Busy(j2)' =>
       /\ day' = 0 /\ (chain' = chain => cash' = cash)
       /\ Busy(j2) \/ Busy(j1)
       /\ \A j \in Jobs : Busy(j)' => {"cash", "lent"} \cap DOMAIN jobs'[j].got = {}

Feed ==
  /\ IndexerNext
  /\ UNCHANGED <<apiKeyVars, statsVars, activityVars>>
Keyring == ApiKeysNext /\ UNCHANGED <<indexerVars, statsVars, activityVars>>
Reporting ==
  /\ StatsNext /\ SmallEnough
  /\ UNCHANGED <<indexerVars, apiKeyVars, activityVars>>
Listing == ActivityNext /\ UNCHANGED <<indexerVars, apiKeyVars, statsVars>>

FeedVars == <<indexerVars, apiKeyVars, statsVars, activityVars, part>>
FeedInit ==
  /\ IndexerInit /\ ApiKeysInit /\ StatsInit /\ ActivityInit
  /\ part \in {"indexer", "keys", "stats", "activity"}
  /\ part # "activity" => viewer = "user"
FeedNext ==
  /\ \/ part = "indexer" /\ Feed
     \/ part = "keys" /\ Keyring
     \/ part = "stats" /\ Reporting
     \/ part = "activity" /\ Listing
  /\ UNCHANGED part
FeedSpec == FeedInit /\ [][FeedNext]_FeedVars /\ IndexerFairness
=============================================================================
