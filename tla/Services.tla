------------------------------ MODULE Services ------------------------------
(***************************************************************************)
(* The services that stand by themselves, side by side: the API workers    *)
(* and their metric files, the database adapter, the rate limiter, the     *)
(* cache, the retries, robots.txt, the experiments, the live collectors,   *)
(* events and trends, attribution and weights.  They share no state, so    *)
(* they are run one at a time: `service` says which one, the others stay   *)
(* as they were initialised.                                               *)
(***************************************************************************)
EXTENDS ApiWorkers, DBAdapter, RateLimiter, Cache, Retry, Robots, Experiments,
        LiveCollectors, Signals, Feedback

VARIABLE service

Services == {"workers", "adapter", "limiter", "cache", "retry", "robots",
             "experiments", "youtube", "reddit", "events", "trend", "feedback", "weights"}

helpersVars == <<limiterVars, cacheVars, retryVars, robotsVars>>
topicsVars == <<experimentsVars, collectorsVars, signalsVars, feedbackVars>>
vars == <<service, workersVars, adapterVars, helpersVars, topicsVars>>

Init ==
  /\ service \in Services
  /\ WorkersInit /\ AdapterInit /\ LimiterInit /\ CacheInit
  /\ RetryInit /\ (service # "retry" => strategy = "linear")
  /\ RobotsInit /\ (service # "robots" => \A d \in Domains : site[d] = "allows")
  /\ ExperimentsInit /\ CollectorsInit /\ SignalsInit
  /\ FeedbackInit /\ (service # "weights" => \A c \in Components : weights[c] = WMin)

RunWorkers ==
  /\ service = "workers" /\ WorkersNext
  /\ UNCHANGED <<service, adapterVars, helpersVars, topicsVars>>

RunAdapter ==
  /\ service = "adapter" /\ AdapterNext
  /\ UNCHANGED <<service, workersVars, helpersVars, topicsVars>>

RunHelpers ==
  /\ \/ service = "limiter" /\ LimiterNext /\ UNCHANGED <<cacheVars, retryVars, robotsVars>>
     \/ service = "cache" /\ CacheNext /\ UNCHANGED <<limiterVars, retryVars, robotsVars>>
     \/ service = "retry" /\ RetryNext /\ UNCHANGED <<limiterVars, cacheVars, robotsVars>>
     \/ service = "robots" /\ RobotsNext /\ UNCHANGED <<limiterVars, cacheVars, retryVars>>
  /\ UNCHANGED <<service, workersVars, adapterVars, topicsVars>>

RunExperiments ==
  /\ service = "experiments" /\ ExperimentsNext
  /\ UNCHANGED <<collectorsVars, signalsVars, feedbackVars>>

RunCollectors ==
  /\ \/ service = "youtube" /\ YouTubeNext
     \/ service = "reddit" /\ RedditNext
  /\ UNCHANGED <<experimentsVars, signalsVars, feedbackVars>>

RunSignals ==
  /\ \/ service = "events" /\ EventsNext
     \/ service = "trend" /\ TrendNext
  /\ UNCHANGED <<experimentsVars, collectorsVars, feedbackVars>>

RunFeedback ==
  /\ \/ service = "feedback" /\ AttributionNext
     \/ service = "weights" /\ WeightsNext
  /\ UNCHANGED <<experimentsVars, collectorsVars, signalsVars>>

RunTopics ==
  /\ RunExperiments \/ RunCollectors \/ RunSignals \/ RunFeedback
  /\ UNCHANGED <<service, workersVars, adapterVars, helpersVars>>

Next == RunWorkers \/ RunAdapter \/ RunHelpers \/ RunTopics

Spec == Init /\ [][Next]_vars

ServicesTypeOK ==
  /\ WorkersTypeOK /\ AdapterTypeOK /\ LimiterTypeOK /\ CacheTypeOK /\ RetryTypeOK
  /\ RobotsTypeOK
  /\ ExperimentsTypeOK /\ CollectorsTypeOK /\ SignalsTypeOK /\ FeedbackTypeOK

\* The helpers hide failures of what they call within bounds: a cache does not
\* answer for ever what should have been replaced, a retry waits longer the
\* longer it has failed but no longer than that, and a site's last word counts
\* when it has gone away.
HelpersAreSound == OldReadsEnd /\ BackoffGrows /\ LastAnswerCounts
=============================================================================
