------------------------------- MODULE Robots -------------------------------
(***************************************************************************)
(* RobotsChecker: the robots.txt of each domain, read when it is asked for *)
(* first and kept until refresh() is called.  What a site answers may      *)
(* change meanwhile.                                                       *)
(*                                                                         *)
(* The parser is the standard library's (external): it refuses everything  *)
(* after 401 and 403, allows everything after another 4xx, and after a 5xx *)
(* it has read nothing, raises nothing and refuses everything.  A site     *)
(* that cannot be reached makes it raise.                                  *)
(***************************************************************************)
EXTENDS FiniteSets

CONSTANTS Domains  \* scheme and host

VARIABLES
  site,     \* [Domains -> Answers]: what the site would answer
  rules,    \* [Domains -> Answers or Unread]: _cache
  lastRead, \* [Domains -> Answers or Unread]: what was read last
  verdict,  \* [Domains -> {"none", "allowed", "refused"}]: is_allowed()
  judged    \* [Domains -> Answers or Unread]: what had been read last by then

robotsVars == <<site, rules, lastRead, verdict, judged>>

Answers == {"allows", "refuses", "forbidden", "absent", "broken", "unreachable"}
Unread == "unread"

RobotsTypeOK ==
  /\ site \in [Domains -> Answers]
  /\ rules \in [Domains -> (Answers \ {"unreachable"}) \cup {Unread}]
  /\ lastRead \in [Domains -> (Answers \ {"unreachable"}) \cup {Unread}]
  /\ verdict \in [Domains -> {"none", "allowed", "refused"}]
  /\ judged \in [Domains -> (Answers \ {"unreachable"}) \cup {Unread}]

RobotsInit ==
  /\ site \in [Domains -> Answers]
  /\ rules = [d \in Domains |-> Unread]
  /\ lastRead = [d \in Domains |-> Unread]
  /\ verdict = [d \in Domains |-> "none"]
  /\ judged = [d \in Domains |-> Unread]

SiteChanges(d) ==
  /\ \E a \in Answers \ {site[d]} : site' = [site EXCEPT ![d] = a]
  /\ UNCHANGED <<rules, lastRead, verdict, judged>>

\* What is read replaces what was; what cannot be read leaves it.
Load(d) ==
  /\ rules' = [rules EXCEPT ![d] = IF site[d] = "unreachable" THEN @ ELSE site[d]]
  /\ lastRead' = [lastRead EXCEPT ![d] = IF site[d] = "unreachable" THEN @ ELSE site[d]]

Refresh(d) == Load(d) /\ UNCHANGED <<site, verdict, judged>>

\* refresh() with a text that its caller has.
RefreshWith(d, text) ==
  /\ rules' = [rules EXCEPT ![d] = text]
  /\ lastRead' = [lastRead EXCEPT ![d] = text]
  /\ UNCHANGED <<site, verdict, judged>>

IsAllowed(d) ==
  /\ IF rules[d] = Unread THEN Load(d) ELSE UNCHANGED <<rules, lastRead>>
  /\ verdict' = [verdict EXCEPT ![d] =
       IF rules'[d] \in {Unread, "allows", "absent"} THEN "allowed" ELSE "refused"]
  /\ judged' = [judged EXCEPT ![d] = lastRead'[d]]
  /\ UNCHANGED site

RobotsNext ==
  \E d \in Domains :
    \/ SiteChanges(d) \/ Refresh(d) \/ IsAllowed(d)
    \/ \E text \in {"allows", "refuses"} : RefreshWith(d, text)

RobotsSpec == RobotsInit /\ [][RobotsNext]_robotsVars

-----------------------------------------------------------------------------
(* Correctness.                                                            *)

\* What is_allowed() answers is what the site said last, whenever that was
\* and whatever has failed since: a site that refused, or answered with an
\* error of its own, is not open again because it cannot be reached, and one
\* that allowed is not closed for that; open without having said so is only a
\* site that was never reached (robots_checker.py:37-58).
LastAnswerCounts ==
  \A d \in Domains :
    /\ verdict[d] = "allowed" => judged[d] \in {Unread, "allows", "absent"}
    /\ verdict[d] = "refused" => judged[d] \in {"refuses", "forbidden", "broken"}
=============================================================================
