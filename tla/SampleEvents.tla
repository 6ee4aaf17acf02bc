-------------------------- MODULE SampleEvents --------------------------
(***************************************************************************)
(* Events and a configuration for the instances of Webhook: a package, a   *)
(* release of two assets that are to be synchronised, one to two places by *)
(* two expressions and one without an ID, and two that are not, runs of a  *)
(* workflow by a configured actor and by another, with artifacts of which  *)
(* one is to be synchronised, and an event not well formed.                *)
(***************************************************************************)
CONSTANT Whole  \* as in Webhook

Package ==
  [kind |-> "package", ok |-> TRUE, repo |-> "org/repo", action |-> "published",
   ecosystem |-> "CONTAINER", name |-> "app", tag |-> "1.0", id |-> 1]

Asset(name, id) ==
  [name |-> name, id |-> id, state |-> "uploaded", type |-> "application/zip"]

(* The same without an ID, and the random number that stands for it.       *)
NoId(it, random) ==
  [field \in (DOMAIN it \ {"id"}) \cup {"random"} |->
    IF field = "random" THEN random ELSE it[field]]

Release ==
  [kind |-> "release", ok |-> TRUE, repo |-> "org/repo", action |-> "published",
   name |-> "v1",
   assets |-> {Asset("app.zip", 2), NoId(Asset("app-2.zip", 3), 33),
               [Asset("app.zip", 4) EXCEPT !.state = "starter"],
               [Asset("notes", 5) EXCEPT !.type = "text/plain"]}]

Artifact(name, id) == [name |-> name, id |-> id, ok |-> TRUE, expired |-> FALSE]

Run ==
  [kind |-> "workflow", ok |-> TRUE, repo |-> "org/repo", status |-> "completed",
   conclusion |-> "success", path |-> "build.yaml", workflow |-> "build.yaml",
   actor |-> "alice", id |-> 6, sha |-> "abc",
   artifacts |-> {Artifact("app-1", 7), Artifact("logs", 8),
                  [Artifact("app-1", 9) EXCEPT !.expired = TRUE],
                  [Artifact("app-1", 10) EXCEPT !.ok = FALSE]}]

Pattern(regexp, destinations) == [regexp |-> regexp, destinations |-> destinations]

TheConfig ==
  [repo \in {"org/repo"} |->
    [containers |-> [name \in {"app"} |-> {"images"}],
     releases |->
       {[regexp |-> [name \in {"v1"} |-> "1"],
         assets |-> {Pattern([name \in {"app.zip", "notes"} |-> Whole], {"generic"}),
                     Pattern([name \in {"app.zip"} |-> Whole], {"mirror"}),
                     Pattern([name \in {"app-2.zip"} |-> "2"], {"generic"})}]},
     workflows |->
       [path \in {"build.yaml"} |->
         [actors |-> {"alice"},
          artifacts |-> {Pattern([name \in {"app-1"} |-> Whole], {"generic"})}]]]]

SampleEvents ==
  [package |-> Package,
   release |-> Release,
   releaseAgain |-> Release,
   run |-> Run,
   runByOther |-> [Run EXCEPT !.actor = "bob"],
   malformed |-> [Package EXCEPT !.ok = FALSE]]
=============================================================================
