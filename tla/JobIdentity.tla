---------------------------- MODULE JobIdentity ----------------------------
(***************************************************************************)
(* What the constructors in job/ make of events, assets and artifacts: a   *)
(* job has the file that its ID names -- its type with the ID of what it   *)
(* is for -- and the version or tag and the destinations, which its ID     *)
(* does not tell.                                                          *)
(*                                                                         *)
(* An asset or artifact need not have an ID.  The number that is drawn     *)
(* instead comes with it, as its field random: a job of the same contents  *)
(* is the same job, whichever number an attempt or a redelivery would draw.*)
(***************************************************************************)
Job(file, version, destinations) ==
  [file |-> file, version |-> version, destinations |-> destinations]

PackageJob(e, destinations) == Job(<<"package", e.id>>, e.tag, destinations)

AssetJob(ghAsset, version, destinations) ==
  Job(IF "id" \in DOMAIN ghAsset
      THEN <<"asset", ghAsset.id>>
      ELSE <<"asset", "noid", ghAsset.random, version, destinations>>,
      version, destinations)

DiscoverJob(e) == Job(<<"discover", e.id>>, "none", {})

ArtifactJob(e, ghArtifact, version, destinations) ==
  Job(IF "id" \in DOMAIN ghArtifact
      THEN <<"artifact", e.id, ghArtifact.id>>
      ELSE <<"artifact", "noid", ghArtifact.random, version, destinations>>,
      version, destinations)
=============================================================================
