-------------------------- MODULE MCJobPipeline --------------------------
(***************************************************************************)
(* Instances of JobPipeline: which job has which file, and which saves     *)
(* which.  d discovers the artifacts a and b; p and q are container        *)
(* packages; fs is a file nobody of the service wrote.                     *)
(***************************************************************************)
EXTENDS JobPipeline, TLC

CONSTANTS d, a, b, p, q, fd, fp, fq, fa, fb, fs

(* discover-... < sync-container-... < sync-workflow-artifact-...          *)
Lexical == fd :> 1 @@ fp :> 2 @@ fq :> 3 @@ fa :> 4 @@ fb :> 5 @@ fs :> 6
Order == [f \in Files |-> Lexical[f]]

(* Every job has a file of its own.                                        *)
OwnFiles == [j \in Jobs |-> (d :> fd @@ p :> fp @@ q :> fq @@ a :> fa @@ b :> fb)[j]]

(* p and q are two tags of one package version and share its file.         *)
TwoTags == [j \in Jobs |-> (d :> fd @@ p :> fp @@ q :> fp @@ a :> fa @@ b :> fb)[j]]

(* a and b are one artifact that two configured patterns match.            *)
TwoPatterns == [j \in Jobs |-> (d :> fd @@ p :> fp @@ q :> fq @@ a :> fa @@ b :> fa)[j]]

Discovered == [j \in Jobs |-> IF j = d THEN Jobs \cap {a, b} ELSE {}]
NoneDiscovered == [j \in Jobs |-> {}]
=============================================================================
