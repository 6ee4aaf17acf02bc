------------------------- MODULE MCContainerSync -------------------------
(***************************************************************************)
(* Versions of an image for ContainerSync.  multi is an index of an amd64  *)
(* image and one for arm64 with its attestation, single an amd64 image     *)
(* alone, arms two variants of arm64.  odd holds an index within the       *)
(* index, an image whose platform is not known and what else build tools   *)
(* do not make, blank only such an image.  signature was pushed by its     *)
(* digest, without a tag.                                                  *)
(***************************************************************************)
EXTENDS ContainerSync, TLC

Image(digest, platform) == Descriptor("image", digest, platform, NoDigest)
Attestation(digest, of) == Descriptor("attestation", digest, "unknown/unknown", of)
Index(list) == [index |-> TRUE, manifests |-> list]

TheContent ==
  [v \in Versions |->
    [multi |-> Index(<<Image("a1", "linux/amd64"), Image("b1", "linux/arm64"),
                       Attestation("t1", "b1")>>),
     single |-> [index |-> FALSE, manifests |-> <<Image("a2", "linux/amd64")>>],
     arms |-> Index(<<Image("v8", "linux/arm64/v8"), Image("v9", "linux/arm64/v9")>>),
     odd |-> Index(<<Descriptor("other", "i", NoPlatform, NoDigest),
                     Image("n", NoPlatform), Image("e", ""),
                     Attestation("t3", NoDigest), Attestation("t1", "a1"),
                     Attestation("t2", "a1"), Image("a1", "linux/amd64")>>),
     blank |-> Index(<<Image("n", NoPlatform), Image("a1", "linux/amd64")>>),
     signature |-> [index |-> FALSE, manifests |-> <<Image("s", "linux/amd64")>>]][v]]

ThePlatforms ==
  "a1" :> "linux/amd64" @@ "a2" :> "linux/amd64" @@ "b1" :> "linux/arm64" @@
  "v8" :> "linux/arm64/v8" @@ "v9" :> "linux/arm64/v9" @@
  "t1" :> "unknown/unknown" @@ "t2" :> "unknown/unknown" @@ "t3" :> "unknown/unknown" @@
  "s" :> "linux/amd64" @@ "i" :> NoPlatform @@ "n" :> NoPlatform @@ "e" :> ""

Kinds == {"a1", "a2", "b1", "v8", "v9", "t1", "t2", "t3", "s", "i", "n", "e"}

TheConfig == [d \in Kinds \cup {d \o "'" : d \in Kinds} |->
  IF d \in Kinds THEN ThePlatforms[d]
  ELSE ThePlatforms[CHOOSE k \in Kinds : k \o "'" = d]]

(* Every digest changes.                                                   *)
AllRepacked == [d \in DOMAIN TheConfig |-> IF d \in Kinds THEN d \o "'" ELSE d]

Architectures ==
  "linux/amd64" :> "linux-amd64" @@ "linux/arm64" :> "linux-arm64" @@
  "linux/arm64/v8" :> "linux-arm64" @@ "linux/arm64/v9" :> "linux-arm64" @@
  "unknown/unknown" :> "unknown-unknown" @@ "" :> "-"

AnyOrAmd64 == {{}, {"linux/amd64"}}
=============================================================================
