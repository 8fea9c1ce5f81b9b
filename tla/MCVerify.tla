------------------------------ MODULE MCVerify ------------------------------
(* Four hashes for the manifests; three signed lines after one older one.  *)
EXTENDS VerifyInputs

CONSTANTS h1, h2, h3, h4

FourHashes == {h1, h2, h3, h4}
ThreeSigned == <<h2, h3, h4>>
OneOlder == <<h1>>
=============================================================================
