------------------------ MODULE MCCredentialRotation ------------------------
(* Two institutions with a backend each, and a guest of the first one.        *)
EXTENDS CredentialRotation

MCServedBy == [founder |-> "b1", guest |-> "b1", other |-> "b2"]
MCDeployed == [founder |-> "key", guest |-> "read-only", other |-> "key"]
=============================================================================
