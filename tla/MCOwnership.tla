---------------------------- MODULE MCOwnership ----------------------------
(* Every call of both platforms' bindings and of the libraries. *)
EXTENDS Ownership

AllPlatforms == {"jni", "napi", "native"}
=============================================================================
