------------------------- MODULE MCRuntimeCredential -------------------------
(* A parent and a child, the sessions they ran in, and tokens that run out.  *)
EXTENDS RuntimeCredential
=============================================================================
