--------------------------- MODULE MCRdLiveThread ---------------------------
(***************************************************************************)
(* An instance of RdLiveThread: two sessions with a context each, so that  *)
(* one session releases while the other detaches, and two CPUs that run    *)
(* handlers on either.                                                     *)
(***************************************************************************)
EXTENDS RdLiveThread, TLC

CONSTANTS t1, t2, s1, s2

MCSessionOf == (t1 :> s1) @@ (t2 :> s2)

=============================================================================
