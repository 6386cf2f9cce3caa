------------------------------ MODULE MCAuthCache ------------------------------
(* Instances of AuthCache for TLC.                                            *)
EXTENDS AuthCache, TLC

CONSTANTS short, long

\* One route, that keeps contexts for two units of time.
OneTTL == short :> 2

\* Most routes keep contexts for a short time, the template lists for longer.
FarTTL == short :> 1 @@ long :> 6
=============================================================================
