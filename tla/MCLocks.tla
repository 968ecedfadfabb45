------------------------------- MODULE MCLocks -------------------------------
(* BucketLocks with two repertoires in one run: chosen at the start and      *)
(* kept, all kinds of writers, or resumes of one job among writers, with     *)
(* cancellations.                                                            *)
EXTENDS MCBucketLocks

VARIABLE mix

Mixes == {"writers", "resumes"}
KindsOf(x) == IF x = "writers" THEN {"write", "move", "create", "meta"}
              ELSE {"write", "meta", "resume"}

MixInit == Init /\ mix \in Mixes
MixNext ==
    /\ \E t \in Tasks :
          \/ Start(t) /\ op'[t] \in KindsOf(mix)
          \/ Advance(t)
          \/ mix = "resumes" /\ Cancel(t)
    /\ UNCHANGED mix

MixSpec ==
    /\ MixInit /\ [][MixNext]_<<vars, mix>>
    /\ \A t \in Tasks : WF_vars(Advance(t))
============================================================================
