------------------------------ MODULE MCMeeting ------------------------------
(* Instances of Meeting for TLC.                                              *)
EXTENDS Meeting, TLC

\* One meeting goes through its whole life; the others are only there to have
\* calendar events of their own.
Main == CHOOSE m \in Meetings : TRUE

RaceOps == {call \in Meetings \X AllOps :
              call[1] = Main \/ call[2] \in {"schedule", "googleSync"}}

\* Clients write event ids into the main meeting; the others keep their own.
MainClaims == {Main} \X Events
NoClaims == {}

LifecycleCalls == Meetings \X LifecycleOps

\* Every event, user, date and handler is like any other.
Symmetry == Permutations(Events) \cup Permutations(Users)
            \cup Permutations(Times) \cup Permutations(Workers)
=============================================================================
