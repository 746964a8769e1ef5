----------------------- MODULE MCRealmInputController -----------------------
(* The instance of RealmInputController for TLC. *)
EXTENDS RealmInputController

\* What follows a RELEASE_ALL that was lost is the subject of input_takeover:
\* such a state is checked, and not continued.
ReleasesArrive == ~lost
=============================================================================
