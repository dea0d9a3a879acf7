---------------------------- MODULE MCDcuSession ----------------------------
(* Small instances of DcuSession for TLC.                                   *)
EXTENDS DcuSession, TLC

CONSTANTS c1, c2, c3, c4, c5, c6

\* Instantaneous values of two objects, and of one for the macro, a profile
\* that needs its scales, a command that leaves a state without a case, one that
\* sends nothing, and an automatic profile whose number is the one before.
MCMixed == {c1, c2, c3, c4, c5, c6}
MCMixedKind ==
  (c1 :> "instant") @@ (c2 :> "profile") @@ (c3 :> "relay") @@ (c4 :> "other")
  @@ (c5 :> "instant") @@ (c6 :> "profile")
MCMixedObjects == (c1 :> 2) @@ (c2 :> 1) @@ (c3 :> 1) @@ (c4 :> 1) @@ (c5 :> 1) @@ (c6 :> 1)
MCMixedPerfil ==
  (c1 :> None) @@ (c2 :> 1) @@ (c3 :> None) @@ (c4 :> None) @@ (c5 :> None) @@ (c6 :> None)
MCMixedMacros == {c5}
MCMixedAutomatic == {c6}

\* Profiles of two meters, the events of one, which are never taken, and an
\* automatic profile.
MCProfiles == {c1, c2, c3, c4}
MCProfilesKind == (c1 :> "profile") @@ (c2 :> "profile") @@ (c3 :> "events") @@ (c4 :> "profile")
MCProfilesObjects == (c1 :> 1) @@ (c2 :> 1) @@ (c3 :> 1) @@ (c4 :> 1)
MCProfilesPerfil == (c1 :> 0) @@ (c2 :> 1) @@ (c3 :> 0) @@ (c4 :> -1)
MCProfilesAutomatic == {c4}

\* Instantaneous values of two meters.
MCInstants == {c1, c2}
MCInstantsKind == (c1 :> "instant") @@ (c2 :> "instant")
MCInstantsObjects == (c1 :> 2) @@ (c2 :> 2)
MCInstantsPerfil == (c1 :> None) @@ (c2 :> None)
=============================================================================
