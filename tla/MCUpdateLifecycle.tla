-------------------------- MODULE MCUpdateLifecycle --------------------------
(***************************************************************************)
(* Small instances of UpdateLifecycle for TLC.  f is the factory image, g  *)
(* is a sound image, p panics, m never brings up the network, and x is     *)
(* sound but signed by the Director alone.                                 *)
(***************************************************************************)
EXTENDS UpdateLifecycle, TLC

CONSTANTS f, g, p, x, m, c1, c2, c3

\* A sound assignment and one that only the Director signs.
CosignedOrNot == c1 :> g @@ c2 :> x

\* A sound assignment and one that panics.
SoundOrPanics == c1 :> g @@ c2 :> p

\* A sound image, one that panics, and back to the factory image.
SoundPanicsFactory == c1 :> g @@ c2 :> p @@ c3 :> f

\* A sound image and one that boots and cannot reach the network.
SoundOrMute == c1 :> g @@ c2 :> m
=============================================================================
