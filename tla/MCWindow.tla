------------------------------- MODULE MCWindow -------------------------------
(* Small instances of the two halves of the window of iOS: its frames and      *)
(* touches, and the shape of the surface.  Neither reads what the other keeps, *)
(* so a behaviour is one of the two (part) and the other half rests.           *)
EXTENDS Window
VARIABLES part, scene, shape, movie, lock, longRequest, turnRequest, timer,
          unlocks, asked, main, loop, taken, tame

Surface == INSTANCE SurfaceGeometry WITH Longs <- {1, 2}, surface <- shape, engine <- loop
surfaceVars == <<scene, shape, movie, lock, longRequest, turnRequest, timer, unlocks, asked,
                 main, loop, taken, tame>>

MCInit ==
    /\ part \in {"window", "surface"}
    /\ WindowInit /\ Surface!Init
    /\ part = "window" => scene.long = 1 /\ shape.long = 1 /\ tame
    /\ part = "surface" => layer = 1

MCNext ==
    /\ UNCHANGED part
    /\ \/ part = "window" /\ WindowNext /\ UNCHANGED surfaceVars
       \/ part = "surface" /\ Surface!Next /\ UNCHANGED window

(* The fairness of each half is that of its own module. *)
MCSpec ==
    /\ MCInit /\ [][MCNext]_<<part, window, surfaceVars>>
    /\ \/ part = "window" /\ Fairness
       \/ part = "surface" /\ Surface!Fairness
-----------------------------------------------------------------------------
(* SurfaceGeometry: the surface gets the size of the window, and with the      *)
(* scene the orientation of the movie.                                         *)
SurfaceFollowsWindow == part = "surface" => Surface!SurfaceFollowsWindow
GeometryFollowsMovie == part = "surface" => Surface!GeometryFollowsMovie
=============================================================================
