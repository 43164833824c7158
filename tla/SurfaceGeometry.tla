--------------------------- MODULE SurfaceGeometry ---------------------------
(***************************************************************************)
(* The shape of the guest's render surface: scene geometry and layout on   *)
(* the main thread of src/native/window_ios.m, the debounced resize and    *)
(* the movie's orientation with its lock, and the engine's frame loop,     *)
(* which takes the requests and resizes the surface (main.c).              *)
(*                                                                         *)
(* A shape is an orientation and the long side that goes with the aspect   *)
(* of the window; the short side never changes.  A main-thread handler is  *)
(* cut where it reads an atomic of the engine and acts on it later.        *)
(***************************************************************************)
EXTENDS Naturals

CONSTANTS
    Longs           \* long sides of the surface that the windows ask for: 1 or more

VARIABLES
    scene,          \* the shape of the window
    surface,        \* SURFACE_W and SURFACE_H
    movie,          \* MOVIE_LANDSCAPE
    lock,           \* ORIENTATION_LOCK
    longRequest,    \* SURFACE_LONG_REQUEST; 0: none
    turnRequest,    \* SURFACE_ORIENTATION_REQUEST, a set of at most one
    timer,          \* SCHEDULED_LONG_SIDE of the debounce block in force; 0: none
    unlocks,        \* blocks of request_game_orientation_after_unlock to run
    asked,          \* geometry requests that UIKit has not answered
    main,           \* where the main thread is in a handler
    engine,         \* where the engine is
    taken,          \* the shape the engine is about to set
    tame            \* never changes: UIKit denies no request and an unlock comes
                    \* before 60 times 16 ms, and a movie, and the time between
                    \* two, lasts a frame at least

mainVars == <<timer, unlocks, asked, main>>
engineVars == <<engine, taken>>
vars == <<scene, surface, movie, lock, longRequest, turnRequest, mainVars, engineVars>>

Shapes == [landscape : BOOLEAN, long : Longs]
Idle == [at |-> "idle", lock |-> FALSE, geometry |-> FALSE]

(* After mr_win_open, in portrait and laid out. *)
Init ==
    /\ scene \in [landscape : {FALSE}, long : Longs]
    /\ surface \in [landscape : {FALSE}, long : Longs]
    /\ movie = FALSE /\ lock = TRUE
    /\ longRequest = 0 /\ turnRequest = {}
    /\ timer = IF scene.long = surface.long THEN 0 ELSE scene.long
    /\ unlocks = {} /\ asked = {}
    /\ main = Idle
    /\ engine = "guest" /\ taken = surface
    /\ tame \in BOOLEAN

MainIdle == main = Idle
Matches == scene.landscape = movie

-----------------------------------------------------------------------------
(* layout_game_view.  schedule_surface_resize: a shape that is already set   *)
(* cancels what is under way, one that is under way is left alone.           *)
Scheduled_Once(wanted) ==
    IF wanted = surface'.long
    THEN timer' = 0 /\ longRequest' = 0
    ELSE /\ timer' = IF timer # 0 \/ wanted = longRequest THEN timer ELSE wanted
         /\ UNCHANGED longRequest
Scheduled(wanted) ==
    IF wanted = surface'.long
    THEN timer' = 0 /\ longRequest' = 0
    ELSE /\ timer' = IF wanted \in {timer, longRequest} THEN timer ELSE wanted
         /\ UNCHANGED longRequest

(* update_orientation_lock decides on the movie it reads here and stores     *)
(* the lock in its next step.                                                *)
LaidOut(geometry) ==
    /\ Scheduled(scene'.long)
    /\ main' = [at |-> "lock", lock |-> (scene'.landscape = movie), geometry |-> geometry]

StoreLock ==
    /\ main.at = "lock"
    /\ lock' = main.lock
    /\ main' = IF main.geometry THEN [main EXCEPT !.at = "match"] ELSE Idle
    /\ UNCHANGED <<scene, surface, movie, longRequest, turnRequest,
                   timer, unlocks, asked, engineVars>>

(* The window is resized, or turned on request or within the supported       *)
(* orientations, or the scene is activated: mr_ios_scene_geometry_changed.   *)
Turned(shape) == shape.landscape # scene.landscape => shape.landscape \in asked \cup {movie}

GeometryChanged(shape) ==
    /\ MainIdle
    /\ Turned(shape)
    /\ scene' = shape
    /\ asked' = asked \ {shape.landscape}
    /\ UNCHANGED <<surface, movie, lock, turnRequest, unlocks, engineVars>>
    /\ LaidOut(TRUE)

(* The error handler of a request only logs. *)
Denied ==
    /\ ~tame
    /\ asked # {}
    /\ asked' = {}
    /\ UNCHANGED <<scene, surface, movie, lock, longRequest, turnRequest,
                   timer, unlocks, main, engineVars>>

MatchGeometry ==
    /\ main.at = "match"
    /\ main' = Idle
    /\ unlocks' = IF Matches THEN unlocks ELSE unlocks \cup {movie}
    /\ UNCHANGED <<scene, surface, movie, lock, longRequest, turnRequest,
                   timer, asked, engineVars>>

TimerFires ==
    /\ MainIdle
    /\ timer # 0
    /\ longRequest' = timer
    /\ timer' = 0
    /\ UNCHANGED <<scene, surface, movie, lock, turnRequest, unlocks, asked, main, engineVars>>

(* request_game_orientation_after_unlock: again in 16 ms while locked, 60    *)
(* times at most, and obsolete when the movie has changed its mind.          *)
AfterUnlock(landscape) ==
    /\ MainIdle
    /\ landscape \in unlocks
    /\ \/ /\ landscape # movie
          /\ unlocks' = unlocks \ {landscape}
          /\ UNCHANGED <<asked, main>>
       \/ /\ landscape = movie /\ lock
          /\ ~tame
          /\ unlocks' = unlocks \ {landscape}
          /\ UNCHANGED <<asked, main>>
       \/ /\ landscape = movie /\ ~lock
          /\ unlocks' = unlocks \ {landscape}
          /\ IF Matches
             THEN main' = [at |-> "lock", lock |-> TRUE, geometry |-> FALSE] /\ UNCHANGED asked
             ELSE asked' = {movie} /\ UNCHANGED main
    /\ UNCHANGED <<scene, surface, movie, lock, longRequest, turnRequest, timer, engineVars>>

-----------------------------------------------------------------------------
(* mr_win_set_movie_orientation, from guest code: the movie and the request, *)
(* then the lock and the block for the main queue.                           *)
SetMovie ==
    /\ engine = "guest"
    /\ tame => turnRequest = {}
    /\ movie' = ~movie
    /\ turnRequest' = {movie'}
    /\ engine' = "unlock"
    /\ UNCHANGED <<scene, surface, lock, longRequest, mainVars, taken>>

Unlock ==
    /\ engine = "unlock"
    /\ lock' = FALSE
    /\ unlocks' = unlocks \cup {movie}
    /\ engine' = "guest"
    /\ UNCHANGED <<scene, surface, movie, longRequest, turnRequest, timer, asked, main, taken>>

(* apply_surface_geometry at the top of a frame. *)
WantedShape_OneAtATime ==
    [landscape |-> IF turnRequest = {} \/ longRequest # 0 THEN surface.landscape
                   ELSE CHOOSE turn \in turnRequest : TRUE,
     long |-> IF longRequest = 0 THEN surface.long ELSE longRequest]
WantedShape ==
    [landscape |-> IF turnRequest = {} THEN surface.landscape
                   ELSE CHOOSE turn \in turnRequest : TRUE,
     long |-> IF longRequest = 0 THEN surface.long ELSE longRequest]

TakeRequests ==
    /\ engine = "guest"
    /\ turnRequest' = {} /\ longRequest' = 0
    /\ taken' = WantedShape
    /\ engine' = IF WantedShape = surface THEN "guest" ELSE "store"
    /\ UNCHANGED <<scene, surface, movie, lock, mainVars>>

(* mr_win_set_surface_size: the size is stored, and the main thread lays     *)
(* the view out while the engine waits.                                      *)
StoreSize ==
    /\ engine = "store"
    /\ surface' = taken
    /\ engine' = "layout"
    /\ UNCHANGED <<scene, movie, lock, longRequest, turnRequest, mainVars, taken>>

SyncLayout ==
    /\ engine = "layout" /\ MainIdle
    /\ engine' = "guest"
    /\ UNCHANGED <<scene, surface, movie, lock, turnRequest, unlocks, asked, taken>>
    /\ LaidOut(FALSE)

-----------------------------------------------------------------------------
Main ==
    \/ \E shape \in Shapes : GeometryChanged(shape)
    \/ StoreLock \/ MatchGeometry \/ TimerFires \/ Denied
    \/ \E landscape \in BOOLEAN : AfterUnlock(landscape)

Engine == SetMovie \/ Unlock \/ TakeRequests \/ StoreSize \/ SyncLayout

Next == (Main \/ Engine) /\ UNCHANGED tame

Spec == Init /\ [][Next]_<<vars, tame>>

TypeOK ==
    /\ scene \in Shapes /\ surface \in Shapes /\ taken \in Shapes
    /\ movie \in BOOLEAN /\ lock \in BOOLEAN
    /\ longRequest \in Longs \cup {0} /\ timer \in Longs \cup {0}
    /\ turnRequest \subseteq BOOLEAN /\ unlocks \subseteq BOOLEAN /\ asked \subseteq BOOLEAN
    /\ main \in [at : {"idle", "lock", "match"}, lock : BOOLEAN, geometry : BOOLEAN]
    /\ engine \in {"guest", "unlock", "store", "layout"}
    /\ tame \in BOOLEAN

-----------------------------------------------------------------------------
(* Fairness: the main queue serves its blocks and timers, UIKit grants what  *)
(* is asked for, and the engine keeps making frames.                         *)
Granted == \E turn \in asked : GeometryChanged([scene EXCEPT !.landscape = turn])

Fairness ==
    /\ WF_vars(StoreLock) /\ WF_vars(MatchGeometry)
    /\ SF_vars(TimerFires)
    /\ \A landscape \in BOOLEAN : SF_vars(AfterUnlock(landscape))
    /\ SF_vars(Granted)
    /\ WF_vars(Unlock) /\ SF_vars(TakeRequests) /\ WF_vars(StoreSize) /\ SF_vars(SyncLayout)

FairSpec == Spec /\ Fairness

(* Once the window has its size, the surface gets the aspect of the window,  *)
(* whatever sizes in between were scheduled, requested or half applied.      *)
SurfaceFollowsWindow ==
    \A long \in Longs : <>[](scene.long = long) => <>[](surface.long = long)

(* Once the movie has settled, the surface has its orientation. *)
SurfaceFollowsMovie ==
    \A turn \in BOOLEAN : <>[](movie = turn) => <>[](surface.landscape = turn)

(* Once the movie has settled, a tame UIKit leaves the scene turned and      *)
(* locked that way: a stale lock stored by the main thread does not stay.    *)
SceneFollowsMovie ==
    tame => \A turn \in BOOLEAN : <>[](movie = turn) => <>[](scene.landscape = turn /\ lock)

(* Surface and scene follow the movie alike. *)
GeometryFollowsMovie == SurfaceFollowsMovie /\ SceneFollowsMovie
=============================================================================
