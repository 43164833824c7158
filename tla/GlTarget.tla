------------------------------ MODULE GlTarget ------------------------------
(* The framebuffers of shim_gl.c: the engine draws into an offscreen target,   *)
(* which may be multisampled; presenting and reading back resolve it into      *)
(* another one and discard its samples.  A content is the number of draws of   *)
(* the current frame it holds; what GL leaves undefined is Undefined.          *)
EXTENDS Naturals
CONSTANTS MaxDraws,    \* bound on the draws of a frame
          ReadsBack    \* the game reads the multisampled target back
VARIABLES SAMPLES,     \* the target is multisampled
          draw, read,  \* GL_DRAW_FRAMEBUFFER and GL_READ_FRAMEBUFFER
          content,     \* framebuffer -> draws it holds
          bound,       \* ghost: what the game has bound
          asked,       \* ghost: the draws it made for the screen in this frame
          shown,       \* ghost: the last frame: draws made, and draws seen
          capture      \* none, or what the last startup capture saw
target == <<SAMPLES, draw, read, content, bound, asked, shown, capture>>
-----------------------------------------------------------------------------
Undefined == MaxDraws + 1
Framebuffers == {"DEF_FBO", "RESOLVE_FBO", "own", "window"}
NotBegun == Undefined       \* the frame has not cleared its target yet

\* ensure_target: the first target, with the samples the hardware has.
Init ==
    /\ SAMPLES \in BOOLEAN
    /\ draw = "DEF_FBO" /\ read = "DEF_FBO" /\ bound = "DEF_FBO"
    /\ content = [f \in Framebuffers |-> Undefined]
    /\ asked = NotBegun /\ shown = [asked |-> 0, seen |-> 0, captured |-> 0]
    /\ capture = "none"

\* t_glBindFramebuffer: framebuffer 0 of the game is the target.
t_glBindFramebuffer(f) ==
    /\ draw' = f /\ read' = f /\ bound' = f
    /\ UNCHANGED <<SAMPLES, content, asked, shown, capture>>

\* A frame clears the framebuffer before it draws: of the screen, once.
t_glClear ==
    /\ content' = [content EXCEPT ![draw] = 0]
    /\ IF bound = "DEF_FBO" THEN asked = NotBegun /\ asked' = 0 ELSE UNCHANGED asked
    /\ UNCHANGED <<SAMPLES, draw, read, bound, shown, capture>>

More(n) == IF n < MaxDraws THEN n + 1 ELSE n
t_glDrawElements ==
    /\ bound = "DEF_FBO" => asked < MaxDraws
    /\ content' = [content EXCEPT ![draw] = More(@)]
    /\ asked' = IF bound = "DEF_FBO" THEN More(asked) ELSE asked
    /\ UNCHANGED <<SAMPLES, draw, read, bound, shown, capture>>

\* resolved_target: the state of the bindings and contents after it.
Resolved(s) ==
    IF SAMPLES
    THEN [s EXCEPT !.read = "DEF_FBO", !.draw = "RESOLVE_FBO",
                   !.content = [@ EXCEPT !["RESOLVE_FBO"] = s.content["DEF_FBO"], !["DEF_FBO"] = Undefined]]
    ELSE [s EXCEPT !.read = "DEF_FBO", !.draw = "DEF_FBO"]
source == IF SAMPLES THEN "RESOLVE_FBO" ELSE "DEF_FBO"
Now == [read |-> read, draw |-> draw, content |-> content]
Becomes(s) == read' = s.read /\ draw' = s.draw /\ content' = s.content

\* t_glReadPixels, t_glCopyTexImage2D, t_glCopyTexSubImage2D: read_source_begin
\* resolves the target if it is the source, read_source_end binds it again.
ReadPixels ==
    /\ SAMPLES => ReadsBack
    /\ Becomes([(IF SAMPLES /\ read = "DEF_FBO" THEN Resolved(Now) ELSE Now) EXCEPT !.read = read])
    /\ UNCHANGED <<SAMPLES, bound, asked, shown, capture>>

\* mr_gl_blit_to_window: samples of the right size go to the window directly,
\* if they are not wanted for the startup capture, which reads the resolved ones.
mr_gl_blit_to_window(one_to_one, capturing) ==
    LET direct == SAMPLES /\ one_to_one /\ ~capturing
        s == IF direct THEN [Now EXCEPT !.content = [@ EXCEPT !["DEF_FBO"] = Undefined]] ELSE Resolved(Now)
        picture == IF direct THEN content["DEF_FBO"] ELSE s.content[source]
    IN  [s EXCEPT !.read = IF direct THEN "DEF_FBO" ELSE source, !.draw = "window",
                  !.content = [@ EXCEPT !["window"] = picture]]

\* capture_startup_frame: black if nothing was drawn; the picture may not be saved.
capture_startup_frame(picture) ==
    {"failed"} \cup (IF picture = 0 THEN {"black"} ELSE IF picture = Undefined THEN {"black", "visible"}
                     ELSE {"visible"})

\* A mutation: the window stays bound.
mr_gl_restore_target_None(s) == [s EXCEPT !.read = "DEF_FBO"]
mr_gl_restore_target(s) == [s EXCEPT !.read = "DEF_FBO", !.draw = "DEF_FBO"]

\* mr_win_present at the end of a frame; the content of the window is gone.  The
\* frame is captured when the menu is there, until a picture shows something.
mr_win_present(one_to_one, menu_signal) ==
    LET capturing == menu_signal /\ capture # "visible"
        s == mr_gl_blit_to_window(one_to_one, capturing)
        picture == s.content[source]
    IN  /\ asked # NotBegun
        /\ shown' = [asked |-> asked, seen |-> s.content["window"],
                     captured |-> IF capturing THEN picture ELSE asked]
        /\ IF capturing THEN capture' \in capture_startup_frame(picture) ELSE UNCHANGED capture
        /\ Becomes(mr_gl_restore_target([s EXCEPT !.content = [@ EXCEPT !["window"] = Undefined]]))
        /\ bound' = "DEF_FBO"
        /\ asked' = NotBegun
        /\ UNCHANGED SAMPLES

\* mr_gl_init for another size, between two frames: the storage is new, and
\* multisampling is given up when the hardware cannot do it in that size.
Resize ==
    /\ asked = NotBegun
    /\ SAMPLES' \in {SAMPLES, FALSE}
    /\ Becomes([Now EXCEPT !.read = "DEF_FBO", !.draw = "DEF_FBO",
                           !.content = [@ EXCEPT !["DEF_FBO"] = Undefined, !["RESOLVE_FBO"] = Undefined]])
    /\ bound' = "DEF_FBO"
    /\ UNCHANGED <<asked, shown, capture>>

\* A capture that cannot be saved ends the game.
Next ==
    /\ capture # "failed"
    /\ \/ \E f \in {"DEF_FBO", "own"} : t_glBindFramebuffer(f)
       \/ t_glClear \/ t_glDrawElements \/ ReadPixels \/ Resize
       \/ \E one_to_one, menu_signal \in BOOLEAN : mr_win_present(one_to_one, menu_signal)
Spec == Init /\ [][Next]_target
-----------------------------------------------------------------------------
(* A frame that is presented shows every draw the game made for the screen     *)
(* since it cleared it, on whatever path it reached the drawable, after        *)
(* renders to textures and after resizes.  "The engine renders to an offscreen *)
(* target.  The host completes that render, fits it to the drawable, ..., and  *)
(* restores the engine target." (ARCHITECTURE.md, Graphics)  So does the       *)
(* picture of the startup capture, which is read before the frame is shown.    *)
FramesAreComplete == shown.seen = shown.asked /\ shown.captured = shown.asked
=============================================================================
