------------------------------- MODULE GlState -------------------------------
(* The copies of GL state in shim_gl.c.  A call of the game that would change  *)
(* nothing is skipped, and an image that is uploaded again in the same shape   *)
(* goes into the storage it has: both decide on copies (shadow) of what the    *)
(* driver has.  The host presents between two frames behind their back.  The   *)
(* calls of the game are valid ones; the driver is external.                   *)
EXTENDS Integers, FiniteSets
CONSTANTS Units, Textures, Buffers, Programs,   \* names of objects of the game
          Shapes,                               \* size and format of an image
          Half(_),                              \* shape of the next mipmap level
          META_SLOTS                            \* TEXTURE_META_SLOTS
VARIABLES driver,  \* active, bound, buffer, program, caps, image
          shadow,  \* the same, and meta: the shapes that were stored
          mipmapped   \* ghost: images the driver generated, since they were stored
vars == <<driver, shadow, mipmapped>>
-----------------------------------------------------------------------------
None == 0             \* no object
Unknown == -1         \* no program: the one in use is not known
Unset == "unset"      \* an image that was never specified
Copied == "copied"    \* the record of glCopyTexImage2D: it matches no upload
Levels == {0, 1}
Targets == {"array", "element"}
Caps == {"scissor", "dither", "blend"}
Images == Textures \X Levels
FirstUnit == CHOOSE u \in Units : \A v \in Units : u <= v

Init ==
    LET same == [active |-> FirstUnit, bound |-> [u \in Units |-> None],
                 buffer |-> [t \in Targets |-> None]]
        fresh == [program |-> None, caps |-> [c \in Caps |-> c = "dither"], image |-> [i \in Images |-> Unset]]
        unknown == [program |-> Unknown, caps |-> [c \in {} |-> FALSE], meta |-> [i \in {} |-> Unset]]
    IN  /\ driver = [f \in DOMAIN same \cup DOMAIN fresh |-> IF f \in DOMAIN same THEN same[f] ELSE fresh[f]]
        /\ shadow = [f \in DOMAIN same \cup DOMAIN unknown |-> IF f \in DOMAIN same THEN same[f] ELSE unknown[f]]
        /\ mipmapped = {}

Skip == UNCHANGED <<driver, shadow>>

t_glActiveTexture(u) ==
    /\ IF shadow.active = u THEN Skip
       ELSE driver' = [driver EXCEPT !.active = u] /\ shadow' = [shadow EXCEPT !.active = u]
    /\ UNCHANGED mipmapped

bound_texture == shadow.bound[shadow.active]
t_glBindTexture(t) ==
    /\ IF bound_texture = t THEN Skip
       ELSE /\ driver' = [driver EXCEPT !.bound[driver.active] = t]
            /\ shadow' = [shadow EXCEPT !.bound[shadow.active] = t]
    /\ UNCHANGED mipmapped

Unbound(bound, o) == [u \in DOMAIN bound |-> IF bound[u] = o THEN None ELSE bound[u]]

t_glBindBuffer(target, b) ==
    /\ IF shadow.buffer[target] = b THEN Skip
       ELSE /\ driver' = [driver EXCEPT !.buffer[target] = b]
            /\ shadow' = [shadow EXCEPT !.buffer[target] = b]
    /\ UNCHANGED mipmapped

t_glDeleteBuffers(b) ==
    /\ driver' = [driver EXCEPT !.buffer = Unbound(@, b)]
    /\ shadow' = [shadow EXCEPT !.buffer = Unbound(@, b)]
    /\ UNCHANGED mipmapped

\* A mutation: only the first level is forgotten.
texture_meta_remove_First(t) == [i \in DOMAIN shadow.meta \ {<<t, 0>>} |-> shadow.meta[i]]
\* A deleted texture loses its images, and is unbound from every unit.
texture_meta_remove(t) == [i \in {j \in DOMAIN shadow.meta : j[1] # t} |-> shadow.meta[i]]
t_glDeleteTextures(t) ==
    /\ driver' = [driver EXCEPT !.bound = Unbound(@, t), !.image = [i \in Images |-> IF i[1] = t THEN Unset ELSE @[i]]]
    /\ shadow' = [shadow EXCEPT !.bound = Unbound(@, t), !.meta = texture_meta_remove(t)]
    /\ mipmapped' = {i \in mipmapped : i[1] # t}

\* texture_meta_store: the slot of the image, else one of a deleted or no
\* image; a full table records nothing.
texture_meta_store(i, shape) ==
    LET meta == shadow.meta
    IN  IF i[1] = None \/ (i \notin DOMAIN meta /\ Cardinality(DOMAIN meta) >= META_SLOTS) THEN meta
        ELSE [j \in DOMAIN meta \cup {i} |-> IF j = i THEN shape ELSE meta[j]]
texture_meta_matches(i, shape) == i \in DOMAIN shadow.meta /\ shadow.meta[i] = shape
Specified(level, shape) ==
    LET t == driver.bound[driver.active]
    IN  IF t = None THEN driver.image ELSE [driver.image EXCEPT ![<<t, level>>] = shape]

\* t_glTexImage2D, t_glCompressedTexImage2D: a new image, or the pixels of the
\* one there is when it has the shape already and pixels are given.
t_glTexImage2D(level, shape, pixels) ==
    LET i == <<bound_texture, level>>
    IN  IF pixels /\ texture_meta_matches(i, shape) THEN Skip /\ UNCHANGED mipmapped
        ELSE /\ driver' = [driver EXCEPT !.image = Specified(level, shape)]
             /\ shadow' = [shadow EXCEPT !.meta = texture_meta_store(i, shape)]
             /\ mipmapped' = mipmapped \ {i}

t_glCopyTexImage2D(level, shape) ==
    /\ driver' = [driver EXCEPT !.image = Specified(level, shape)]
    /\ shadow' = [shadow EXCEPT !.meta = texture_meta_store(<<bound_texture, level>>, Copied)]
    /\ mipmapped' = mipmapped \ {<<bound_texture, level>>}

\* glGenerateMipmap is forwarded: the table does not learn of it.
glGenerateMipmap ==
    LET t == driver.bound[driver.active]
    IN  /\ t # None /\ driver.image[<<t, 0>>] # Unset
        /\ driver' = [driver EXCEPT !.image[<<t, 1>>] = Half(driver.image[<<t, 0>>])]
        /\ mipmapped' = mipmapped \cup {<<t, 1>>}
        /\ UNCHANGED shadow

\* t_glUseProgram, t_glDeleteProgram: a program in use stays in use.
t_glUseProgram(p) ==
    /\ IF shadow.program = p THEN Skip
       ELSE driver' = [driver EXCEPT !.program = p] /\ shadow' = [shadow EXCEPT !.program = p]
    /\ UNCHANGED mipmapped
t_glDeleteProgram(p) ==
    /\ shadow' = [shadow EXCEPT !.program = IF @ = p THEN Unknown ELSE @]
    /\ UNCHANGED <<driver, mipmapped>>

set_cap(c, on) ==
    /\ IF c \in DOMAIN shadow.caps /\ shadow.caps[c] = on THEN Skip
       ELSE /\ driver' = [driver EXCEPT !.caps[c] = on]
            /\ shadow' = [shadow EXCEPT !.caps = [d \in DOMAIN @ \cup {c} |-> IF d = c THEN on ELSE @[d]]]
    /\ UNCHANGED mipmapped

\* mr_gl_blit_to_window: scissoring and dithering are off for the blits,
\* draw_hud scissors its glyphs, and both are given back.
draw_hud(caps) ==
    LET drawing == [caps EXCEPT !["scissor"] = TRUE]
    IN  IF caps["scissor"] THEN drawing ELSE [drawing EXCEPT !["scissor"] = FALSE]
mr_gl_blit_to_window ==
    LET off == [c \in Caps |-> c \notin {"scissor", "dither"} /\ driver.caps[c]]
        hud == draw_hud(off)
    IN  /\ driver' = [driver EXCEPT !.caps = [c \in Caps |-> hud[c] \/ (c \in {"scissor", "dither"} /\ @[c])]]
        /\ UNCHANGED <<shadow, mipmapped>>

TextureCall ==
    \/ \E u \in Units : t_glActiveTexture(u)
    \/ \E t \in Textures \cup {None} : t_glBindTexture(t)
    \/ \E t \in Textures : t_glDeleteTextures(t)
    \/ \E level \in Levels, shape \in Shapes :
          (\E pixels \in BOOLEAN : t_glTexImage2D(level, shape, pixels)) \/ t_glCopyTexImage2D(level, shape)
    \/ glGenerateMipmap
StateCall ==
    \/ \E target \in Targets, b \in Buffers \cup {None} : t_glBindBuffer(target, b)
    \/ \E b \in Buffers : t_glDeleteBuffers(b)
    \/ \E p \in Programs \cup {None} : t_glUseProgram(p) \/ t_glDeleteProgram(p)
    \/ \E c \in Caps, on \in BOOLEAN : set_cap(c, on)
    \/ mr_gl_blit_to_window

Next == TextureCall \/ StateCall
Spec == Init /\ [][Next]_vars
-----------------------------------------------------------------------------
(* What the shim believes is what the driver has, whatever was deleted, bound  *)
(* again or presented in between: so every call that is skipped would have had *)
(* no effect, pointers are taken for offsets only when a buffer is bound, and  *)
(* an upload that reuses the storage of an image finds it in its own shape.    *)
(* (The record of a level that the driver has generated since is out of date,  *)
(* until the level is stored again: an upload in the shape of the record goes  *)
(* into the storage of another.)                                               *)
ShadowsAreTrue ==
    /\ shadow.active = driver.active /\ shadow.bound = driver.bound /\ shadow.buffer = driver.buffer
    /\ shadow.program \in {Unknown, driver.program}
    /\ \A c \in DOMAIN shadow.caps : shadow.caps[c] = driver.caps[c]
    /\ \A i \in DOMAIN shadow.meta :
          i \notin mipmapped => shadow.meta[i] \in {Copied, driver.image[i]}
=============================================================================
