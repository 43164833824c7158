----------------------------- MODULE JniBridge -----------------------------
(* The Java side the engine believes in (jni_bridge.c): classes and methods    *)
(* are interned names, a string or an array is a piece of a ring of scratch    *)
(* memory which is never given back, only written over when the ring comes     *)
(* round.  References are plain addresses, so making and deleting them changes *)
(* nothing.                                                                    *)
EXTENDS Integers, Sequences, SequencesExt, FiniteSets, FiniteSetsExt
CONSTANTS Classes, Names,     \* names the engine asks for
          MAX_NAMES,          \* room in a registry
          Answer(_), Field(_),   \* what the method and the static field of a name
                              \* give: the length of a string, or Nothing
          SCRATCH_SIZE,       \* bytes of the ring, a multiple of eight
          Lengths             \* of the strings and arrays the engine makes
VARIABLES CLASSES, METHODS,   \* the interned names, in order; the handle is the index
          next,      \* SCRATCH_NEXT, from the start of the ring
          recent     \* ghost: the objects made, the last one last
vars == <<CLASSES, METHODS, next, recent>>
-----------------------------------------------------------------------------
Nothing == -1

\* mr_jni_init
Init ==
    /\ CLASSES = <<>> /\ METHODS = <<>>
    /\ next = 0
    /\ recent = <<>>

Rounded(n) == 8 * ((n + 7) \div 8)

\* A mutation: the ring starts anew only at its end.
scratch_alloc_Late(n) == IF next >= SCRATCH_SIZE THEN 0 ELSE next

\* scratch_alloc: where the object goes; the ring starts anew when it does not
\* fit into the rest.
scratch_alloc(n) == IF next + Rounded(n) > SCRATCH_SIZE THEN 0 ELSE next

\* The objects that the new one overlaps are gone; one that is larger than the
\* ring is not made.
Overlap(a, b) == a.at < b.at + b.size /\ b.at < a.at + a.size
Allocate(n) ==
    LET o == [at |-> scratch_alloc(n), size |-> Rounded(n)]
    IN  IF Rounded(n) > SCRATCH_SIZE THEN UNCHANGED <<next, recent>>
        ELSE /\ next' = o.at + o.size
             /\ recent' = Append(SelectSeq(recent, LAMBDA r : ~Overlap(r, o)), o)
guest_string(length) == Allocate(length + 1)
new_array(length, elem_size) == Allocate(4 + length * elem_size)

\* A name that is not known gets the next handle if there is room and its copy
\* is made.
Interned(registry, name) ==
    IF name \in ToSet(registry) THEN {registry}
    ELSE IF Len(registry) < MAX_NAMES THEN {registry, Append(registry, name)} ELSE {registry}
FindClass(name) ==
    /\ CLASSES' \in Interned(CLASSES, name)
    /\ UNCHANGED <<METHODS, next, recent>>
GetMethodID(name) ==
    /\ METHODS' \in Interned(METHODS, name)
    /\ UNCHANGED <<CLASSES, next, recent>>

\* call_method, and the call of an object that is nothing, which gives the
\* empty string; a handle that was never given out has no method.
Handles == 0..MAX_NAMES
call_method(handle) == IF handle \in DOMAIN METHODS THEN Answer(METHODS[handle]) ELSE Nothing
static_field(handle) == IF handle \in DOMAIN METHODS THEN Field(METHODS[handle]) ELSE Nothing
Registered == UNCHANGED <<CLASSES, METHODS>>
CallIntMethod(handle) ==
    /\ call_method(handle) # Nothing /\ guest_string(call_method(handle)) /\ Registered
CallObjectMethod(handle) == guest_string(Max({call_method(handle), 0})) /\ Registered
GetStaticObjectField(handle) ==
    /\ static_field(handle) # Nothing /\ guest_string(static_field(handle)) /\ Registered

NewStringUTF(length) == guest_string(length) /\ Registered
NewArray(length, elem_size) == new_array(length, elem_size) /\ Registered

Next ==
    \/ \E name \in Classes : FindClass(name)
    \/ \E name \in Names : GetMethodID(name)
    \/ \E handle \in Handles :
          CallIntMethod(handle) \/ CallObjectMethod(handle) \/ GetStaticObjectField(handle)
    \/ \E length \in Lengths :
          NewStringUTF(length) \/ \E elem_size \in {1, 4} : NewArray(length, elem_size)

Spec == Init /\ [][Next]_vars
-----------------------------------------------------------------------------
(* A string the engine got from a call is intact until the objects made since, *)
(* it and the unused end of one round together no longer fit into the ring; no *)
(* object reaches beyond the ring.  (scratch_alloc, used by every call that    *)
(* returns a string or an array.)  A handle means the same name forever.       *)
Largest == Max({0} \cup {Rounded(4 + 4 * n) : n \in Lengths})
StringsOutliveARound ==
    [][ /\ next' <= SCRATCH_SIZE
        /\ IsPrefix(METHODS, METHODS') /\ IsPrefix(CLASSES, CLASSES')
        /\ \A i \in DOMAIN recent :
              recent[i] \notin ToSet(recent') =>
                  FoldSeq(LAMBDA o, sum : sum + o.size, Last(recent').size + Largest - 8,
                          SubSeq(recent, i, Len(recent))) > SCRATCH_SIZE
      ]_vars
=============================================================================
