------------------------------- MODULE Access -------------------------------
(***************************************************************************)
(* Access to a part of what is shared (src/access.rs).  An access object   *)
(* is a source with a sequence of adaptors around it, innermost first; its *)
(* load makes a guard with a layer for each adaptor that has a guard type  *)
(* of its own.  A reference is the Arc it points into, whether it points   *)
(* at the smart pointer or at the data, and the fields it went through.    *)
(***************************************************************************)
EXTENDS Naturals, Sequences, SequencesExt

CONSTANTS
    Fields,     \* projections: the parts of the data
    ConstData   \* what a Constant holds

\* ArcSwapAny as Access of the pointer T, as Access of the data behind it, or a
\* Constant.
Sources == {"pointer", "direct", "constant"}

\* A pointer to an access, a dyn DynAccess, AccessConvert, or Map with a field.
Adaptors == {"deref", "dyn", "convert"} \cup Fields

\* The guard the source makes: a Guard, a DirectDeref around one, ConstantDeref.
SourceLayers(source) == IF source = "direct" THEN <<"data">> ELSE <<>>

\* A pointer to an access and AccessConvert pass the call on.
Forwarding == {"deref", "convert"}

\* DynAccess boxes the guard it gets, Map adds its projection to it.
AdaptorLayers(w) ==
    IF w = "dyn" THEN <<"box">> ELSE IF w \in Forwarding THEN <<>> ELSE <<w>>

\* Mutant: the newest projection is applied first.
LayersInsideOut(access) ==
    FoldLeft(LAMBDA layers, w : AdaptorLayers(w) \o layers,
             SourceLayers(access.source), access.adaptors)

\* The guard of the whole access, from the inside out.
LayersOf(access) ==
    FoldLeft(LAMBDA layers, w : layers \o AdaptorLayers(w),
             SourceLayers(access.source), access.adaptors)

\* Guard::deref and ConstantDeref::deref.
Borrow(source, v) ==
    [to |-> v, at |-> IF source = "constant" THEN "data" ELSE "pointer", path |-> <<>>]

\* Deref of one more layer: DirectDeref goes on to the data, a box adds nothing,
\* MapGuard applies its projection to what the guard inside derefs to.
DerefLayer(ref, layer) ==
    IF layer = "data" THEN [ref EXCEPT !.at = "data"]
    ELSE IF layer = "box" THEN ref
    ELSE [ref EXCEPT !.at = "data", !.path = Append(@, layer)]

Deref(guard) == FoldLeft(DerefLayer, Borrow(guard.source, guard.val), guard.layers)

\* What an access stands for, however it was put together: the projections in
\* the order in which the Maps were added.
Meaning(access, v) ==
    [to |-> v,
     at |-> IF access.source = "pointer" /\ \A k \in 1 .. Len(access.adaptors) :
                                                access.adaptors[k] \notin Fields
            THEN "pointer" ELSE "data",
     path |-> SelectSeq(access.adaptors, LAMBDA w : w \in Fields)]
=============================================================================
