-------------------------- MODULE MCMetadataCache --------------------------
(* Three sources of one namespace, of which two agree at each path, and one of
   another.  There is room for one file: every store evicts, in its namespace
   or across. *)
EXTENDS MetadataCache, TLC

CONSTANTS s, t, x1, x2, x3, y, p, q

MCNamespace == x1 :> "x" @@ x2 :> "x" @@ x3 :> "x" @@ y :> "y"
MCTree == x1 :> (p :> 1 @@ q :> 1) @@ x2 :> (p :> 1 @@ q :> 2) @@ x3 :> (p :> 2 @@ q :> 2)
          @@ y :> (p :> 1 @@ q :> 1)
MCAudited == s :> {x1, x2} @@ t :> {x3, y}

=============================================================================
