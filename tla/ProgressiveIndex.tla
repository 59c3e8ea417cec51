-------------------------- MODULE ProgressiveIndex --------------------------
(***************************************************************************)
(* What a scan of the chain's events promises, whoever extends it and       *)
(* however often it stops: an index of the facts of the blocks FirstBlock ..     *)
(* upTo.  It only grows, block ranges are never skipped, nothing is         *)
(* invented, and as long as every answer was whole (`sound`) it is          *)
(* complete.  Giving up means starting again from nothing.                  *)
(***************************************************************************)
EXTENDS Integers

CONSTANTS FirstBlock, LastBlock, Facts      \* Facts[b]: the facts of block b

VARIABLES upTo, known, sound

FactsIn(from, to) == UNION {Facts[b] : b \in (from .. to) \cap DOMAIN Facts}

Init == upTo = FirstBlock - 1 /\ known = {} /\ sound = TRUE

Learn ==
    /\ \E to \in upTo + 1 .. LastBlock :
         /\ upTo' = to
         /\ known \subseteq known' /\ known' \subseteq known \union FactsIn(upTo + 1, to)
         /\ sound' => sound /\ FactsIn(upTo + 1, to) \subseteq known'
    /\ sound' \in BOOLEAN

\* A wrong answer that adds nothing.
Doubt == sound' = FALSE /\ UNCHANGED <<upTo, known>>

Forget == upTo' = FirstBlock - 1 /\ known' = {} /\ sound' = TRUE

Next == Learn \/ Doubt \/ Forget

Spec == Init /\ [][Next]_<<upTo, known, sound>>

\* What a reader may rely on.
Complete == sound => known = FactsIn(FirstBlock, upTo)
=============================================================================
