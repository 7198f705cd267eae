---------------------------- MODULE AtomicVolume ----------------------------
(***************************************************************************)
(* What the container's durable volume promises its users, with no journal *)
(* and no files: whenever the appliance serves it serves one whole content.*)
(* While a restore is undecided the content may come back as what it was   *)
(* or as what the archive holds, and as nothing else; a settled volume     *)
(* changes by leased requests only.                                        *)
(***************************************************************************)
CONSTANT Generation

VARIABLES content,  \* the content served last
          choices,  \* the contents the next reopening may serve
          serving   \* the appliance serves

vars == <<content, choices, serving>>

Init == /\ content \in Generation /\ choices = {content} /\ serving = FALSE

\* A restore becomes durable: from now on either content may come back.
Begin(g) == /\ choices = {content} /\ choices' = {content, g}
            /\ UNCHANGED <<content, serving>>

\* The restore is decided for the content that is served.
Settle == /\ serving /\ choices' = {content} /\ UNCHANGED <<content, serving>>

Close == serving' = FALSE /\ UNCHANGED <<content, choices>>

Open == /\ content' \in choices /\ serving' = TRUE /\ UNCHANGED choices

Write(g) == /\ serving /\ choices = {content}
            /\ content' = g /\ choices' = {g} /\ UNCHANGED serving

Next == \/ Close \/ Open \/ Settle
        \/ \E g \in Generation : Begin(g) \/ Write(g)

Spec == Init /\ [][Next]_vars
=============================================================================
