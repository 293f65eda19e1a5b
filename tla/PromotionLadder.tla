--------------------------- MODULE PromotionLadder ---------------------------
(***************************************************************************)
(* What the promotion of a pattern promises: Research can only put it in   *)
(* the Laboratory or take it out, the Laboratory's evidence can send it to *)
(* review, and only the Director's decision, on a pattern under review and *)
(* on the version of it that Research stored last, puts it in production.  *)
(***************************************************************************)
EXTENDS Naturals

VARIABLES
    stage,     \* "research", "lab", "review" or "production"
    version,   \* how often Research has stored the pattern
    approved   \* the version the Director approved, 0 when none is in force

ladderVars == <<stage, version, approved>>

Init ==
    /\ stage = "research"
    /\ version = 0
    /\ approved = 0

Discover ==
    /\ stage' \in {"research", "lab"}
    /\ version' = version + 1
    /\ approved' = 0

SendToReview ==
    /\ stage = "lab"
    /\ stage' = "review"
    /\ UNCHANGED <<version, approved>>

Approve ==
    /\ stage \in {"review", "production"}
    /\ stage' = "production"
    /\ approved' = version
    /\ UNCHANGED version

Next == Discover \/ SendToReview \/ Approve

Spec == Init /\ [][Next]_ladderVars

==============================================================================
