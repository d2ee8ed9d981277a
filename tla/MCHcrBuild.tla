----------------------------- MODULE MCHcrBuild -----------------------------
(***************************************************************************)
(* Small instances of HcrBuild, cut from the build graph of                *)
(* transition-map.ts: Whole is all of it, Fork its last two levels, where  *)
(* two nodes run at once, and Chain its last producer with one consumer.   *)
(***************************************************************************)
EXTENDS HcrBuild, TLC

CONSTANTS r1, r2

Edges(map) == [t \in BuildNodes |-> IF t \in DOMAIN map THEN map[t] ELSE {}]

WholeNodes == {"ARCHITECT", "RESEARCH", "PRD_REVIEWER", "PLANNER",
               "FRONTEND_ENG", "BACKEND_ENG", "REPAIR"}
WholeGraph == Edges([ARCHITECT |-> {"RESEARCH"},
                     RESEARCH |-> {"PRD_REVIEWER"},
                     PRD_REVIEWER |-> {"PLANNER"},
                     PLANNER |-> {"FRONTEND_ENG", "BACKEND_ENG"}])

ForkNodes == {"PLANNER", "FRONTEND_ENG", "BACKEND_ENG", "REPAIR"}
ForkGraph == Edges([PLANNER |-> {"FRONTEND_ENG", "BACKEND_ENG"}])

ChainNodes == {"PLANNER", "FRONTEND_ENG", "REPAIR"}
ChainGraph == Edges([PLANNER |-> {"FRONTEND_ENG"}])

\* Graph orders of startHcrRun and transition-map.ts.
GraphOrder ==
    [t \in BuildNodes |->
        CASE t = "ARCHITECT" -> 1
          [] t = "RESEARCH" -> 2
          [] t = "PRD_REVIEWER" -> 3
          [] t = "PLANNER" -> 4
          [] OTHER -> 5]

Engineers == {"FRONTEND_ENG", "BACKEND_ENG"} \intersect BuildNodes

Symmetric == Permutations({r1, r2})
=============================================================================
