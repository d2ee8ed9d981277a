----------------------------- MODULE ReviewedPush -----------------------------
(***************************************************************************)
(* What a user is promised of a push to GitHub ("explicit workspace        *)
(* pushes"): nothing reaches the repository that was not shown in a        *)
(* preview, and a preview reaches it at most once, as it was shown, unless *)
(* it was withdrawn first.                                                 *)
(***************************************************************************)

CONSTANTS
    Pushes,          \* the previews ever made
    Shown,           \* what a preview can show
    Nothing          \* no branch was pushed

VARIABLES
    stage,           \* "none", then "open" until pushed or withdrawn: "closed"
    shown,           \* what the preview showed
    pushed           \* what the repository got of it

reviewVars == <<stage, shown, pushed>>

Init ==
    /\ stage = [p \in Pushes |-> "none"]
    /\ shown \in [Pushes -> Shown]
    /\ pushed = [p \in Pushes |-> Nothing]

\* A preview is made, and any set of open ones is withdrawn with it.
Review(p, x) ==
    /\ stage[p] = "none"
    /\ \E W \in SUBSET {q \in Pushes : stage[q] = "open"} :
        stage' = [q \in Pushes |-> IF q = p THEN "open"
                                   ELSE IF q \in W THEN "closed" ELSE stage[q]]
    /\ shown' = [shown EXCEPT ![p] = x]
    /\ UNCHANGED pushed

Withdraw(p) ==
    /\ stage[p] = "open"
    /\ stage' = [stage EXCEPT ![p] = "closed"]
    /\ UNCHANGED <<shown, pushed>>

Publish(p) ==
    /\ stage[p] = "open"
    /\ stage' = [stage EXCEPT ![p] = "closed"]
    /\ pushed' = [pushed EXCEPT ![p] = shown[p]]
    /\ UNCHANGED shown

Next == \E p \in Pushes : (\E x \in Shown : Review(p, x)) \/ Withdraw(p) \/ Publish(p)

Spec == Init /\ [][Next]_reviewVars
=============================================================================
