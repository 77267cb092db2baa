----------------------------- MODULE RunContract -----------------------------
(***************************************************************************)
(* What an execution run promises the sponsor: it is opened once, may stop    *)
(* to ask and go on, and is closed once, with one announcement of its         *)
(* outcome, after which nothing moves it again.                               *)
(***************************************************************************)
CONSTANTS Runs, Outcomes

VARIABLES state,       \* run -> "absent", "open", "asking" or its outcome
          announced    \* run -> the outcomes announced for it

vars == <<state, announced>>

Init ==
    /\ state = [r \in Runs |-> "absent"]
    /\ announced = [r \in Runs |-> {}]

Active(r) == state[r] \in {"open", "asking"}

Open(r) ==
    /\ state[r] = "absent"
    /\ \E s \in {"open", "asking"} : state' = [state EXCEPT ![r] = s]
    /\ UNCHANGED announced

Ask(r) == Active(r) /\ state' = [state EXCEPT ![r] = "asking"] /\ UNCHANGED announced

GoOn(r) == Active(r) /\ state' = [state EXCEPT ![r] = "open"] /\ UNCHANGED announced

Close(r) ==
    /\ Active(r) /\ announced[r] = {}
    /\ \E o \in Outcomes : /\ state' = [state EXCEPT ![r] = o]
                           /\ announced' = [announced EXCEPT ![r] = {o}]

Next == \E r \in Runs : Open(r) \/ Ask(r) \/ GoOn(r) \/ Close(r)

Spec == Init /\ [][Next]_vars
=============================================================================
