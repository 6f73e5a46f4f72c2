-------------------------- MODULE GroupConscience --------------------------
(***************************************************************************)
(* What the Council's machinery promises of one decision, with no seats,   *)
(* approvals or wallets in sight: a decision is opened, becomes binding    *)
(* only a full contest window after it has enough support, can be stopped  *)
(* until then, takes effect once, and is carried out at most once.         *)
(***************************************************************************)
EXTENDS Integers

CONSTANTS
    Decisions,   \* names of the decisions
    Window       \* length of the contest window

VARIABLES
    stage,   \* how far each decision has come
    due,     \* when an armed decision may take effect
    clock

avars == <<stage, due, clock>>

Stages == {"absent", "open", "armed", "stopped", "binding", "done"}

Init ==
    /\ stage = [d \in Decisions |-> "absent"]
    /\ due = [d \in Decisions |-> 0]
    /\ clock = 1

Move(d, from, to) ==
    /\ stage[d] \in from
    /\ stage' = [stage EXCEPT ![d] = to]

Open(d) ==
    /\ Move(d, {"absent"}, "open")
    /\ UNCHANGED <<due, clock>>

\* A decision that one voice suffices for is armed as it is opened.
Arm(d) ==
    /\ Move(d, {"absent", "open"}, "armed")
    /\ due' = [due EXCEPT ![d] = clock + Window]
    /\ UNCHANGED clock

Stop(d) ==
    /\ Move(d, {"open", "armed"}, "stopped")
    /\ UNCHANGED <<due, clock>>

Bind(d) ==
    /\ clock >= due[d]
    /\ Move(d, {"armed"}, "binding")
    /\ UNCHANGED <<due, clock>>

CarryOut(d) ==
    /\ Move(d, {"binding"}, "done")
    /\ UNCHANGED <<due, clock>>

Pass ==
    /\ clock' > clock
    /\ UNCHANGED <<stage, due>>

Next ==
    \/ \E d \in Decisions :
          Open(d) \/ Arm(d) \/ Stop(d) \/ Bind(d) \/ CarryOut(d)
    \/ Pass

Spec == Init /\ [][Next]_avars

=============================================================================
