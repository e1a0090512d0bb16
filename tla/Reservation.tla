---------------------------- MODULE Reservation ----------------------------
(***************************************************************************)
(* What the credit ledger promises about the hours of each training: they  *)
(* are set aside once and settled once, for at most what was set aside,    *)
(* and a settled training is never charged again. TrainingRow implements   *)
(* it for one row, CreditLedger for all the rows of the accounts.          *)
(***************************************************************************)
EXTENDS Integers

CONSTANTS
    Trainings,
    MaxHours      \* hours a start may set aside

VARIABLES
    phase,      \* "none", "held" or "settled"
    hours,      \* set aside
    charge      \* charged, NoCharge until settled

NoCharge == -1

Init ==
    /\ phase \in [Trainings -> {"none", "held"}]
    /\ hours \in [Trainings -> 0..MaxHours]
    /\ \A t \in Trainings : hours[t] = 0 <=> phase[t] = "none"
    /\ charge = [t \in Trainings |-> NoCharge]

Reserve(t) ==
    /\ phase[t] = "none"
    /\ phase' = [phase EXCEPT ![t] = "held"]
    /\ \E h \in 1..MaxHours : hours' = [hours EXCEPT ![t] = h]
    /\ UNCHANGED charge

Settle(t) ==
    /\ phase[t] = "held"
    /\ phase' = [phase EXCEPT ![t] = "settled"]
    /\ \E c \in 0..hours[t] : charge' = [charge EXCEPT ![t] = c]
    /\ UNCHANGED hours

Next == \E t \in Trainings : Reserve(t) \/ Settle(t)

Spec == Init /\ [][Next]_<<phase, hours, charge>>
=============================================================================
