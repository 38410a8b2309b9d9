-------------------------- MODULE DeliveryContract --------------------------
(***************************************************************************)
(* What a buffered client promises about the events it is handed, with the *)
(* threads, the batches and the retry table left out: numbered in the order*)
(* in which they are handed over, they wait in line; a run of them at the  *)
(* head of the line is delivered or given up, out loud; an event may be    *)
(* turned away at the door, out loud too; once closed, the door stays so.  *)
(* What cannot be delivered may be left in line for ever.                  *)
(***************************************************************************)
EXTENDS Naturals, Sequences, Functions

VARIABLES pending, handed, delivered, givenUp, open

vars == <<pending, handed, delivered, givenUp, open>>

Init ==
    /\ pending = <<>>
    /\ handed = 0
    /\ delivered = {}
    /\ givenUp = {}
    /\ open = TRUE

Take ==
    /\ open
    /\ handed' = handed + 1
    /\ pending' = Append(pending, handed')
    /\ UNCHANGED <<delivered, givenUp, open>>

TurnAway ==
    /\ handed' = handed + 1
    /\ givenUp' = givenUp \cup {handed'}
    /\ UNCHANGED <<pending, delivered, open>>

First(n) == SubSeq(pending, 1, n)

LeaveLine(n) == pending' = SubSeq(pending, n + 1, Len(pending))

Deliver(n) ==
    /\ LeaveLine(n)
    /\ delivered' = delivered \cup Range(First(n))
    /\ UNCHANGED <<handed, givenUp, open>>

GiveUp(n) ==
    /\ LeaveLine(n)
    /\ givenUp' = givenUp \cup Range(First(n))
    /\ UNCHANGED <<handed, delivered, open>>

Close ==
    /\ open' = FALSE
    /\ UNCHANGED <<pending, handed, delivered, givenUp>>

Next ==
    \/ Take
    \/ TurnAway
    \/ \E n \in 1..Len(pending) : Deliver(n) \/ GiveUp(n)
    \/ Close

Spec == Init /\ [][Next]_vars
=============================================================================
