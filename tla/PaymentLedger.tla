---------------------------- MODULE PaymentLedger ----------------------------
(***************************************************************************)
(* What the payment path promises, without handlers, locks or messages:    *)
(* an order is pending until it is closed once and for all, and an order   *)
(* that becomes paid buys its user one whole period on top of everything   *)
(* bought before, in the same step.                                        *)
(***************************************************************************)
EXTENDS Integers

CONSTANTS NULL, Users, Orders, PeriodTicks

VARIABLES
  order,   \* by order: its user and its status
  end      \* by user: the end of the period bought so far, NULL if none

Absent == [user |-> NULL, status |-> "absent"]

Init ==
  /\ order = [o \in Orders |-> Absent]
  /\ end \in [Users -> Int \cup {NULL}]

Open(o) ==
  /\ order[o] = Absent
  /\ \E u \in Users :
       order' = [order EXCEPT ![o] = [user |-> u, status |-> "pending"]]
  /\ UNCHANGED end

Close(o) ==
  /\ order[o].status = "pending"
  /\ \E s \in {"expired", "failed", "refunded"} :
       order' = [order EXCEPT ![o].status = s]
  /\ UNCHANGED end

(* A first period may end anywhere; a later one ends a period further on.  *)
Credit(o) ==
  LET u == order[o].user
  IN /\ order[o].status = "pending"
     /\ order' = [order EXCEPT ![o].status = "paid"]
     /\ end'[u] # NULL
     /\ end[u] # NULL => end'[u] >= end[u] + PeriodTicks
     /\ end' = [end EXCEPT ![u] = end'[u]]

Next == \E o \in Orders : Open(o) \/ Close(o) \/ Credit(o)

Spec == Init /\ [][Next]_<<order, end>>
=============================================================================
