---------------------------- MODULE CommandMailbox ----------------------------
(***************************************************************************)
(* What command delivery to one host promises: a mailbox that is           *)
(* at-most-once and first-in first-out.  An accepted command is either     *)
(* still in the box, delivered, or gone for good; nothing is delivered     *)
(* twice and nothing overtakes.                                            *)
(***************************************************************************)
EXTENDS Naturals, Sequences

CONSTANT Commands

VARIABLES
  accepted,   \* commands ever put into the box
  box,        \* accepted, neither delivered nor lost, in order of acceptance
  delivered   \* the commands delivered so far, in order of delivery

vars == <<accepted, box, delivered>>

Init == accepted = {} /\ box = <<>> /\ delivered = <<>>

Accept(c) ==
  /\ c \notin accepted
  /\ accepted' = accepted \union {c}
  /\ box' = Append(box, c)
  /\ UNCHANGED delivered

\* The oldest n commands are delivered together.
Deliver(n) ==
  /\ delivered' = delivered \o SubSeq(box, 1, n)
  /\ box' = SubSeq(box, n + 1, Len(box))
  /\ UNCHANGED accepted

\* Losing commands keeps one unbroken stretch of the box.
Lose(i, j) ==
  /\ box' = SubSeq(box, i, j)
  /\ UNCHANGED <<accepted, delivered>>

Next ==
  \/ \E c \in Commands : Accept(c)
  \/ \E n \in 1 .. Len(box) : Deliver(n)
  \/ \E i \in 1 .. Len(box) + 1, j \in 0 .. Len(box) : Lose(i, j)

Spec == Init /\ [][Next]_vars
=============================================================================
