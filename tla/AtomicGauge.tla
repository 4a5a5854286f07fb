----------------------------- MODULE AtomicGauge -----------------------------
(***************************************************************************)
(* What a gauge promises to the threads that use it: every increment,      *)
(* decrement and set takes effect once, at one moment between its call and *)
(* its return, and get() reads the value of that order.  An entry of a     *)
(* MultiGauge comes to exist, as 0, while some call on its label is open.  *)
(***************************************************************************)
EXTENDS Integers

CONSTANTS Thread, Label, None

\* An operation adds arg to the gauge of its label or sets it to arg.
Operation == [kind : {"add", "set"}, label : Label, arg : Int]

Call == [phase : {"idle", "done"}] \cup [phase : {"open"}, op : Operation]

VARIABLES
    value,      \* what get() returns per label; None: no entry yet
    call        \* per thread: its open call

Init ==
    /\ value \in [Label -> {None, 0}]
    /\ call = [t \in Thread |-> [phase |-> "idle"]]

Effect(op, v) == IF op.kind = "add" THEN v + op.arg ELSE op.arg

Begin(t) ==
    /\ call[t].phase = "idle"
    /\ call'[t].phase = "open"
    /\ call'[t].op \in Operation
    /\ call' = [call EXCEPT ![t] = call'[t]]
    /\ UNCHANGED value

Appear(t) ==
    /\ call[t].phase = "open"
    /\ value[call[t].op.label] = None
    /\ value' = [value EXCEPT ![call[t].op.label] = 0]
    /\ UNCHANGED call

Apply(t) ==
    /\ call[t].phase = "open"
    /\ value[call[t].op.label] # None
    /\ value' = [value EXCEPT ![call[t].op.label] = Effect(call[t].op, @)]
    /\ call' = [call EXCEPT ![t] = [phase |-> "done"]]

Return(t) ==
    /\ call[t].phase = "done"
    /\ call' = [call EXCEPT ![t] = [phase |-> "idle"]]
    /\ UNCHANGED value

Next == \E t \in Thread : Begin(t) \/ Appear(t) \/ Apply(t) \/ Return(t)

Spec == Init /\ [][Next]_<<value, call>>
=============================================================================
