---------------------------- MODULE OutageLog ----------------------------
(***************************************************************************)
(* What a reader of the outages expects of the prober, whatever the        *)
(* crashes, restarts and reloads behind it: outages come one after the     *)
(* other, never two at a time, and an outage that is over never changes.   *)
(* The compensation, the report and the timeline add their durations up    *)
(* and rely on it.                                                         *)
(***************************************************************************)
EXTENDS Integers, Sequences

CONSTANT Time   \* the dates

VARIABLE log    \* the outages, in the order they were recorded

Ongoing == -1   \* the end of an outage that is not over

Outage(start) == [start |-> start, end |-> Ongoing]

Over(o) == o.end # Ongoing

Init == log = << >>

(* An outage begins when no other goes on, and after the end of each. *)
Begin(t) ==
    /\ \A i \in 1..Len(log) : Over(log[i]) /\ log[i].end <= t
    /\ log' = Append(log, Outage(t))

(* The outage that goes on is the last one; it does not end before it began. *)
End(t) ==
    /\ log # << >> /\ ~Over(log[Len(log)])
    /\ log[Len(log)].start <= t
    /\ log' = [log EXCEPT ![Len(log)].end = t]

Next == \E t \in Time : Begin(t) \/ End(t)

Spec == Init /\ [][Next]_log

(* Two outages share no time. *)
Disjoint ==
    \A i, j \in 1..Len(log) :
        i < j => Over(log[i]) /\ log[i].end <= log[j].start
==========================================================================
