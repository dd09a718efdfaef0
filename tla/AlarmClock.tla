----------------------------- MODULE AlarmClock -----------------------------
(***************************************************************************)
(* What the timer engine promises: a message that asks for a time is ended *)
(* after that time has come, after all that asked for an earlier one, and  *)
(* once; or its request is taken back before.                              *)
(***************************************************************************)
EXTENDS Naturals, Sequences

CONSTANTS Msg, None

VARIABLES
  now,     \* the clock
  due,     \* the time each message has asked for, or None
  ended    \* messages whose time has come, waiting to be dealt with

Init == now = 0 /\ due = [m \in Msg |-> None] /\ ended = <<>>

Tick == now' = now + 1 /\ UNCHANGED <<due, ended>>

Ask(m, time) ==
  /\ due[m] = None /\ \A i \in DOMAIN ended : ended[i] # m
  /\ due' = [due EXCEPT ![m] = time]
  /\ UNCHANGED <<now, ended>>

(* q without its i-th element. *)
Drop(q, i) == [j \in 1 .. Len(q) - 1 |-> IF j < i THEN q[j] ELSE q[j + 1]]

Cancel(m) ==
  /\ due' = [due EXCEPT ![m] = None]
  /\ \/ \E i \in DOMAIN ended : ended[i] = m /\ ended' = Drop(ended, i)
     \/ (\A i \in DOMAIN ended : ended[i] # m) /\ UNCHANGED ended
  /\ UNCHANGED now

Expire(m) ==
  /\ due[m] # None /\ due[m] <= now
  /\ \A x \in Msg : due[x] # None => due[m] <= due[x]
  /\ due' = [due EXCEPT ![m] = None]
  /\ ended' = Append(ended, m)
  /\ UNCHANGED now

Take == ended # <<>> /\ ended' = Tail(ended) /\ UNCHANGED <<now, due>>

Next ==
  \/ Tick \/ Take
  \/ \E m \in Msg : Cancel(m) \/ Expire(m) \/ (due'[m] # None /\ Ask(m, due'[m]))

Spec == Init /\ [][Next]_<<now, due, ended>>
=============================================================================
