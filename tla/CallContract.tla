------------------------------ MODULE CallContract ------------------------------
(*****************************************************************************)
(* What the callers of a protocol agent rely on, without routers, message    *)
(* ids, timers or callback tables.  A caller makes a call on a target; the   *)
(* promise it holds is settled once: with the backend's answer while the     *)
(* target is still open, with a "connection closed" error after it closed.   *)
(* One kind of call is not covered: one that is handed to a session which no *)
(* longer exists is dropped, and its caller waits for ever.                  *)
(*****************************************************************************)
CONSTANTS Targets,            \* what calls are made on
          Calls,              \* the calls that are ever made
          LongPollingCalls    \* the calls a backend may keep open as long as it likes

VARIABLES open,     \* target -> "none", "live" or "disposed"
          status,   \* call -> "idle", "pending", "dropped", "result" or "closed"
          on        \* call -> the target it was made on; "idle" or "dropped" if on none

vars == <<open, status, on>>

Init == /\ open \in [Targets -> {"none", "live"}]
        /\ status = [c \in Calls |-> "idle"]
        /\ on = [c \in Calls |-> "idle"]

Open(t) == /\ open[t] = "none"
           /\ open' = [open EXCEPT ![t] = "live"]
           /\ UNCHANGED <<status, on>>

\* Targets close together: a parent takes its children with it.
Close(T) == /\ \A t \in T : open[t] = "live"
            /\ open' = [t \in Targets |-> IF t \in T THEN "disposed" ELSE open[t]]
            /\ UNCHANGED <<status, on>>

Make(c, t) == /\ status[c] = "idle"
              /\ open[t] # "none"
              /\ status' = [status EXCEPT ![c] = "pending"]
              /\ on' = [on EXCEPT ![c] = t]
              /\ UNCHANGED open

Drop(c) == /\ status[c] = "idle"
           /\ \E t \in Targets : open[t] = "disposed"
           /\ status' = [status EXCEPT ![c] = "dropped"]
           /\ on' = [on EXCEPT ![c] = "dropped"]
           /\ UNCHANGED open

Settle(c, how) == /\ status[c] = "pending"
                  /\ status' = [status EXCEPT ![c] = how]
                  /\ UNCHANGED <<open, on>>

Return(c) == on[c] \in Targets /\ open[on[c]] = "live" /\ Settle(c, "result")

Fail(c) == on[c] \in Targets /\ open[on[c]] = "disposed" /\ Settle(c, "closed")

Next == \/ \E t \in Targets : Open(t)
        \/ \E T \in SUBSET Targets : Close(T)
        \/ \E c \in Calls : Drop(c) \/ Return(c) \/ Fail(c)
        \/ \E c \in Calls, t \in Targets : Make(c, t)

SafeSpec == Init /\ [][Next]_vars

\* An ordinary call is settled one way or the other.  A long-polling call is
\* settled at the latest when its target closes.
Fairness == /\ \A c \in Calls \ LongPollingCalls : WF_vars(Return(c) \/ Fail(c))
            /\ \A c \in LongPollingCalls : WF_vars(Fail(c))

Spec == SafeSpec /\ Fairness
================================================================================
