------------------------------ MODULE Doorbell ------------------------------
(***************************************************************************)
(* What the call tracking of coordinator.py and binary_sensor.py promises  *)
(* to the owner of a home, in terms of what is seen of it: for each key a  *)
(* call that is closed or open, for each unit a bell that is silent or     *)
(* rings.  CallTracking implements this specification.                     *)
(*                                                                         *)
(*   - A call ends together with its own bell: no call is closed while its *)
(*     doorbell still rings.                                               *)
(*   - No step about one unit touches the call or the bell of another.     *)
(*   - Time never leaves a call silent for MaxSilence, open for MaxAge or  *)
(*     a bell ringing for more than RingTime.                              *)
(***************************************************************************)
EXTENDS Naturals

CONSTANTS
  Keys,        \* what a call is kept under
  Units,       \* the keys that have a bell
  Closed,      \* no call
  Silent,      \* no bell
  MaxSilence,  \* an open call is renewed or ended before this silence
  MaxAge,      \* and ended before this age
  RingTime     \* how long a bell rings

VARIABLES call, bell

vars == <<call, bell>>

Init ==
  /\ call = [k \in Keys |-> Closed]
  /\ bell = [u \in Units |-> Silent]

\* A new call, in the place of the one of its unit if there is one.
Open(k) ==
  /\ call' = [call EXCEPT ![k] = [silence |-> 0, age |-> 0]]
  /\ UNCHANGED bell

\* The unit offers an open call again.
Renew(k) ==
  /\ call[k] # Closed
  /\ call' = [call EXCEPT ![k] = [silence |-> 0, age |-> call[k].age]]
  /\ UNCHANGED bell

\* The only way to close a call; the unit may ring without one.
End(k) ==
  /\ call' = [call EXCEPT ![k] = Closed]
  /\ bell' = [u \in Units |-> IF u = k THEN Silent ELSE bell[u]]

Ring(u) ==
  /\ bell' = [bell EXCEPT ![u] = RingTime]
  /\ UNCHANGED call

Silence(u) ==
  /\ bell' = [bell EXCEPT ![u] = Silent]
  /\ UNCHANGED call

\* Time only passes while no call and no bell is overdue.
Tick ==
  /\ \A k \in Keys : call[k] # Closed => /\ call[k].silence + 1 < MaxSilence
                                         /\ call[k].age + 1 < MaxAge
  /\ \A u \in Units : bell[u] # Silent => bell[u] > 0
  /\ call' = [k \in Keys |->
       IF call[k] = Closed THEN Closed
       ELSE [silence |-> call[k].silence + 1, age |-> call[k].age + 1]]
  /\ bell' = [u \in Units |-> IF bell[u] = Silent THEN Silent ELSE bell[u] - 1]

Next ==
  \/ \E k \in Keys : Open(k) \/ Renew(k) \/ End(k)
  \/ \E u \in Units : Ring(u) \/ Silence(u)
  \/ Tick

Spec == Init /\ [][Next]_vars
=============================================================================
