--------------------------- MODULE MCWebRTCSession ---------------------------
(***************************************************************************)
(* Small instances of WebRTCSession for TLC, and what they promise in the  *)
(* end.                                                                    *)
(***************************************************************************)
EXTENDS WebRTCSession, TLC

\* Once the browser has closed every stream for good, the device gets all its
\* peer slots back, but for those whose ack or terminate was lost.
SlotsAreFreed ==
  (<>[] (\A c \in Cameras : haSession[c] = NoStream)) => <>[](peers \subseteq lost)

\* Streams, sessions and cameras are interchangeable.
Symmetry ==
  Permutations(Streams) \cup Permutations(Sessions) \cup Permutations(Cameras)

\* No action reads lost, nor does a property of streams_calls.
WithoutLost ==
  <<cameraVars, iceVars, handler, callbacks, terminating, activeCall, deviceVars,
    noted>>
=============================================================================
