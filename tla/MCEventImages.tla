---------------------------- MODULE MCEventImages ----------------------------
(***************************************************************************)
(* EventImages with two calls of one unit: its name does not tell them     *)
(* apart.                                                                  *)
(***************************************************************************)
EXTENDS EventImages

CONSTANT unit

SameUnit == <<unit, unit>>

\* The polled events are read only until there is an event, and replaced
\* before they are read again.
PolledSeen == IF lastEvent = NoEvent THEN polled ELSE 0

WhatMatters == <<storeVars, cameraVars, lastEvent, PolledSeen, op, begun>>
=============================================================================
