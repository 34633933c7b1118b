---------------------------- MODULE DebugSession ----------------------------
(***************************************************************************)
(* What the GDB stub promises a debugger, without threads, pipe or stall:  *)
(* the session is stopped or running; the debugger resumes it; the CPU     *)
(* asks for a stop any number of times; the session answers the requests   *)
(* made while it runs with one report, and forgets the others.             *)
(***************************************************************************)
EXTENDS Naturals

VARIABLES session,   \* "stopped" or "running", as the debugger was last told
          requests   \* are there stops the stub has not looked at yet?

svars == <<session, requests>>

SInit == session = "stopped" /\ requests = FALSE

Resume == session = "stopped" /\ session' = "running" /\ UNCHANGED requests

Request == requests' = TRUE /\ UNCHANGED session

\* The stub looks at one request; others may be left behind it.
Report == /\ requests
          /\ session' = "stopped"
          /\ requests' \in BOOLEAN

SNext == Resume \/ Request \/ Report

\* No request waits for ever.
SSpec == SInit /\ [][SNext]_svars /\ WF_svars(Report)
=============================================================================
