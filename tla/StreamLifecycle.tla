--------------------------- MODULE StreamLifecycle ---------------------------
(***************************************************************************)
(* What the RTSP client of src/live555_rtspclient promises about its       *)
(* streams, with nothing of RTSP in it: a stream is opened at most once    *)
(* and closed at most once, and the process ends exactly in the step that  *)
(* ends the last stream in use.  RtspClient implements this module.        *)
(***************************************************************************)
CONSTANT Streams    \* the URLs of the command line

VARIABLES active,   \* the streams in use
          ended,    \* the streams that were in use, or failed to start
          running   \* FALSE once the process has exited

vars == <<active, ended, running>>

TypeOK == /\ active \subseteq Streams
          /\ ended \subseteq Streams
          /\ running \in BOOLEAN

Init == active = {} /\ ended = {} /\ running = TRUE

Fresh(s) == running /\ s \notin active \cup ended

Open(s) == /\ Fresh(s)
           /\ active' = active \cup {s}
           /\ UNCHANGED <<ended, running>>

\* The stream fails before it is ever in use.
Reject(s) == /\ Fresh(s)
             /\ ended' = ended \cup {s}
             /\ running' = (active # {})
             /\ UNCHANGED active

Close(s) == /\ running
            /\ s \in active
            /\ active' = active \ {s}
            /\ ended' = ended \cup {s}
            /\ running' = (active' # {})

Next == \E s \in Streams : Open(s) \/ Reject(s) \/ Close(s)

Spec == Init /\ [][Next]_vars
=============================================================================
