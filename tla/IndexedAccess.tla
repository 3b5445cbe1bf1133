--------------------------- MODULE IndexedAccess ---------------------------
(***************************************************************************)
(* What the session path of the gateway promises to whoever reads the      *)
(* session index afterwards, with none of the steps that keep the promise: *)
(* a shell runs on a target only while its recording is being written and  *)
(* its row is listed as active, a row is written only once its recording   *)
(* exists, and a row that was closed is never opened again.                *)
(* SessionLifecycle is shown to implement this module.                     *)
(***************************************************************************)
CONSTANT Session

VARIABLES index,      \* the row of a session: "none", "open" or "closed"
          recording,  \* its asciicast file: "none", "open" or "closed"
          shell       \* what runs on the target: "none", "on" or "over"

vars == <<index, recording, shell>>

Init == /\ index = [s \in Session |-> "none"]
        /\ recording = [s \in Session |-> "none"]
        /\ shell = [s \in Session |-> "none"]

StartRecording(s) == /\ recording[s] = "none"
                     /\ index[s] = "none"
                     /\ recording' = [recording EXCEPT ![s] = "open"]
                     /\ UNCHANGED <<index, shell>>

OpenIndex(s) == /\ index[s] = "none"
                /\ recording[s] = "open"
                /\ index' = [index EXCEPT ![s] = "open"]
                /\ UNCHANGED <<recording, shell>>

StartShell(s) == /\ shell[s] = "none"
                 /\ index[s] = "open"
                 /\ recording[s] = "open"
                 /\ shell' = [shell EXCEPT ![s] = "on"]
                 /\ UNCHANGED <<index, recording>>

EndShell(s) == /\ shell[s] = "on"
               /\ shell' = [shell EXCEPT ![s] = "over"]
               /\ UNCHANGED <<index, recording>>

\* With its recording ended, a session has no shell and will get none.
EndRecording(s) == /\ recording[s] = "open"
                   /\ shell[s] # "on"
                   /\ recording' = [recording EXCEPT ![s] = "closed"]
                   /\ shell' = [shell EXCEPT ![s] = "over"]
                   /\ UNCHANGED index

CloseIndex(s) == /\ index[s] = "open"
                 /\ shell[s] # "on"
                 /\ index' = [index EXCEPT ![s] = "closed"]
                 /\ UNCHANGED <<recording, shell>>

\* The process stops: every file it held is closed and every shell it
\* proxied is cut, and the index is left as it stood.
Interrupt == /\ recording' = [s \in Session |->
                    IF recording[s] = "open" THEN "closed" ELSE recording[s]]
             /\ shell' = [s \in Session |->
                    IF recording[s] = "open" THEN "over" ELSE shell[s]]
             /\ UNCHANGED index

\* The next start: the index is made to list nothing, because nothing runs.
Recover == /\ \A s \in Session : shell[s] # "on" /\ recording[s] # "open"
           /\ index' = [s \in Session |->
                    IF index[s] = "open" THEN "closed" ELSE index[s]]
           /\ UNCHANGED <<recording, shell>>

Next == \/ \E s \in Session : \/ StartRecording(s) \/ OpenIndex(s)
                              \/ StartShell(s)     \/ EndShell(s)
                              \/ EndRecording(s)   \/ CloseIndex(s)
        \/ Interrupt
        \/ Recover

Spec == Init /\ [][Next]_vars
=============================================================================
