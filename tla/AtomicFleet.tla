---------------------------- MODULE AtomicFleet -----------------------------
(***************************************************************************)
(* What an installer promises of the skill directories, without staging,   *)
(* backups or steps: "each skill-directory replacement is atomic".  A      *)
(* place goes from what it holds to a complete released copy at once.      *)
(* Anything worse, a damaged or a missing copy, comes together with a run  *)
(* that reports failure or was killed.  Other programs only fill places    *)
(* where nothing stands.                                                   *)
(***************************************************************************)
CONSTANTS
    Places,     \* the skill directories, and the output of an export
    Runs,       \* the consumers
    Copies,     \* the complete released copies
    Remains,    \* the parts a removal leaves of them
    Nothing,
    Foreign     \* what is no directory

VARIABLES
    content,    \* what each place holds
    failed      \* the runs that reported failure or were killed

Init == content \in [Places -> Copies \cup {Nothing}] /\ failed = {}

Replace(s) ==
    /\ UNCHANGED failed
    /\ \E c \in Copies : content' = [content EXCEPT ![s] = c]

Fail(p) ==
    /\ failed' = failed \cup {p}
    /\ \/ UNCHANGED content
       \/ \E s \in Places, x \in Copies \cup Remains \cup {Nothing, Foreign} :
             content' = [content EXCEPT ![s] = x]

Intrude(s) ==
    /\ UNCHANGED failed
    /\ content[s] = Nothing
    /\ content' = [content EXCEPT ![s] = Foreign]

Next ==
    \/ \E s \in Places : Replace(s) \/ Intrude(s)
    \/ \E p \in Runs : Fail(p)

Spec == Init /\ [][Next]_<<content, failed>>
=============================================================================
